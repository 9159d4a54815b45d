--------------------------- MODULE SegmentJournal ---------------------------
(***************************************************************************)
(* The segment writer of src/journal/segment_journal.cpp on a file system  *)
(* that loses unsynced data, with the startup scan of replay.cpp.          *)
(*                                                                         *)
(* Every record encodes to RecordBytes bytes, the last of them the LF.  A  *)
(* segment is identified by the sequence in its name.  A file holds the    *)
(* bytes a process reads ("data") and the bytes of its last data sync      *)
(* ("disk").  Commit runs one file-system call per step, because the       *)
(* process or the machine can stop between any two of them.                *)
(***************************************************************************)
EXTENDS Naturals, Sequences, FiniteSetsExt, SequencesExt

CONSTANTS
    Events,        \* logical events, told apart only by identity
    RecordBytes,   \* bytes of one encoded record, LF included
    SegmentLimit,  \* SegmentJournalOptions::segment_limit_bytes
    MaxSequence,   \* UINT64_MAX
    Endings,       \* what may stop a process: "process" (the machine runs on), "power"
    None

SequenceNumbers == 1 .. MaxSequence
Records == [sequence : SequenceNumbers, event : Events]
Bytes == [record : Records, index : 1 .. RecordBytes]
Files == [data : Seq(Bytes), disk : Seq(Bytes)]

ASSUME JournalAssumption ==
    /\ RecordBytes \in Nat \ {0}
    /\ SegmentLimit \in Nat \ {0}
    /\ MaxSequence \in Nat \ {0}
    /\ Endings \subseteq {"process", "power"}
    /\ None \notin Nat
    /\ None \notin Records

VARIABLES
    files,      \* segment's first sequence -> its content
    linked,     \* segments whose directory entry is durable
    writer,     \* the SegmentJournal instance of the running process
    committed   \* every record some Commit answered kCommitted (history)

vars == <<files, linked, writer, committed>>

EmptyFile == [data |-> <<>>, disk |-> <<>>]

Phases == {"closed", "open", "create", "sync_file", "sync_entry", "write", "sync_record"}

Writers ==
    [phase : Phases, active : SequenceNumbers \cup {None}, active_size : Nat,
     active_durable : BOOLEAN, next_sequence : 0 .. MaxSequence, poisoned : BOOLEAN,
     failure : {"definite_failure", "outcome_unknown", None}, record : Records \cup {None},
     written : 0 .. RecordBytes]

\* A process that has not opened the Journal.
NoWriter ==
    [phase |-> "closed", active |-> None, active_size |-> 0, active_durable |-> TRUE,
     next_sequence |-> 0, poisoned |-> FALSE, failure |-> None, record |-> None, written |-> 0]

Init ==
    /\ files = [f \in {} |-> EmptyFile]
    /\ linked = {}
    /\ writer = NoWriter
    /\ committed = {}

-----------------------------------------------------------------------------
(* Reading a segment.                                                      *)

IsLF(byte) == byte.index = RecordBytes
Torn(data) == data # <<>> /\ ~IsLF(data[Len(data)])
Lines(data) == SelectSeq(data, IsLF)

\* Every line, and the unfinished one, holds the bytes of one record in order.
Decodes(data) ==
    \A i \in 1 .. Len(data) :
        /\ data[i].index = ((i - 1) % RecordBytes) + 1
        /\ data[i].index > 1 => data[i].record = data[i - 1].record

Highest(fs) == CHOOSE f \in DOMAIN fs : \A g \in DOMAIN fs : g <= f
LastSequence(data) == data[Len(data)].record.sequence

-----------------------------------------------------------------------------
(* Locate: where the writer continues.  It reads the highest segment, and  *)
(* the one before it when the highest is empty.                            *)

Refused == [ok |-> FALSE, next |-> 0, active |-> None, size |-> 0]
Located(next, active, size) == [ok |-> TRUE, next |-> next, active |-> active, size |-> size]

LocateEmpty(fs, first) ==
    LET earlier == [f \in DOMAIN fs \ {first} |-> fs[f]]
        previous == earlier[Highest(earlier)].data
        expected == IF DOMAIN earlier = {} THEN 1 ELSE LastSequence(previous) + 1
    IN  IF \/ DOMAIN earlier # {} /\ (previous = <<>> \/ Torn(previous))
           \/ first # expected
        THEN Refused
        ELSE Located(first, first, 0)

\* Mutant: a full segment is continued at its own last sequence.
LocateOffByOne(fs) ==
    IF DOMAIN fs = {} THEN Located(1, None, 0)
    ELSE LET first == Highest(fs)
             data == fs[first].data
         IN  IF data = <<>> THEN LocateEmpty(fs, first)
             ELSE IF Torn(data) \/ LastSequence(data) = MaxSequence THEN Refused
                  ELSE IF Len(data) >= SegmentLimit THEN Located(LastSequence(data), None, 0)
                       ELSE Located(LastSequence(data) + 1, first, Len(data))

Locate(fs) ==
    IF DOMAIN fs = {} THEN Located(1, None, 0)
    ELSE LET first == Highest(fs)
             data == fs[first].data
         IN  IF data = <<>> THEN LocateEmpty(fs, first)
             ELSE IF \/ Torn(data)
                     \/ LastSequence(data) < first
                     \/ LastSequence(data) = MaxSequence
                  THEN Refused
                  ELSE IF Len(data) >= SegmentLimit
                       THEN Located(LastSequence(data) + 1, None, 0)
                       ELSE Located(LastSequence(data) + 1, first, Len(data))

-----------------------------------------------------------------------------
(* ReplayJournal's structural checks, segment by segment in sequence order.*)

Corrupt(fs) ==
    \E f \in DOMAIN fs :
        LET lines == Lines(fs[f].data)
            later == {g \in DOMAIN fs : g > f}
        IN  \/ ~Decodes(fs[f].data)
            \/ \E i \in 1 .. Len(lines) : lines[i].record.sequence # f + i - 1
            \/ /\ later # {}
               /\ \/ Torn(fs[f].data)
                  \/ lines = <<>>
                  \/ \A g \in later : g # f + Len(lines)
                  \/ \E g \in later : g < f + Len(lines)
            \/ DOMAIN fs = {f} /\ fs[f].data = <<>> /\ f # 1

ReplayStatus(fs) ==
    IF DOMAIN fs = {} THEN "replayed"
    ELSE IF Corrupt(fs) THEN "corrupt"
    ELSE LET data == fs[Highest(fs)].data
         IN  IF Torn(data) THEN "torn_tail"
             ELSE IF data # <<>> /\ LastSequence(data) = MaxSequence THEN "sequence_exhausted"
             ELSE "replayed"

\* next_sequence of a replayed Journal: one past the last record, or 1.
ReplayNext(fs) ==
    IF DOMAIN fs = {} THEN 1
    ELSE Highest(fs) + Len(Lines(fs[Highest(fs)].data))

-----------------------------------------------------------------------------
(* The daemon opens the Journal and then replays it; either may refuse.    *)

\* Mutant: an adopted empty segment is taken to be durable.
OpenTrustsEmpty ==
    LET located == Locate(files)
    IN  /\ writer.phase = "closed"
        /\ located.ok
        /\ ReplayStatus(files) = "replayed"
        /\ writer' = [NoWriter EXCEPT
               !.phase = "open", !.active = located.active, !.active_size = located.size,
               !.next_sequence = located.next]
        /\ UNCHANGED <<files, linked, committed>>

Open ==
    LET located == Locate(files)
    IN  /\ writer.phase = "closed"
        /\ located.ok
        /\ ReplayStatus(files) = "replayed"
        /\ writer' = [NoWriter EXCEPT
               !.phase = "open", !.active = located.active, !.active_size = located.size,
               !.active_durable = located.active = None \/ located.size > 0,
               !.next_sequence = located.next]
        /\ UNCHANGED <<files, linked, committed>>

\* Mutant: a failed Commit leaves the instance usable.
FailUnpoisoned(result) ==
    /\ writer' = [writer EXCEPT !.phase = "open", !.record = None,
                                !.failure = IF writer.poisoned THEN @ ELSE result]
    /\ UNCHANGED <<files, linked, committed>>

\* A result other than kCommitted poisons the instance; the first one is its failure.
Fail(result) ==
    /\ writer' = [writer EXCEPT !.phase = "open", !.poisoned = TRUE, !.record = None,
                                !.failure = IF writer.poisoned THEN @ ELSE result]
    /\ UNCHANGED <<files, linked, committed>>

Rotates ==
    \/ writer.active = None
    \/ writer.active_size > 0 /\ writer.active_size + RecordBytes > SegmentLimit

\* Commit up to its first file-system call; the encoder may refuse the event.
Commit(r) ==
    /\ writer.phase = "open"
    /\ \/ Fail("definite_failure")
       \/ /\ ~writer.poisoned
          /\ r.sequence = writer.next_sequence
          /\ writer' = [writer EXCEPT
                 !.phase = IF Rotates THEN "create"
                           ELSE IF writer.active_durable THEN "write" ELSE "sync_file",
                 !.active = IF Rotates THEN None ELSE @,
                 !.record = r, !.written = 0]
          /\ UNCHANGED <<files, linked, committed>>

\* StartSegment creates the file exclusively ...
CreateSegment ==
    LET first == writer.record.sequence
    IN  /\ writer.phase = "create"
        /\ \/ Fail("definite_failure")
           \/ /\ first \notin DOMAIN files
              /\ files' = [f \in DOMAIN files \cup {first} |->
                              IF f = first THEN EmptyFile ELSE files[f]]
              /\ writer' = [writer EXCEPT !.phase = "sync_file", !.active = first,
                                          !.active_size = 0, !.active_durable = FALSE]
              /\ UNCHANGED <<linked, committed>>

Sync(f) == files' = [files EXCEPT ![f].disk = files[f].data]

\* ... and syncs it, as MakeActiveDurable does for an adopted empty segment ...
SyncSegment ==
    /\ writer.phase = "sync_file"
    /\ \/ Fail("definite_failure")
       \/ /\ Sync(writer.active)
          /\ writer' = [writer EXCEPT !.phase = "sync_entry"]
          /\ UNCHANGED <<linked, committed>>

\* ... and then its directory entry, before any byte of the record.
SyncEntry ==
    /\ writer.phase = "sync_entry"
    /\ \/ Fail("definite_failure")
       \/ /\ linked' = DOMAIN files
          /\ writer' = [writer EXCEPT !.phase = "write", !.active_durable = TRUE]
          /\ UNCHANGED <<files, committed>>

\* Mutant: every write error is reported as a definite failure.
WriteAlwaysDefinite ==
    /\ writer.phase = "write"
    /\ \/ Fail("definite_failure")
       \/ \E n \in 1 .. RecordBytes - writer.written :
              LET chunk == [i \in 1 .. n |->
                               [record |-> writer.record, index |-> writer.written + i]]
              IN  /\ files' = [files EXCEPT ![writer.active].data = @ \o chunk]
                  /\ writer' = [writer EXCEPT
                         !.phase = IF writer.written + n = RecordBytes THEN "sync_record" ELSE @,
                         !.written = @ + n, !.active_size = @ + n]
                  /\ UNCHANGED <<linked, committed>>

\* One write call: it accepts up to the rest of the record, or ends the Commit.  An
\* interrupted call is repeated.
Write ==
    /\ writer.phase = "write"
    /\ \/ Fail(IF writer.written = 0 THEN "definite_failure" ELSE "outcome_unknown")
       \/ \E n \in 1 .. RecordBytes - writer.written :
              LET chunk == [i \in 1 .. n |->
                               [record |-> writer.record, index |-> writer.written + i]]
              IN  /\ files' = [files EXCEPT ![writer.active].data = @ \o chunk]
                  /\ writer' = [writer EXCEPT
                         !.phase = IF writer.written + n = RecordBytes THEN "sync_record" ELSE @,
                         !.written = @ + n, !.active_size = @ + n]
                  /\ UNCHANGED <<linked, committed>>

\* Mutant: the record is acknowledged without its data sync.
SyncRecordUnsynced ==
    /\ writer.phase = "sync_record"
    /\ writer' = [writer EXCEPT !.phase = "open", !.record = None,
                      !.next_sequence = (@ + 1) % (MaxSequence + 1)]
    /\ committed' = committed \cup {writer.record}
    /\ UNCHANGED <<files, linked>>

SyncRecord ==
    /\ writer.phase = "sync_record"
    /\ \/ Fail("outcome_unknown")
       \/ /\ Sync(writer.active)
          /\ writer' = [writer EXCEPT !.phase = "open", !.record = None,
                            !.next_sequence = (@ + 1) % (MaxSequence + 1)]
          /\ committed' = committed \cup {writer.record}
          /\ UNCHANGED linked

-----------------------------------------------------------------------------
(* What can stop the process.                                              *)

\* The process ends, orderly or not, and the machine keeps its page cache.
ProcessEnds ==
    /\ "process" \in Endings
    /\ writer' = NoWriter
    /\ UNCHANGED <<files, linked, committed>>

\* The first i bytes are the same in the page cache and on the disk.
Certain(file, i) ==
    /\ i <= Len(file.data)
    /\ i <= Len(file.disk)
    /\ \A k \in 1 .. i : file.data[k] = file.disk[k]

\* A file after power loss: a prefix of what was written or of what was synced that keeps
\* every byte the two agree on.
Images(file) ==
    {image \in UNION {{SubSeq(bytes, 1, n) : n \in 0 .. Len(bytes)} :
                         bytes \in {file.data, file.disk}} :
        \A i \in 0 .. Len(file.data) : Certain(file, i) => i <= Len(image)}

PowerLoss ==
    /\ "power" \in Endings
    /\ \E lost \in SUBSET (DOMAIN files \ linked) :
           LET kept == DOMAIN files \ lost
           IN  /\ \E image \in [kept -> UNION {Images(files[f]) : f \in kept}] :
                      /\ \A f \in kept : image[f] \in Images(files[f])
                      /\ files' = [f \in kept |-> [data |-> image[f], disk |-> image[f]]]
               /\ linked' = kept
    /\ writer' = NoWriter
    /\ UNCHANGED committed

Ends(ending) == IF ending = "process" THEN ProcessEnds ELSE PowerLoss

Next ==
    \/ Open
    \/ \E r \in Records : Commit(r)
    \/ CreateSegment
    \/ SyncSegment
    \/ SyncEntry
    \/ Write
    \/ SyncRecord
    \/ \E ending \in Endings : Ends(ending)

Spec == Init /\ [][Next]_vars

-----------------------------------------------------------------------------
\* The ranges of the files, the writer's fields and the acknowledged records; next_sequence
\* wraps to 0 after the last sequence.
TypeOK ==
    /\ DOMAIN files \subseteq SequenceNumbers
    /\ \A f \in DOMAIN files : files[f] \in Files
    /\ linked \subseteq DOMAIN files
    /\ writer \in Writers
    /\ committed \subseteq Records

\* A record answered kCommitted survives every later crash: its LF is a byte that page cache
\* and disk agree on, in a segment whose directory entry is durable.
Durable(r) ==
    \E f \in linked :
        \E i \in 1 .. Len(files[f].data) :
            /\ files[f].data[i] = [record |-> r, index |-> RecordBytes]
            /\ Certain(files[f], i)
CommittedIsDurable == \A r \in committed : Durable(r)

\* "A crash can only leave a torn tail": whatever stops the process or the machine, the next
\* startup never finds a corrupt Journal.
CrashLeavesOnlyTornTail == ReplayStatus(files) # "corrupt"

\* Locate and ReplayJournal scan the directory independently.  Whenever replay accepts it,
\* the writer continues at exactly the sequence after the last replayed record.
LocateAgreesWithReplay ==
    ReplayStatus(files) = "replayed" /\ writer.phase = "closed" =>
        Locate(files).ok /\ Locate(files).next = ReplayNext(files)

\* Until a Commit has written a byte, or when it failed definitely, no file holds any byte at
\* or after the next sequence: a definite failure can be reported as "never happened".
DefiniteMeansAbsent ==
    /\ writer.phase # "closed"
    /\ writer.failure # "outcome_unknown"
    /\ writer.phase \notin {"write", "sync_record"} \/ writer.written = 0
    => \A f \in DOMAIN files : \A i \in 1 .. Len(files[f].data) :
           writer.next_sequence # 0 => files[f].data[i].record.sequence < writer.next_sequence

\* What a Commit in progress has established, step by step.
CommitProgress ==
    /\ writer.active # None =>
           writer.active \in DOMAIN files /\ (writer.active_durable => writer.active \in linked)
    /\ writer.phase \notin {"closed", "open"} => writer.record # None
    /\ writer.phase \in {"sync_file", "sync_entry", "write", "sync_record"} =>
           writer.active # None
    /\ writer.phase \in {"write", "sync_record"} => writer.active_durable
    /\ writer.phase \in {"create", "sync_file", "sync_entry", "write"} =>
           writer.written < RecordBytes
    /\ writer.phase = "sync_record" =>
           LET data == files[writer.active].data
           IN  /\ data # <<>>
               /\ data[Len(data)] = [record |-> writer.record, index |-> RecordBytes]

\* A segment that holds a byte has a durable directory entry.
BytesAreLinked ==
    \A f \in DOMAIN files : files[f].data # <<>> \/ files[f].disk # <<>> => f \in linked

\* The inductive invariant behind CommittedIsDurable.
DurabilityInvariant == TypeOK /\ CommitProgress /\ BytesAreLinked /\ CommittedIsDurable

-----------------------------------------------------------------------------
(* Refinement of the abstract log.                                         *)

Readable == UNION {{Lines(files[f].data)[i].record : i \in 1 .. Len(Lines(files[f].data))} :
                      f \in DOMAIN files}

Log == INSTANCE DurableLog WITH
    log <- SetToSortSeq(Readable, LAMBDA a, b : a.sequence < b.sequence),
    acknowledged <- Max({0} \cup {r.sequence : r \in committed})

\* The Journal implements the abstract durable log.
ImplementsDurableLog == Log!Spec

=============================================================================
