------------------------ MODULE SegmentJournalProofs ------------------------
(***************************************************************************)
(* Every committed record is durable, for every set of events, record      *)
(* size, segment limit, sequence bound and way a process may end.          *)
(***************************************************************************)
EXTENDS SegmentJournal, SequenceTheorems, WellFoundedInduction, TLAPS

\* The highest segment that Locate and ReplayJournal look for exists.
LEMMA HighestExists ==
    ASSUME NEW fs, DOMAIN fs \subseteq SequenceNumbers, DOMAIN fs # {}
    PROVE  Highest(fs) \in DOMAIN fs
<1> DEFINE T == {MaxSequence - f : f \in DOMAIN fs}
           Less == OpToRel(<, Nat)
<1>1. T # {} /\ T \subseteq Nat
      BY JournalAssumption DEF JournalAssumption, SequenceNumbers
<1>2. IsWellFoundedOn(Less, Nat)
      BY NatLessThanWellFounded, Zenon
<1> HIDE DEF T, Less
<1>3. PICK n \in T : \A m \in T : ~(<<m, n>> \in Less)
      BY <1>1, <1>2, WFMin, Zenon
<1>4. \A m \in T : n <= m
  <2> TAKE m \in T
  <2>1. m \in Nat /\ n \in Nat
        BY <1>1
  <2>2. m < n => <<m, n>> \in Less
        BY <2>1 DEF Less, OpToRel
  <2> QED  BY <1>3, <2>1, <2>2
<1>5. PICK f \in DOMAIN fs : n = MaxSequence - f
      BY DEF T
<1>6. \A g \in DOMAIN fs : g \in Nat /\ MaxSequence - g \in T
      BY DEF T, SequenceNumbers
<1>7. \A g \in DOMAIN fs : g <= f
      BY <1>4, <1>5, <1>6, JournalAssumption DEF JournalAssumption
<1> QED  BY <1>7 DEF Highest

\* Where Locate lets the writer continue: at no segment, at the highest one with its bytes
\* counted, or at an empty one.
LEMMA LocateTyped ==
    ASSUME NEW fs, DOMAIN fs \subseteq SequenceNumbers, \A f \in DOMAIN fs : fs[f] \in Files,
           Locate(fs).ok
    PROVE  /\ Locate(fs).next \in 0 .. MaxSequence
           /\ Locate(fs).size \in Nat
           /\ Locate(fs).active \in DOMAIN fs \cup {None}
           /\ Locate(fs).active # None /\ Locate(fs).size > 0 =>
                  fs[Locate(fs).active].data # <<>>
<1>1. CASE DOMAIN fs = {}
      BY <1>1, JournalAssumption DEF JournalAssumption, Locate, Located
<1>2. CASE DOMAIN fs # {}
  <2> DEFINE first == Highest(fs)
             data == fs[first].data
  <2>1. first \in DOMAIN fs
        BY <1>2, HighestExists
  <2>2. first \in 1 .. MaxSequence /\ first # None /\ data \in Seq(Bytes)
        BY <2>1, JournalAssumption DEF JournalAssumption, SequenceNumbers, Files
  <2> HIDE DEF first
  <2>3. CASE data = <<>>
    <3>1. Locate(fs) = LocateEmpty(fs, first)
          BY <1>2, <2>3 DEF Locate, first
    <3>2. LocateEmpty(fs, first) = Located(first, first, 0)
          BY <3>1 DEF LocateEmpty, Refused
    <3> QED  BY <2>1, <2>2, <3>1, <3>2 DEF Located
  <2>4. CASE data # <<>>
    <3>a. Len(data) \in Nat \ {0} /\ data[Len(data)] \in Bytes
          BY <2>2, <2>4
    <3>1. Len(data) \in Nat \ {0} /\ LastSequence(data) \in 1 .. MaxSequence
          BY <3>a DEF LastSequence, Bytes, Records, SequenceNumbers
    <3>2. /\ LastSequence(data) # MaxSequence
          /\ Locate(fs) \in {Located(LastSequence(data) + 1, None, 0),
                             Located(LastSequence(data) + 1, first, Len(data))}
          BY <1>2, <2>4 DEF Locate, Refused, first
    <3> QED  BY <2>1, <2>4, <3>1, <3>2, JournalAssumption DEF JournalAssumption, Located
  <2> QED  BY <2>3, <2>4
<1> QED  BY <1>1, <1>2, Zenon

\* A segment that keeps its certain bytes keeps every durable record.
KeepsBytes(f) ==
    \A i \in 1 .. Len(files[f].data) :
        Certain(files[f], i) =>
            /\ i \in 1 .. Len(files'[f].data)
            /\ files'[f].data[i] = files[f].data[i]
            /\ Certain(files'[f], i)

LEMMA DurableStays ==
    ASSUME CommittedIsDurable, linked \subseteq linked', \A f \in linked : KeepsBytes(f),
           NEW r \in committed
    PROVE  Durable(r)'
<1>1. PICK f \in linked : \E i \in 1 .. Len(files[f].data) :
          /\ files[f].data[i] = [record |-> r, index |-> RecordBytes]
          /\ Certain(files[f], i)
      BY DEF CommittedIsDurable, Durable
<1>2. PICK i \in 1 .. Len(files[f].data) :
          /\ files[f].data[i] = [record |-> r, index |-> RecordBytes]
          /\ Certain(files[f], i)
      BY <1>1
<1>3. /\ i \in 1 .. Len(files'[f].data)
      /\ files'[f].data[i] = [record |-> r, index |-> RecordBytes]
      /\ Certain(files'[f], i)
      BY <1>2 DEF KeepsBytes
<1>4. f \in linked'
      OBVIOUS
<1> QED  BY <1>3, <1>4 DEF Durable

\* The fields of the writer that steps set together keep their types.
LEMMA WriterFields ==
    ASSUME NEW w \in Writers
    PROVE  /\ \A p \in Phases : [w EXCEPT !.phase = p] \in Writers
           /\ \A a \in SequenceNumbers \cup {None} : [w EXCEPT !.active = a] \in Writers
           /\ \A n \in Nat : [w EXCEPT !.active_size = n] \in Writers
           /\ \A b \in BOOLEAN : [w EXCEPT !.active_durable = b] \in Writers
           /\ \A n \in 0 .. MaxSequence : [w EXCEPT !.next_sequence = n] \in Writers
           /\ \A r \in Records \cup {None} : [w EXCEPT !.record = r] \in Writers
           /\ \A n \in 0 .. RecordBytes : [w EXCEPT !.written = n] \in Writers
BY DEF Writers

\* A failing Commit changes nothing on disk.
LEMMA FailStep ==
    ASSUME DurabilityInvariant, NEW result \in {"definite_failure", "outcome_unknown"},
           Fail(result)
    PROVE  DurabilityInvariant'
<1> USE DEF DurabilityInvariant
<1>1. TypeOK'
      BY Zenon DEF Fail, TypeOK, Writers, Phases
<1>2. CommitProgress'
      BY DEF Fail, CommitProgress, TypeOK, Writers
<1>3. BytesAreLinked' /\ CommittedIsDurable'
      BY DEF Fail, BytesAreLinked, CommittedIsDurable, Durable
<1> QED  BY <1>1, <1>2, <1>3

LEMMA OpenStep ==
    ASSUME DurabilityInvariant, Open
    PROVE  DurabilityInvariant'
<1> USE DEF DurabilityInvariant
<1> DEFINE located == Locate(files)
<1>1. /\ located.next \in 0 .. MaxSequence
      /\ located.size \in Nat
      /\ located.active \in DOMAIN files \cup {None}
      /\ located.active # None /\ located.size > 0 => files[located.active].data # <<>>
      BY LocateTyped DEF Open, TypeOK
<1>2. PICK durable \in BOOLEAN :
          /\ durable <=> (located.active = None \/ located.size > 0)
          /\ writer' = [NoWriter EXCEPT
                 !.phase = "open", !.active = located.active, !.active_size = located.size,
                 !.active_durable = durable, !.next_sequence = located.next]
  <2>1. CASE located.active = None \/ located.size > 0
    <3>1. (located.active = None \/ located.size > 0) = TRUE
          BY <2>1
    <3> QED  BY <3>1, Zenon DEF Open
  <2>2. CASE ~(located.active = None \/ located.size > 0)
    <3>1. (located.active = None \/ located.size > 0) = FALSE
          BY <2>2
    <3> QED  BY <3>1, Zenon DEF Open
  <2> QED  BY <2>1, <2>2, Zenon
<1> HIDE DEF located
<1>3. TypeOK'
  <2>1. located.active \in SequenceNumbers \cup {None}
        BY <1>1 DEF TypeOK
  <2>a. NoWriter \in Writers /\ "open" \in Phases
        BY JournalAssumption DEF JournalAssumption, NoWriter, Writers, Phases
  <2>b. [NoWriter EXCEPT !.phase = "open"] \in Writers
        BY <2>a, WriterFields
  <2>c. [NoWriter EXCEPT !.phase = "open", !.active = located.active] \in Writers
        BY <2>1, <2>b, WriterFields, Zenon
  <2>d. [NoWriter EXCEPT !.phase = "open", !.active = located.active,
                         !.active_size = located.size] \in Writers
        BY <1>1, <2>c, WriterFields, Zenon
  <2>e. [NoWriter EXCEPT !.phase = "open", !.active = located.active,
                         !.active_size = located.size, !.active_durable = durable] \in Writers
        BY <1>2, <2>d, WriterFields, Zenon
  <2>2. writer' \in Writers
        BY <1>1, <1>2, <2>e, WriterFields, Zenon
  <2>3. UNCHANGED <<files, linked, committed>>
        BY DEF Open
  <2> QED  BY <2>2, <2>3 DEF TypeOK
<1>4. CommitProgress'
  <2>1. located.active # None /\ located.size > 0 => located.active \in linked
        BY <1>1 DEF BytesAreLinked
  <2>2. /\ writer'.phase = "open" /\ writer'.active = located.active
        /\ writer'.active_durable = durable
        BY <1>2 DEF NoWriter
  <2> QED  BY <1>1, <1>2, <2>1, <2>2 DEF Open, CommitProgress
<1>5. BytesAreLinked' /\ CommittedIsDurable'
      BY DEF Open, BytesAreLinked, CommittedIsDurable, Durable
<1> QED  BY <1>3, <1>4, <1>5

LEMMA CommitStep ==
    ASSUME DurabilityInvariant, NEW r \in Records, Commit(r)
    PROVE  DurabilityInvariant'
<1> USE DEF DurabilityInvariant
<1>1. CASE Fail("definite_failure")
      BY <1>1, FailStep
<1>2. CASE ~Fail("definite_failure")
  <2>1. PICK p \in Phases, a \in SequenceNumbers \cup {None} :
          /\ writer' = [writer EXCEPT !.phase = p, !.active = a, !.record = r, !.written = 0]
          /\ \/ p = "create" /\ a = None
             \/ p = "write" /\ a = writer.active /\ a # None /\ writer.active_durable
             \/ p = "sync_file" /\ a = writer.active /\ a # None
    <3>1. CASE Rotates
          BY <1>2, <3>1, ZenonT(30) DEF Commit, Phases
    <3>2. CASE ~Rotates /\ writer.active_durable
      <4>1. writer' = [writer EXCEPT !.phase = "write", !.active = writer.active, !.record = r,
                                     !.written = 0]
            BY <1>2, <3>2, SMTT(30) DEF Commit
      <4> QED  BY <3>2, <4>1, Zenon DEF Phases, Rotates, TypeOK, Writers
    <3>3. CASE ~Rotates /\ ~writer.active_durable
      <4>1. writer' = [writer EXCEPT !.phase = "sync_file", !.active = writer.active,
                                     !.record = r, !.written = 0]
            BY <1>2, <3>3 DEF Commit
      <4> QED  BY <3>3, <4>1, Zenon DEF Phases, Rotates, TypeOK, Writers
    <3> QED  BY <3>1, <3>2, <3>3, ZenonT(30)
  <2>2. UNCHANGED <<files, linked, committed>>
        BY <1>2 DEF Commit
  <2>a. TypeOK'
    <3>a. writer \in Writers /\ r \in Records \cup {None} /\ 0 \in 0 .. RecordBytes
          BY JournalAssumption DEF JournalAssumption, TypeOK
    <3>b. [writer EXCEPT !.phase = p] \in Writers
          BY <3>a, WriterFields
    <3>c. [writer EXCEPT !.phase = p, !.active = a] \in Writers
          BY <3>b, WriterFields, Zenon
    <3>d. [writer EXCEPT !.phase = p, !.active = a, !.record = r] \in Writers
          BY <3>a, <3>c, WriterFields, Zenon
    <3>1. writer' \in Writers
          BY <2>1, <3>a, <3>d, WriterFields, Zenon
    <3> QED  BY <2>2, <3>1 DEF TypeOK
  <2>b. CommitProgress'
    <3>1. /\ writer'.phase = p /\ writer'.active = a /\ writer'.record = r
          /\ writer'.written = 0 /\ writer'.active_durable = writer.active_durable
          BY <2>1 DEF TypeOK, Writers
    <3>2. r # None
          BY JournalAssumption DEF JournalAssumption
    <3> QED  BY <2>1, <2>2, <3>1, <3>2, JournalAssumption
             DEF JournalAssumption, CommitProgress
  <2>3. BytesAreLinked' /\ CommittedIsDurable'
        BY <1>2 DEF Commit, BytesAreLinked, CommittedIsDurable, Durable
  <2> QED  BY <2>a, <2>b, <2>3, SMTT(30)
<1> QED  BY <1>1, <1>2

LEMMA CreateStep ==
    ASSUME DurabilityInvariant, CreateSegment
    PROVE  DurabilityInvariant'
<1> USE DEF DurabilityInvariant
<1> DEFINE first == writer.record.sequence
<1>1. CASE Fail("definite_failure")
      BY <1>1, FailStep
<1>2. CASE ~Fail("definite_failure")
  <2>1. /\ writer.record \in Records /\ first \in SequenceNumbers
        /\ first \notin DOMAIN files
        /\ files' = [f \in DOMAIN files \cup {first} |->
                        IF f = first THEN EmptyFile ELSE files[f]]
        /\ writer' = [writer EXCEPT !.phase = "sync_file", !.active = first,
                                    !.active_size = 0, !.active_durable = FALSE]
        /\ UNCHANGED <<linked, committed>>
        BY <1>2 DEF CreateSegment, CommitProgress, TypeOK, Writers, Records
  <2> HIDE DEF first
  <2>2. EmptyFile \in Files
        BY DEF EmptyFile, Files
  <2>3. TypeOK'
        BY <2>1, <2>2, Zenon DEF TypeOK, Writers, Phases
  <2>4. CommitProgress'
        BY <1>2, <2>1, JournalAssumption
        DEF JournalAssumption, CreateSegment, CommitProgress, TypeOK, Writers, SequenceNumbers
  <2>5. BytesAreLinked'
        BY <2>1 DEF BytesAreLinked, EmptyFile
  <2>6. \A f \in linked : files'[f] = files[f]
        BY <2>1 DEF TypeOK
  <2>7. CommittedIsDurable'
        BY <2>1, <2>6, Zenon DEF CommittedIsDurable, Durable
  <2> QED  BY <2>3, <2>4, <2>5, <2>7
<1> QED  BY <1>1, <1>2

\* What a data sync does to the files.
LEMMA SyncFacts ==
    ASSUME TypeOK, NEW a \in DOMAIN files, Sync(a)
    PROVE  /\ DOMAIN files' = DOMAIN files
           /\ \A f \in DOMAIN files : files'[f] \in Files /\ files'[f].data = files[f].data
           /\ files'[a].disk = files[a].data
           /\ \A f \in DOMAIN files \ {a} : files'[f] = files[f]
           /\ \A f \in DOMAIN files : KeepsBytes(f)
<1>1. /\ DOMAIN files' = DOMAIN files
      /\ \A f \in DOMAIN files : files'[f] \in Files /\ files'[f].data = files[f].data
      /\ files'[a].disk = files[a].data
      /\ \A f \in DOMAIN files \ {a} : files'[f] = files[f]
      BY Zenon DEF Sync, TypeOK, Files
<1>2. ASSUME NEW f \in DOMAIN files PROVE KeepsBytes(f)
  <2>1. CASE f = a
        BY <1>1, <2>1 DEF KeepsBytes, Certain, Files
  <2>2. CASE f # a
        BY <1>1, <2>2, SMTT(30) DEF KeepsBytes
  <2> QED  BY <2>1, <2>2
<1> QED  BY <1>1, <1>2

LEMMA SyncSegmentStep ==
    ASSUME DurabilityInvariant, SyncSegment
    PROVE  DurabilityInvariant'
<1> USE DEF DurabilityInvariant
<1>1. CASE Fail("definite_failure")
      BY <1>1, FailStep
<1>2. CASE ~Fail("definite_failure")
  <2>1. /\ writer.phase = "sync_file" /\ writer.active \in DOMAIN files
        /\ Sync(writer.active)
        /\ writer' = [writer EXCEPT !.phase = "sync_entry"]
        /\ UNCHANGED <<linked, committed>>
        BY <1>2 DEF SyncSegment, CommitProgress
  <2>2. /\ DOMAIN files' = DOMAIN files
        /\ \A f \in DOMAIN files : files'[f] \in Files /\ files'[f].data = files[f].data
        /\ files'[writer.active].disk = files[writer.active].data
        /\ \A f \in DOMAIN files \ {writer.active} : files'[f] = files[f]
        /\ \A f \in DOMAIN files : KeepsBytes(f)
        BY <2>1, SyncFacts
  <2>3. TypeOK'
        BY <2>1, <2>2 DEF TypeOK, Writers, Phases
  <2>4. CommitProgress'
        BY <2>1, <2>2 DEF CommitProgress, TypeOK, Writers
  <2>5. BytesAreLinked'
        BY <2>1, <2>2 DEF BytesAreLinked
  <2>6. CommittedIsDurable'
        BY <2>1, <2>2, DurableStays DEF CommittedIsDurable, TypeOK
  <2> QED  BY <2>3, <2>4, <2>5, <2>6
<1> QED  BY <1>1, <1>2

LEMMA SyncEntryStep ==
    ASSUME DurabilityInvariant, SyncEntry
    PROVE  DurabilityInvariant'
<1> USE DEF DurabilityInvariant
<1>1. CASE Fail("definite_failure")
      BY <1>1, FailStep
<1>2. CASE ~Fail("definite_failure")
  <2>1. /\ writer.phase = "sync_entry" /\ linked' = DOMAIN files
        /\ writer' = [writer EXCEPT !.phase = "write", !.active_durable = TRUE]
        /\ UNCHANGED <<files, committed>>
        BY <1>2 DEF SyncEntry
  <2>2. TypeOK'
        BY <2>1, Zenon DEF TypeOK, Writers, Phases
  <2>3. CommitProgress'
        BY <2>1 DEF CommitProgress, TypeOK, Writers
  <2>4. BytesAreLinked'
        BY <2>1 DEF BytesAreLinked
  <2>5. CommittedIsDurable'
        BY <2>1 DEF CommittedIsDurable, Durable, TypeOK
  <2> QED  BY <2>2, <2>3, <2>4, <2>5
<1> QED  BY <1>1, <1>2

\* What appending a non-empty chunk to a sequence keeps and adds.
LEMMA Appended ==
    ASSUME NEW S, NEW s \in Seq(S), NEW t \in Seq(S), NEW n \in Nat \ {0}, Len(t) = n
    PROVE  /\ s \o t \in Seq(S) /\ Len(s \o t) = Len(s) + n /\ Len(s) \in Nat
           /\ \A i \in 1 .. Len(s) : (s \o t)[i] = s[i]
           /\ (s \o t)[Len(s) + n] = t[n]
           /\ s \o t # <<>>
<1>1. /\ s \o t \in Seq(S) /\ Len(s \o t) = Len(s) + n /\ Len(s) \in Nat
      OBVIOUS
<1>2. \A i \in 1 .. Len(s) : (s \o t)[i] = s[i]
      OBVIOUS
<1>3. (s \o t)[Len(s) + n] = t[n]
      OBVIOUS
<1>4. s \o t # <<>>
      BY <1>1
<1> QED  BY <1>1, <1>2, <1>3, <1>4, Zenon

\* What one accepted write does to the active segment.
LEMMA WriteFacts ==
    ASSUME DurabilityInvariant, writer.phase = "write",
           NEW n \in 1 .. RecordBytes - writer.written,
           NEW chunk,
           chunk = [i \in 1 .. n |-> [record |-> writer.record, index |-> writer.written + i]],
           files' = [files EXCEPT ![writer.active].data = @ \o chunk]
    PROVE  /\ DOMAIN files' = DOMAIN files
           /\ \A f \in DOMAIN files : files'[f] \in Files /\ KeepsBytes(f)
           /\ \A f \in DOMAIN files \ {writer.active} : files'[f] = files[f]
           /\ files'[writer.active].data # <<>>
           /\ LET data == files'[writer.active].data
              IN  data[Len(data)] = [record |-> writer.record, index |-> writer.written + n]
<1> USE DEF DurabilityInvariant
<1> DEFINE a == writer.active
           old == files[a].data
<1>1. /\ a \in DOMAIN files /\ writer.record \in Records
      /\ writer.written \in Nat /\ RecordBytes \in Nat
      /\ n \in Nat \ {0} /\ writer.written + n <= RecordBytes
      BY JournalAssumption DEF JournalAssumption, CommitProgress, TypeOK, Writers
<1>2. old \in Seq(Bytes) /\ files[a] \in Files
      BY <1>1 DEF TypeOK, Files
<1>3. chunk \in Seq(Bytes) /\ Len(chunk) = n
  <2>1. ASSUME NEW i \in 1 .. n PROVE chunk[i] \in Bytes
    <3>1. writer.written + i \in 1 .. RecordBytes
          BY <1>1
    <3>2. chunk[i] = [record |-> writer.record, index |-> writer.written + i]
          OBVIOUS
    <3> QED  BY <1>1, <3>1, <3>2 DEF Bytes
  <2>2. chunk \in [1 .. n -> Bytes]
        BY <2>1
  <2>3. chunk \in Seq(Bytes)
        BY <1>1, <2>2, SeqDef, Zenon
  <2> QED  BY <1>1, <2>2, <2>3, LenProperties
<1>4. chunk[n] = [record |-> writer.record, index |-> writer.written + n]
  <2>1. n \in 1 .. n
        BY <1>1
  <2> QED  BY <2>1, Zenon
<1>5. /\ DOMAIN files' = DOMAIN files
      /\ \A f \in DOMAIN files \ {a} : files'[f] = files[f]
      /\ files'[a].data = old \o chunk /\ files'[a].disk = files[a].disk
      /\ files'[a] = [files[a] EXCEPT !.data = old \o chunk]
      BY <1>1, <1>2, Zenon DEF Files
<1> HIDE DEF a, old
<1>6. /\ old \o chunk \in Seq(Bytes) /\ Len(old \o chunk) = Len(old) + n
      /\ Len(old) \in Nat
      BY <1>1, <1>2, <1>3, Appended, SMTT(30)
<1>7. /\ \A i \in 1 .. Len(old) : (old \o chunk)[i] = old[i]
      /\ (old \o chunk)[Len(old) + n] = chunk[n]
      /\ old \o chunk # <<>>
      BY <1>1, <1>2, <1>3, Appended, SMTT(30)
<1>8. files'[a] \in Files
      BY <1>2, <1>5, <1>6, Zenon DEF Files
<1>9. ASSUME NEW f \in DOMAIN files PROVE files'[f] \in Files /\ KeepsBytes(f)
  <2>1. CASE f = a
    <3>1. files[f].data = old
          BY <2>1, Zenon DEF old
    <3> DEFINE joined == old \o chunk
    <3>2. /\ files'[f].data = joined /\ files'[f].disk = files[f].disk
          /\ Len(joined) = Len(old) + n /\ \A i \in 1 .. Len(old) : joined[i] = old[i]
          BY <1>5, <1>6, <1>7, <2>1, ZenonT(30)
    <3> HIDE DEF joined
    <3>3. KeepsBytes(f)
      <4>1. ASSUME NEW i \in 1 .. Len(old), Certain(files[f], i)
            PROVE  i \in 1 .. Len(joined) /\ joined[i] = old[i] /\ Certain(files'[f], i)
        <5>1. i \in 1 .. Len(joined) /\ i <= Len(joined) /\ joined[i] = old[i]
              BY <1>1, <1>6, <3>2, SMTT(30)
        <5>2. i <= Len(files[f].disk) /\ \A k \in 1 .. i : old[k] = files[f].disk[k]
              BY <3>1, <4>1, SMTT(30) DEF Certain
        <5>3. \A k \in 1 .. i : joined[k] = files[f].disk[k]
              BY <1>6, <3>2, <5>2, SMTT(30)
        <5> QED  BY <3>2, <5>1, <5>2, <5>3, Zenon DEF Certain
      <4> QED  BY <3>1, <3>2, <4>1, Zenon DEF KeepsBytes
    <3> QED  BY <1>8, <2>1, <3>3
  <2>2. CASE f # a
        BY <1>5, <2>2, Zenon DEF KeepsBytes, TypeOK
  <2> QED  BY <2>1, <2>2
<1>10. files'[a].data # <<>>
      BY <1>5, <1>7, Zenon
<1> QED  BY <1>4, <1>5, <1>6, <1>7, <1>9, <1>10, Zenon DEF a

LEMMA WriteStep ==
    ASSUME DurabilityInvariant, Write
    PROVE  DurabilityInvariant'
<1> USE DEF DurabilityInvariant
<1> DEFINE result == IF writer.written = 0 THEN "definite_failure" ELSE "outcome_unknown"
<1>1. CASE Fail(result)
      BY <1>1, FailStep
<1>2. CASE ~Fail(result)
  <2>1. PICK n \in 1 .. RecordBytes - writer.written :
            LET chunk == [i \in 1 .. n |->
                             [record |-> writer.record, index |-> writer.written + i]]
            IN  /\ files' = [files EXCEPT ![writer.active].data = @ \o chunk]
                /\ writer' = [writer EXCEPT
                       !.phase = IF writer.written + n = RecordBytes THEN "sync_record" ELSE @,
                       !.written = @ + n, !.active_size = @ + n]
                /\ UNCHANGED <<linked, committed>>
        BY <1>2, ZenonT(30) DEF Write
  <2>2. /\ DOMAIN files' = DOMAIN files
        /\ \A f \in DOMAIN files : files'[f] \in Files /\ KeepsBytes(f)
        /\ \A f \in DOMAIN files \ {writer.active} : files'[f] = files[f]
        /\ files'[writer.active].data # <<>>
        /\ LET data == files'[writer.active].data
           IN  data[Len(data)] = [record |-> writer.record, index |-> writer.written + n]
        BY <2>1, WriteFacts, Zenon DEF Write
  <2>3. /\ UNCHANGED <<linked, committed>> /\ writer \in Writers /\ writer.phase = "write"
        /\ writer.active_size + n \in Nat /\ writer.written + n \in 0 .. RecordBytes
        /\ writer.active \in linked /\ writer.active # None
    <3>1. /\ writer \in Writers /\ writer.phase = "write"
          /\ writer.active \in linked /\ writer.active # None
          BY Zenon DEF Write, CommitProgress, TypeOK
    <3>2. writer.active_size \in Nat /\ writer.written \in Nat /\ RecordBytes \in Nat
          BY <3>1, JournalAssumption DEF JournalAssumption, Writers
    <3> QED  BY <2>1, <3>1, <3>2, SMTT(30)
  <2>4. PICK p \in {"write", "sync_record"} :
            /\ writer' = [writer EXCEPT !.phase = p, !.written = writer.written + n,
                                        !.active_size = writer.active_size + n]
            /\ p = "sync_record" => writer.written + n = RecordBytes
            /\ p = "write" => writer.written + n < RecordBytes
    <3>1. CASE writer.written + n = RecordBytes
          BY <2>1, <2>3, <3>1, SMTT(30) DEF Writers
    <3>2. CASE writer.written + n # RecordBytes
          BY <2>1, <2>3, <3>2, JournalAssumption DEF JournalAssumption, Writers
    <3> QED  BY <3>1, <3>2
  <2>5. writer' \in Writers
    <3>1. [writer EXCEPT !.phase = p] \in Writers
          BY <2>3, WriterFields, Zenon DEF Phases
    <3>2. [writer EXCEPT !.phase = p, !.written = writer.written + n] \in Writers
          BY <2>3, <3>1, WriterFields, Zenon
    <3> QED  BY <2>3, <2>4, <3>2, WriterFields, Zenon
  <2>6. TypeOK'
        BY <2>2, <2>3, <2>5 DEF TypeOK
  <2>7. CommitProgress'
    <3>1. /\ writer'.phase = p /\ writer'.written = writer.written + n
          /\ writer'.active = writer.active /\ writer'.record = writer.record
          /\ writer'.active_durable = writer.active_durable
          BY <2>3, <2>4 DEF Writers
    <3> QED  BY <2>2, <2>3, <2>4, <3>1 DEF CommitProgress, TypeOK
  <2>8. BytesAreLinked'
        BY <2>2, <2>3 DEF BytesAreLinked
  <2>9. CommittedIsDurable'
        BY <2>2, <2>3, DurableStays DEF CommittedIsDurable, TypeOK
  <2> QED  BY <2>6, <2>7, <2>8, <2>9, SMTT(30)
<1> QED  BY <1>1, <1>2

\* The sequence counter wraps to 0, which no record carries.
LEMMA ModuloRange ==
    ASSUME NEW x \in Nat, NEW m \in Nat \ {0}
    PROVE  x % m \in 0 .. m - 1
OBVIOUS

LEMMA WrapTyped ==
    ASSUME NEW n \in 0 .. MaxSequence
    PROVE  (n + 1) % (MaxSequence + 1) \in 0 .. MaxSequence
<1>1. /\ MaxSequence + 1 \in Nat \ {0} /\ n + 1 \in Nat
      /\ (MaxSequence + 1) - 1 = MaxSequence
      BY JournalAssumption DEF JournalAssumption
<1>2. (n + 1) % (MaxSequence + 1) \in 0 .. (MaxSequence + 1) - 1
      BY <1>1, ModuloRange
<1> QED  BY <1>1, <1>2

LEMMA SyncRecordStep ==
    ASSUME DurabilityInvariant, SyncRecord
    PROVE  DurabilityInvariant'
<1> USE DEF DurabilityInvariant
<1>1. CASE Fail("outcome_unknown")
      BY <1>1, FailStep, SMTT(30)
<1>2. CASE ~Fail("outcome_unknown")
  <2> DEFINE a == writer.active
             next == (writer.next_sequence + 1) % (MaxSequence + 1)
  <2>1. /\ a \in linked /\ a \in DOMAIN files /\ Sync(a) /\ writer.record \in Records
        /\ files[a].data # <<>>
        /\ files[a].data[Len(files[a].data)] = [record |-> writer.record, index |-> RecordBytes]
        /\ writer' = [writer EXCEPT !.phase = "open", !.record = None, !.next_sequence = next]
        /\ committed' = committed \cup {writer.record} /\ UNCHANGED linked
        BY <1>2 DEF SyncRecord, CommitProgress, TypeOK, Writers
  <2>2. /\ DOMAIN files' = DOMAIN files
        /\ \A f \in DOMAIN files : files'[f] \in Files /\ files'[f].data = files[f].data
        /\ files'[a].disk = files[a].data
        /\ \A f \in DOMAIN files \ {a} : files'[f] = files[f]
        /\ \A f \in DOMAIN files : KeepsBytes(f)
        BY <2>1, SyncFacts
  <2>3. writer' \in Writers
    <3>1. writer \in Writers /\ writer.next_sequence \in 0 .. MaxSequence
          BY DEF TypeOK, Writers
    <3>2. next \in 0 .. MaxSequence
          BY <3>1, WrapTyped
    <3> HIDE DEF next
    <3>3. [writer EXCEPT !.phase = "open"] \in Writers
          BY <3>1, WriterFields, Zenon DEF Phases
    <3>4. [writer EXCEPT !.phase = "open", !.record = None] \in Writers
          BY <3>3, WriterFields, Zenon
    <3> QED  BY <2>1, <3>2, <3>4, WriterFields, Zenon
  <2> HIDE DEF next
  <2>4. TypeOK'
        BY <2>1, <2>2, <2>3 DEF TypeOK
  <2>5. CommitProgress'
        BY <2>1, <2>2 DEF CommitProgress, TypeOK, Writers
  <2>6. BytesAreLinked'
        BY <2>1, <2>2 DEF BytesAreLinked
  <2>7. ASSUME NEW r, r = writer.record PROVE Durable(r)'
    <3> DEFINE i == Len(files[a].data)
    <3>1. i \in 1 .. Len(files'[a].data) /\ files[a].data \in Seq(Bytes)
          BY <2>1, <2>2 DEF TypeOK, Files
    <3>2. Certain(files'[a], i)
          BY <2>1, <2>2, <3>1 DEF Certain
    <3>3. files'[a].data[i] = [record |-> r, index |-> RecordBytes] /\ a \in linked'
          BY <2>1, <2>2, <2>7
    <3> HIDE DEF i, a
    <3> QED  BY <3>1, <3>2, <3>3, Zenon DEF Durable
  <2>8. \A r \in committed : Durable(r)'
        BY <2>1, <2>2, DurableStays DEF TypeOK
  <2>9. CommittedIsDurable'
    <3>1. \A r \in committed' : r \in committed \/ r = writer.record
          BY <2>1
    <3> QED  BY <2>7, <2>8, <3>1, Zenon DEF CommittedIsDurable
  <2> QED  BY <2>4, <2>5, <2>6, <2>9
<1> QED  BY <1>1, <1>2

LEMMA ProcessEndsStep ==
    ASSUME DurabilityInvariant, ProcessEnds
    PROVE  DurabilityInvariant'
<1> USE DEF DurabilityInvariant
<1>1. TypeOK'
      BY JournalAssumption DEF JournalAssumption, ProcessEnds, NoWriter, TypeOK, Writers, Phases
<1>2. CommitProgress' /\ BytesAreLinked' /\ CommittedIsDurable'
      BY DEF ProcessEnds, NoWriter, CommitProgress, BytesAreLinked, CommittedIsDurable, Durable
<1> QED  BY <1>1, <1>2

\* A segment's image after power loss is made of its bytes and keeps the certain ones.
LEMMA ImageKeeps ==
    ASSUME NEW file \in Files, NEW image \in Images(file), NEW i \in 1 .. Len(file.data),
           Certain(file, i)
    PROVE  i \in 1 .. Len(image) /\ image[i] = file.data[i]
<1>1. PICK bytes \in {file.data, file.disk} :
          \E n \in 0 .. Len(bytes) : image = SubSeq(bytes, 1, n)
      BY DEF Images
<1>2. PICK n \in 0 .. Len(bytes) : image = SubSeq(bytes, 1, n)
      BY <1>1
<1>3. bytes \in Seq(Bytes) /\ n \in Nat /\ n <= Len(bytes)
      BY <1>1, <1>2 DEF Files
<1>4. Len(image) = n /\ \A k \in 1 .. n : image[k] = bytes[k]
      BY <1>2, <1>3
<1>5. i <= Len(image)
  <2>1. i \in 0 .. Len(file.data)
        BY DEF Files
  <2> QED  BY <2>1 DEF Images
<1>6. bytes[i] = file.data[i]
      BY <1>1 DEF Certain, Files
<1> QED  BY <1>3, <1>4, <1>5, <1>6, SMTT(30)

LEMMA ImageTyped ==
    ASSUME NEW file \in Files, NEW image \in Images(file)
    PROVE  image \in Seq(Bytes)
<1>1. PICK bytes \in {file.data, file.disk} :
          \E n \in 0 .. Len(bytes) : image = SubSeq(bytes, 1, n)
      BY DEF Images
<1>2. PICK n \in 0 .. Len(bytes) : image = SubSeq(bytes, 1, n)
      BY <1>1
<1>3. bytes \in Seq(Bytes) /\ n \in Nat /\ n <= Len(bytes)
      BY <1>1, <1>2 DEF Files
<1> QED  BY <1>2, <1>3, SubSeqProperties

LEMMA PowerLossStep ==
    ASSUME DurabilityInvariant, PowerLoss
    PROVE  DurabilityInvariant'
<1> USE DEF DurabilityInvariant
<1>1. PICK kept \in SUBSET DOMAIN files :
          /\ linked \subseteq kept
          /\ \E image \in [kept -> UNION {Images(files[f]) : f \in kept}] :
                /\ \A f \in kept : image[f] \in Images(files[f])
                /\ files' = [f \in kept |-> [data |-> image[f], disk |-> image[f]]]
          /\ linked' = kept
      BY Zenon DEF PowerLoss, TypeOK
<1>2. PICK image \in [kept -> UNION {Images(files[f]) : f \in kept}] :
          /\ \A f \in kept : image[f] \in Images(files[f])
          /\ files' = [f \in kept |-> [data |-> image[f], disk |-> image[f]]]
      BY <1>1
<1>3. \A f \in kept : image[f] \in Seq(Bytes) /\ files[f] \in Files
      BY <1>1, <1>2, ImageTyped DEF TypeOK
<1>4. /\ DOMAIN files' = kept
      /\ \A f \in kept : files'[f] = [data |-> image[f], disk |-> image[f]]
      BY <1>2
<1>5. /\ writer' = NoWriter /\ UNCHANGED committed
      BY DEF PowerLoss
<1>6. NoWriter \in Writers
      BY JournalAssumption DEF JournalAssumption, NoWriter, Writers, Phases
<1>7. TypeOK'
  <2>1. \A f \in kept : files'[f] \in Files
        BY <1>3, <1>4 DEF Files
  <2>2. DOMAIN files' \subseteq SequenceNumbers /\ linked' \subseteq DOMAIN files'
        BY <1>1, <1>4 DEF TypeOK
  <2> QED  BY <1>4, <1>5, <1>6, <2>1, <2>2 DEF TypeOK
<1>8. CommitProgress'
      BY <1>5 DEF CommitProgress, NoWriter
<1>9. BytesAreLinked'
      BY <1>1, <1>4 DEF BytesAreLinked
<1>10. ASSUME NEW f \in linked PROVE KeepsBytes(f)
  <2>1. /\ f \in kept /\ files[f] \in Files /\ image[f] \in Images(files[f])
        /\ files'[f].data = image[f] /\ files'[f].disk = image[f]
        BY <1>1, <1>2, <1>3, <1>4
  <2>2. ASSUME NEW i \in 1 .. Len(files[f].data), Certain(files[f], i)
        PROVE  /\ i \in 1 .. Len(image[f]) /\ image[f][i] = files[f].data[i]
               /\ Certain(files'[f], i)
    <3>1. i \in 1 .. Len(image[f]) /\ image[f][i] = files[f].data[i]
          BY <2>1, <2>2, ImageKeeps
    <3> QED  BY <2>1, <3>1 DEF Certain
  <2> QED  BY <2>1, <2>2 DEF KeepsBytes
<1>11. CommittedIsDurable'
       BY <1>1, <1>5, <1>10, DurableStays DEF CommittedIsDurable
<1> QED  BY <1>7, <1>8, <1>9, <1>11, SMTT(30)

\* The inductive invariant holds: every step of the writer, and every way the process or the
\* machine stops, keeps the committed records in certain bytes of linked segments.
THEOREM DurabilityInvariantHolds == Spec => []DurabilityInvariant
<1>1. Init => DurabilityInvariant
  <2> SUFFICES ASSUME Init PROVE DurabilityInvariant
      OBVIOUS
  <2>1. DOMAIN files = {} /\ linked = {} /\ committed = {} /\ writer = NoWriter
        BY DEF Init
  <2>2. NoWriter \in Writers
        BY JournalAssumption DEF JournalAssumption, NoWriter, Writers, Phases
  <2>3. TypeOK
        BY <2>1, <2>2 DEF TypeOK
  <2>4. CommitProgress /\ BytesAreLinked /\ CommittedIsDurable
        BY <2>1 DEF CommitProgress, BytesAreLinked, CommittedIsDurable, NoWriter
  <2> QED  BY <2>3, <2>4 DEF DurabilityInvariant
<1>2. DurabilityInvariant /\ [Next]_vars => DurabilityInvariant'
  <2> SUFFICES ASSUME DurabilityInvariant, [Next]_vars PROVE DurabilityInvariant'
      OBVIOUS
  <2>1. CASE Open
        BY <2>1, OpenStep
  <2>2. CASE \E r \in Records : Commit(r)
        BY <2>2, CommitStep, SMTT(30)
  <2>3. CASE CreateSegment
        BY <2>3, CreateStep
  <2>4. CASE SyncSegment
        BY <2>4, SyncSegmentStep
  <2>5. CASE SyncEntry
        BY <2>5, SyncEntryStep
  <2>6. CASE Write
        BY <2>6, WriteStep
  <2>7. CASE SyncRecord
        BY <2>7, SyncRecordStep
  <2>8. CASE \E ending \in Endings : Ends(ending)
        BY <2>8, ProcessEndsStep, PowerLossStep, SMTT(30) DEF Ends
  <2>9. CASE UNCHANGED vars
         BY <2>9 DEF vars, DurabilityInvariant, TypeOK, CommitProgress, BytesAreLinked,
                      CommittedIsDurable, Durable
  <2> QED  BY <2>1, <2>2, <2>3, <2>4, <2>5, <2>6, <2>7, <2>8, <2>9, SMTT(30) DEF Next
<1> QED  BY <1>1, <1>2, PTL DEF Spec

\* A record answered kCommitted is never lost again, whatever stops the process or the machine
\* and wherever in Commit it stops.
THEOREM CommittedIsDurableTheorem == Spec => []CommittedIsDurable
<1>1. DurabilityInvariant => CommittedIsDurable
      BY DEF DurabilityInvariant
<1> QED  BY <1>1, DurabilityInvariantHolds, PTL

\* The writer's fields, the files and the history keep their types.
THEOREM JournalTypeTheorem == Spec => []TypeOK
<1>1. DurabilityInvariant => TypeOK
      BY DEF DurabilityInvariant
<1> QED  BY <1>1, DurabilityInvariantHolds, PTL

=============================================================================
