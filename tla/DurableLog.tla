----------------------------- MODULE DurableLog -----------------------------
(***************************************************************************)
(* What the JobJournal promises its writer: a log of records that only     *)
(* grows at its end, in which every acknowledged record and everything     *)
(* before it survives whatever stops the process or the machine.  Records  *)
(* behind the last acknowledged one may or may not survive a crash.        *)
(***************************************************************************)
EXTENDS Naturals, Sequences

CONSTANT Records  \* [sequence, event] of every record that may be appended

VARIABLES
    log,           \* the records a restart would replay, in sequence order
    acknowledged   \* how many leading records Commit has answered for

Init == log = <<>> /\ acknowledged = 0

\* A complete record becomes readable at the end of the log, under the next sequence.
Extend ==
    /\ \E r \in Records : r.sequence = Len(log) + 1 /\ log' = Append(log, r)
    /\ UNCHANGED acknowledged

\* Commit answers kCommitted: everything up to here is durable.
Acknowledge == acknowledged' = Len(log) /\ UNCHANGED log

\* A crash drops part of what was never acknowledged.
Lose ==
    /\ \E n \in acknowledged .. Len(log) : log' = SubSeq(log, 1, n)
    /\ UNCHANGED acknowledged

Next == Extend \/ Acknowledge \/ Lose

Spec == Init /\ [][Next]_<<log, acknowledged>>

=============================================================================
