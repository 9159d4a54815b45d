------------------------------- MODULE Replay -------------------------------
(***************************************************************************)
(* Replay of one Journal record through the reducer, as in                 *)
(* src/journal/replay.cpp.  A record is the proposal the writer committed; *)
(* None stands for a Job that does not exist and for a refused record.     *)
(***************************************************************************)
EXTENDS JobReducer

\* The decision replay reconstructs: commands through DecideCommand, everything else as the
\* event it is.
Derive(before, r) ==
    IF r.type \in {"cancel_accepted", "terminate_accepted"}
    THEN DecideCommand(before, r.job_id,
                       IF r.type = "cancel_accepted" THEN "cancel" ELSE "terminate")
    ELSE DecideEvent(before, r)

Exists(before) == before # None /\ before.entity_exists

\* The next snapshot, or None when the reducer would not have written this very record.
ReplayRecord(before, r) ==
    LET current == IF r.type = "job_created" THEN InitialSnapshot(r.job_id) ELSE before
        decision == Derive(current, r)
        applied == Apply(current, decision.proposal)
    IN  IF \/ Exists(before) <=> r.type = "job_created"
           \/ ~Accepted(decision)
           \/ decision.proposal # r
           \/ applied.rejection # None
        THEN None
        ELSE applied.snapshot

=============================================================================
