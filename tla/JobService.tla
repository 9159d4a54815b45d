----------------------------- MODULE JobService -----------------------------
(***************************************************************************)
(* What the single state writer promises to the callers of its API: a      *)
(* bounded table of resident Jobs in creation order.  A creation that      *)
(* finds the table full retires the oldest closed Job.  Orchestrator       *)
(* implements this specification, and Backend is built on it.              *)
(***************************************************************************)
EXTENDS Naturals, Sequences, SequencesExt

CONSTANTS Jobs, max_jobs

VARIABLES residents,  \* the resident Jobs, in the order of their job_created records
          failed      \* the readiness failure is latched

service_vars == <<residents, failed>>

\* What a Job's state means to a caller: a cancel is accepted only while it is open, and only a
\* closed Job may be retired.
Stages == <<"open", "stopping", "ended", "closed">>
Rank(stage) == CHOOSE n \in 1..4 : Stages[n] = stage

\* On a table of residents, which is what a turn reads and what it leaves.
IsResident(table, j) == \E n \in DOMAIN table : table[n].job_id = j
StageOf(table, j) == LET n == CHOOSE n \in DOMAIN table : table[n].job_id = j
                     IN  table[n].stage

ClosedAt(table) == {n \in DOMAIN table : table[n].stage = "closed"}
OldestClosed(table) == CHOOSE n \in ClosedAt(table) : \A m \in ClosedAt(table) : n <= m

CanInstall(table) == Len(table) < max_jobs \/ ClosedAt(table) # {}

\* A creation appends its Job; it retires the oldest closed one when the table is full.
Installed(table, j) ==
    Append(IF Len(table) < max_jobs THEN table ELSE RemoveAt(table, OldestClosed(table)),
           [job_id |-> j, stage |-> "open"])

Advanced(table, j, stage) ==
    [n \in DOMAIN table |-> IF table[n].job_id = j THEN [job_id |-> j, stage |-> stage]
                            ELSE table[n]]

\* One turn of the writer: a creation, or a Job that goes forward.
IsTurn(before, after) ==
    /\ before # after
    /\ \E j \in Jobs :
           IF IsResident(before, j)
           THEN \E stage \in ToSet(Stages) : /\ Rank(StageOf(before, j)) < Rank(stage)
                                            /\ after = Advanced(before, j, stage)
           ELSE CanInstall(before) /\ after = Installed(before, j)

ServiceInit ==
    /\ Len(residents) <= max_jobs
    /\ \A n, m \in DOMAIN residents : residents[n].job_id = residents[m].job_id => n = m
    /\ failed = FALSE

Turn == IsTurn(residents, residents') /\ UNCHANGED failed

Fail == failed' = TRUE /\ UNCHANGED residents

\* A new process replays the Journal, which may hold one record that the last one had appended
\* and not installed.
Recover == failed' = FALSE /\ (UNCHANGED residents \/ IsTurn(residents, residents'))

ServiceNext == Turn \/ Fail \/ Recover

ServiceSpec == ServiceInit /\ [][ServiceNext]_service_vars

=============================================================================
