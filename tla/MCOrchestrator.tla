--------------------------- MODULE MCOrchestrator ---------------------------
(* Model-checking instances of Orchestrator: what producers submit.        *)
EXTENDS Orchestrator, TLC

CONSTANTS first,    \* the Job of the history
          malformed \* the Job whose creation names another Session

\* No other Job is told apart from another.
Symmetry == Permutations(Jobs \ {first, malformed})

NoHistory == <<>>

\* A Job that was created, terminated and closed.
ClosingRecords(j) ==
    <<[type |-> "job_created", job_id |-> j, session_id |-> j],
      [type |-> "terminate_accepted", job_id |-> j],
      [type |-> "finalization_failed", job_id |-> j],
      [type |-> "terminal_outcome_committed", job_id |-> j, outcome |-> "terminated"]>>
ClosedHistory == ClosingRecords(first)

Creations(j) == [type : {"job_created"}, job_id : {j}, session_id : {j}]

\* A Job whose creation is refused by payload validation names another Session.
MalformedCreations(j) == [type : {"job_created"}, job_id : {j}, session_id : {None}]

\* Creations, good and refused, of new Jobs, and commands that own their provisional slots or
\* the closed Job: they compete for the residencies and for the spare slot.  A new Job that is
\* terminated before it has any resources is closed in two more turns.
ClosingInputs(j) ==
    [type : {"terminate"}, job_id : {j}]
    \cup (CASE j = first -> {}
            [] j = malformed -> MalformedCreations(j)
            [] OTHER -> Creations(j)
                  \cup [type : {"finalization_failed"}, job_id : {j}]
                  \cup [type : {"terminal_outcome_committed"}, job_id : {j},
                         outcome : {"terminated"}])

\* A Job is launched, runs and exits, and is finalized without success.
RunningInputs(j) ==
    Creations(j)
    \cup {e \in CandidateEvents(j) :
            \/ e.type \in {"resources_committed", "worker_launch_intent", "worker_running",
                           "finalization_failed"}
            \/ e.type = "worker_launch_observed" /\ e.started
            \/ e.type = "process_exit_confirmed" /\ e.completion_mode = "forced"}

\* It fails or is terminated; every timer phase is armed on the way, and the Worker's outcome,
\* on time or late, is acknowledged.
LaunchInputs(j) ==
    RunningInputs(j) \cup [type : {"terminate"}, job_id : {j}]
    \cup {e \in CandidateEvents(j) :
            \/ e.type = "worker_failed"
            \/ e.type = "terminal_outcome_committed" /\ e.outcome \in {"failed", "terminated"}}

\* A Worker reports its completion and the Job is terminated while it is finalized.
StaleInputs(j) ==
    RunningInputs(j) \cup CommandInputs(j)
    \cup {e \in CandidateEvents(j) :
            \/ e.type = "worker_completed"
            \/ e.type = "terminal_outcome_committed" /\ e.outcome = "terminated"}

\* A Job is terminated before it has resources; its terminal commit registers the cleanup
\* source and the exit timer, which leases then hold while the service shuts down or fails.
ShutdownInputs(j) ==
    Creations(j) \cup [type : {"terminate"}, job_id : {j}]
    \cup [type : {"finalization_failed"}, job_id : {j}]
    \cup [type : {"terminal_outcome_committed"}, job_id : {j}, outcome : {"terminated"}]
    \cup [type : {"cleanup_status_recorded"}, job_id : {j}, status : {"incomplete"}]

=============================================================================
