----------------------------- MODULE JobReducer -----------------------------
(***************************************************************************)
(* The pure Job reducer of src/core/job_reducer.cpp: decide, then apply.   *)
(*                                                                         *)
(* A snapshot is a record with the fields of core::Snapshot.  An absent    *)
(* std::optional is None.  An allocation id and its digest always travel   *)
(* together and are one value of Allocations.  An event is a record whose  *)
(* "type" is the EventType; "malformed" stands for every candidate that    *)
(* payload parsing refuses.  Timer generations do not reach the reducer's  *)
(* decisions and are left to the timer ingress.                            *)
(***************************************************************************)
EXTENDS Naturals, Sequences

CONSTANTS
    Jobs,            \* Job (and Session) identities
    Allocations,     \* resolved allocation identities (id and digest)
    Operations,      \* launch operation identities
    Workers,         \* Worker identities
    EventSequences,  \* Worker event sequence numbers
    None             \* the empty std::optional

States == {"admitted", "preparing", "running", "stopping", "finalizing",
           "succeeded", "failed", "cancelled", "terminated", "timed_out"}
Outcomes == {"succeeded", "failed", "cancelled", "terminated", "timed_out"}
Reasons == Outcomes \ {"succeeded"}
CompletionModes == {"cooperative", "forced", "process_already_exited"}
Phases == {"preparation", "execution", "cooperative_stop", "process_exit_confirmation"}
CommandTypes == {"cancel", "terminate"}
RejectionReasons ==
    {"job_not_found", "job_already_exists", "command_not_allowed_in_state",
     "event_not_allowed_in_state", "stop_cause_already_latched", "timeout_phase_mismatch",
     "terminal_outcome_mismatch", "required_finalization_fact_missing",
     "invalid_event_payload", "invariant_violation"}

ASSUME NoneAssumption ==
    /\ None \notin Allocations
    /\ None \notin Operations
    /\ None \notin Workers
    /\ None \notin EventSequences
    /\ None \notin Outcomes \cup RejectionReasons

Snapshots ==
    [job_id : Jobs, session_id : Jobs, entity_exists : BOOLEAN, state : States,
     latched_reason : Reasons \cup {None}, completion_candidate : BOOLEAN,
     completion_mode : CompletionModes \cup {"none"},
     resource_status : {"none", "committed", "released"},
     allocation : Allocations \cup {None},
     worker_launch_status : {"not_started", "intent_recorded", "observed", "failed"},
     launch_operation_id : Operations \cup {None}, worker_id : Workers \cup {None},
     process_presence : {"absent", "unknown", "present"},
     process_exit_confirmed : BOOLEAN,
     session_retention_status : {"not_started", "requested", "retained"},
     finalization_status : {"not_started", "pending", "completed", "failed"},
     cleanup_status : {"pending", "completed", "incomplete"},
     pending_worker_event_ack : BOOLEAN,
     pending_worker_id : Workers \cup {None},
     pending_worker_event_sequence : EventSequences \cup {None}]

\* The candidate events that payload parsing lets through for Job j, and "malformed".
CandidateEvents(j) ==
    [type : {"job_created"}, job_id : {j}, session_id : {j}]
    \cup [type : {"resources_committed", "resources_released"}, job_id : {j},
          allocation : Allocations]
    \cup [type : {"worker_launch_intent"}, job_id : {j}, operation_id : Operations,
          allocation : Allocations, worker_id : Workers]
    \cup [type : {"worker_launch_observed"}, job_id : {j}, operation_id : Operations,
          started : BOOLEAN]
    \cup [type : {"worker_running"}, job_id : {j}, worker_id : Workers]
    \cup [type : {"worker_completed", "worker_failed"}, job_id : {j}, worker_id : Workers,
          event_sequence : EventSequences]
    \cup [type : {"process_exit_confirmed"}, job_id : {j}, operation_id : Operations,
          completion_mode : CompletionModes]
    \cup [type : {"session_retain_requested", "session_retained"}, job_id : {j},
          session_id : Jobs]
    \cup [type : {"finalization_completed", "finalization_failed", "malformed"}, job_id : {j}]
    \cup [type : {"terminal_outcome_committed"}, job_id : {j}, outcome : Outcomes]
    \cup [type : {"cleanup_status_recorded"}, job_id : {j}, status : {"completed", "incomplete"}]
TimeoutEvents(j) == [type : {"timeout_expired"}, job_id : {j}, phase : Phases]
CommandEvents(j) == [type : {"cancel_accepted", "terminate_accepted"}, job_id : {j}]
LateEvents(j) ==
    [type : {"late_worker_event"}, job_id : {j},
     original : {"worker_completed", "worker_failed"}, worker_id : Workers,
     event_sequence : EventSequences]
\* Every event a decision may propose, which is what the Journal records.
Proposals(j) == CandidateEvents(j) \cup TimeoutEvents(j) \cup CommandEvents(j) \cup LateEvents(j)

InitialSnapshot(j) ==
    [job_id |-> j, session_id |-> j, entity_exists |-> FALSE, state |-> "admitted",
     latched_reason |-> None, completion_candidate |-> FALSE, completion_mode |-> "none",
     resource_status |-> "none", allocation |-> None,
     worker_launch_status |-> "not_started", launch_operation_id |-> None,
     worker_id |-> None, process_presence |-> "absent", process_exit_confirmed |-> FALSE,
     session_retention_status |-> "not_started", finalization_status |-> "not_started",
     cleanup_status |-> "pending", pending_worker_event_ack |-> FALSE,
     pending_worker_id |-> None, pending_worker_event_sequence |-> None]

IsTerminal(state) == state \in Outcomes

-----------------------------------------------------------------------------
(* ValidSnapshot: the facts every decision first checks of a snapshot.     *)

HasValidResourceFacts(s) ==
    /\ s.resource_status = "none" <=> s.allocation = None
    /\ s.resource_status = "released" => s.process_exit_confirmed

HasValidExitFacts(s) ==
    /\ s.process_exit_confirmed =>
        /\ s.process_presence = "absent"
        /\ ~s.pending_worker_event_ack
        /\ s.pending_worker_id = None
        /\ s.pending_worker_event_sequence = None
    /\ s.completion_mode = "process_already_exited" => s.process_exit_confirmed

HasValidLaunchFacts(s) ==
    IF s.worker_launch_status = "not_started"
    THEN s.launch_operation_id = None /\ s.worker_id = None
    ELSE s.launch_operation_id # None /\ s.worker_id # None

HasValidPendingAckFacts(s) ==
    /\ s.pending_worker_event_ack <=> s.pending_worker_id # None
    /\ s.pending_worker_event_ack <=> s.pending_worker_event_sequence # None

HasValidStateFacts(s) ==
    /\ s.state = "admitted" =>
        /\ s.resource_status = "none"
        /\ s.worker_launch_status = "not_started"
        /\ s.process_presence = "absent"
        /\ ~s.process_exit_confirmed
    /\ s.state \in {"admitted", "preparing", "running", "stopping"} =>
        s.finalization_status = "not_started"
    /\ s.state = "finalizing" => s.finalization_status # "not_started"
    /\ IsTerminal(s.state) => s.finalization_status \in {"completed", "failed"}

ValidSnapshot(s) ==
    /\ s \in Snapshots
    /\ s.job_id = s.session_id
    /\ HasValidResourceFacts(s)
    /\ HasValidExitFacts(s)
    /\ HasValidLaunchFacts(s)
    /\ HasValidPendingAckFacts(s)
    /\ HasValidStateFacts(s)

-----------------------------------------------------------------------------
(* Decisions.  A decision is an accepted proposal or a rejection reason.   *)

Accept(e) == [reason |-> None, proposal |-> e]
Reject(r) == [reason |-> r, proposal |-> None]
AcceptIf(condition, r, e) == IF condition THEN Accept(e) ELSE Reject(r)
Accepted(decision) == decision.reason = None
RejectState == Reject("event_not_allowed_in_state")

\* Mutant: the state is not checked.
DecideResourcesCommittedAnywhere(s, e) == Accept(e)

DecideResourcesCommitted(s, e) == IF s.state = "admitted" THEN Accept(e) ELSE RejectState

DecideWorkerLaunchIntent(s, e) ==
    IF s.state # "preparing" THEN RejectState
    ELSE AcceptIf(s.worker_launch_status = "not_started" /\ s.allocation = e.allocation,
                  "invariant_violation", e)

DecideWorkerLaunchObserved(s, e) ==
    IF s.state # "preparing" THEN RejectState
    ELSE AcceptIf(/\ s.launch_operation_id = e.operation_id
                  /\ s.worker_launch_status = "intent_recorded", "invariant_violation", e)

DecideWorkerRunning(s, e) ==
    IF s.state # "preparing" THEN RejectState
    ELSE AcceptIf(s.worker_launch_status = "observed" /\ s.worker_id = e.worker_id,
                  "invariant_violation", e)

\* Mutant: the event is allowed in fewer states than the command.
DecideCancelAcceptedNarrow(s, e) ==
    IF s.state = "stopping" THEN Reject("stop_cause_already_latched")
    ELSE AcceptIf(s.state \in {"preparing", "running"}, "command_not_allowed_in_state", e)
DecideCancelAccepted(s, e) ==
    IF s.state = "stopping" THEN Reject("stop_cause_already_latched")
    ELSE AcceptIf(s.state \in {"admitted", "preparing", "running"},
                  "command_not_allowed_in_state", e)

DecideTerminateAccepted(s, e) ==
    IF s.state \in {"stopping", "finalizing"}
    THEN AcceptIf(~s.process_exit_confirmed, "command_not_allowed_in_state", e)
    ELSE AcceptIf(~IsTerminal(s.state), "command_not_allowed_in_state", e)

DecideFinalizingTimeout(s, e) ==
    AcceptIf(/\ e.phase = "execution"
             /\ s.latched_reason # None \/ s.completion_candidate, "timeout_phase_mismatch", e)

DecideTimeoutExpired(s, e) ==
    CASE s.state = "preparing" -> AcceptIf(e.phase = "preparation", "timeout_phase_mismatch", e)
      [] s.state = "running" -> AcceptIf(e.phase = "execution", "timeout_phase_mismatch", e)
      [] s.state = "stopping" ->
            AcceptIf(e.phase \in {"execution", "cooperative_stop"}, "timeout_phase_mismatch", e)
      [] s.state = "finalizing" -> DecideFinalizingTimeout(s, e)
      [] s.state = "admitted" -> RejectState
      [] IsTerminal(s.state) ->
            IF e.phase # "process_exit_confirmation" THEN Reject("timeout_phase_mismatch")
            ELSE AcceptIf(~s.process_exit_confirmed, "invariant_violation", e)

\* A matching Worker outcome that arrives after the race is decided becomes a late audit.
Late(e) == [type |-> "late_worker_event", job_id |-> e.job_id, original |-> e.type,
            worker_id |-> e.worker_id, event_sequence |-> e.event_sequence]

DecideWorkerOutcome(s, e) ==
    CASE IsTerminal(s.state) \/ s.state = "finalizing" ->
            AcceptIf(s.worker_id = e.worker_id, "invariant_violation", Late(e))
      [] s.state \in {"running", "stopping"}
            \/ (s.state = "preparing" /\ e.type = "worker_failed") ->
            AcceptIf(s.worker_id = e.worker_id, "invariant_violation", e)
      [] OTHER -> RejectState

DecideProcessExitConfirmed(s, e) ==
    IF s.state = "admitted" THEN RejectState
    ELSE AcceptIf(/\ s.launch_operation_id = e.operation_id
                  /\ \/ s.state \notin {"finalizing"} \cup Outcomes
                     \/ ~s.process_exit_confirmed
                     \/ s.completion_mode = e.completion_mode, "invariant_violation", e)

DecideSessionRetain(s, e, expected) ==
    IF s.state # "finalizing" THEN RejectState
    ELSE AcceptIf(s.session_retention_status = expected /\ e.session_id = s.session_id,
                  "invariant_violation", e)

DecideFinalizationCompleted(s, e) ==
    IF s.state # "finalizing" THEN RejectState
    ELSE IF s.session_retention_status # "retained"
         THEN Reject("required_finalization_fact_missing")
         ELSE AcceptIf(s.finalization_status = "pending", "invariant_violation", e)

DecideFinalizationFailed(s, e) ==
    IF s.state # "finalizing" THEN RejectState
    ELSE AcceptIf(/\ s.finalization_status = "pending"
                  /\ s.latched_reason # None \/ s.completion_candidate, "invariant_violation", e)

DecideTerminalOutcomeCommitted(s, e) ==
    IF s.state # "finalizing" THEN RejectState
    ELSE IF s.finalization_status = "pending"
         THEN Reject("required_finalization_fact_missing")
         ELSE AcceptIf(IF e.outcome = "succeeded"
                       THEN /\ s.latched_reason = None
                            /\ s.completion_candidate
                            /\ s.finalization_status = "completed"
                       ELSE s.latched_reason = e.outcome, "terminal_outcome_mismatch", e)

DecideResourcesReleased(s, e) ==
    IF ~IsTerminal(s.state) THEN RejectState
    ELSE AcceptIf(/\ s.process_exit_confirmed
                  /\ s.allocation = e.allocation
                  /\ s.resource_status \in {"committed", "released"}, "invariant_violation", e)

DecideCleanupStatusRecorded(s, e) ==
    IF ~IsTerminal(s.state) THEN RejectState
    ELSE AcceptIf(s.cleanup_status \in {"pending", e.status}, "invariant_violation", e)

DecideLateWorkerEvent(s, e) ==
    IF IsTerminal(s.state) \/ s.state = "finalizing" THEN Accept(e) ELSE RejectState

DecideByType(s, e) ==
    CASE e.type = "resources_committed" -> DecideResourcesCommitted(s, e)
      [] e.type = "worker_launch_intent" -> DecideWorkerLaunchIntent(s, e)
      [] e.type = "worker_launch_observed" -> DecideWorkerLaunchObserved(s, e)
      [] e.type = "worker_running" -> DecideWorkerRunning(s, e)
      [] e.type = "cancel_accepted" -> DecideCancelAccepted(s, e)
      [] e.type = "terminate_accepted" -> DecideTerminateAccepted(s, e)
      [] e.type = "timeout_expired" -> DecideTimeoutExpired(s, e)
      [] e.type \in {"worker_completed", "worker_failed"} -> DecideWorkerOutcome(s, e)
      [] e.type = "process_exit_confirmed" -> DecideProcessExitConfirmed(s, e)
      [] e.type = "session_retain_requested" -> DecideSessionRetain(s, e, "not_started")
      [] e.type = "session_retained" -> DecideSessionRetain(s, e, "requested")
      [] e.type = "finalization_completed" -> DecideFinalizationCompleted(s, e)
      [] e.type = "finalization_failed" -> DecideFinalizationFailed(s, e)
      [] e.type = "terminal_outcome_committed" -> DecideTerminalOutcomeCommitted(s, e)
      [] e.type = "resources_released" -> DecideResourcesReleased(s, e)
      [] e.type = "cleanup_status_recorded" -> DecideCleanupStatusRecorded(s, e)
      [] e.type = "late_worker_event" -> DecideLateWorkerEvent(s, e)

DecideEvent(s, e) ==
    IF ~ValidSnapshot(s) THEN Reject("invariant_violation")
    ELSE IF e.job_id # s.job_id \/ e.type = "malformed" THEN Reject("invalid_event_payload")
    ELSE IF e.type = "job_created" THEN AcceptIf(~s.entity_exists, "job_already_exists", e)
    ELSE IF ~s.entity_exists THEN Reject("job_not_found")
    ELSE DecideByType(s, e)

CommandEvent(j, command) ==
    [type |-> IF command = "cancel" THEN "cancel_accepted" ELSE "terminate_accepted",
     job_id |-> j]

\* Commands have a decision procedure of their own, beside the one for their events.
DecideCommand(s, j, command) ==
    IF ~ValidSnapshot(s) THEN Reject("invariant_violation")
    ELSE IF j # s.job_id \/ ~s.entity_exists THEN Reject("job_not_found")
    ELSE IF command = "cancel"
         THEN IF s.state = "stopping" THEN Reject("stop_cause_already_latched")
              ELSE AcceptIf(s.state \in {"admitted", "preparing", "running"},
                            "command_not_allowed_in_state", CommandEvent(j, command))
         ELSE AcceptIf(/\ ~(s.state \in {"stopping", "finalizing"} /\ s.process_exit_confirmed)
                       /\ s.state \in {"admitted", "preparing", "running", "stopping",
                                       "finalizing"},
                       "command_not_allowed_in_state", CommandEvent(j, command))

-----------------------------------------------------------------------------
(* Application.  Each ApplyX gives the next snapshot and, in order, the    *)
(* effects the writer dispatches once the event is durable.                *)

Result(s, effects) == [snapshot |-> s, effects |-> effects, rejection |-> None]

If(condition, effects) == IF condition THEN effects ELSE <<>>

BeginFinalizing(s) == [s EXCEPT !.state = "finalizing", !.finalization_status = "pending"]

ApplyJobCreated(s, e) == Result([InitialSnapshot(s.job_id) EXCEPT !.entity_exists = TRUE], <<>>)

ApplyResourcesCommitted(s, e) ==
    Result([s EXCEPT !.state = "preparing", !.resource_status = "committed",
                     !.allocation = e.allocation],
           <<"arm_preparation_timeout">>)

ApplyWorkerLaunchIntent(s, e) ==
    Result([s EXCEPT !.worker_launch_status = "intent_recorded",
                     !.launch_operation_id = e.operation_id,
                     !.worker_id = e.worker_id, !.process_presence = "unknown"],
           <<"launch_worker_once">>)

ApplyWorkerLaunchObserved(s, e) ==
    IF e.started
    THEN Result([s EXCEPT !.worker_launch_status = "observed", !.process_presence = "present"],
                <<>>)
    ELSE Result(BeginFinalizing(
                    [s EXCEPT !.worker_launch_status = "failed", !.process_presence = "absent",
                              !.latched_reason = "failed",
                              !.completion_mode = "process_already_exited",
                              !.process_exit_confirmed = TRUE]),
                <<"disarm_preparation_timeout">>)

ApplyWorkerRunning(s, e) ==
    Result([s EXCEPT !.state = "running", !.process_presence = "present"],
           <<"disarm_preparation_timeout", "arm_execution_timeout">>)

\* No process was ever requested: the Job goes straight to finalization.
FinalizeWithoutProcess(s, reason) ==
    BeginFinalizing([s EXCEPT !.latched_reason = reason,
                              !.completion_mode = "process_already_exited",
                              !.process_exit_confirmed = TRUE])
WithoutProcess(s) ==
    s.state = "admitted" \/ (s.state = "preparing" /\ s.process_presence = "absent")
Stopping(s, reason, mode) ==
    [s EXCEPT !.latched_reason = reason, !.completion_mode = mode, !.state = "stopping"]

\* Mutant: no escalation timer.
CooperativeStopUntimed == <<"request_cooperative_stop">>
CooperativeStop == <<"request_cooperative_stop", "arm_cooperative_stop_timeout">>
ForcedStop == <<"request_forced_stop", "disarm_cooperative_stop_timeout",
                "arm_process_exit_confirmation_timeout_if_needed">>

ApplyCancelAccepted(s, e) ==
    LET disarm == If(s.state = "preparing", <<"disarm_preparation_timeout">>)
    IN  IF WithoutProcess(s) THEN Result(FinalizeWithoutProcess(s, "cancelled"), disarm)
        ELSE Result(Stopping(s, "cancelled", "cooperative"), disarm \o CooperativeStop)

\* Mutant: a later terminate replaces the latched reason.
ApplyTerminateAcceptedRelatches(s, e) ==
    Result(IF WithoutProcess(s) THEN FinalizeWithoutProcess(s, "terminated")
           ELSE Stopping(s, "terminated", "forced"), ForcedStop)
ApplyTerminateAccepted(s, e) ==
    LET disarm == If(s.state = "preparing", <<"disarm_preparation_timeout">>)
    IN  IF s.state \in {"stopping", "finalizing"}
        THEN Result([s EXCEPT !.completion_mode = "forced"], ForcedStop)
        ELSE IF WithoutProcess(s) THEN Result(FinalizeWithoutProcess(s, "terminated"), disarm)
        ELSE Result(Stopping(s, "terminated", "forced"), disarm \o ForcedStop)

ApplyPreparationTimeout(s) ==
    IF s.process_presence = "absent"
    THEN Result(FinalizeWithoutProcess(s, "timed_out"), <<"disarm_preparation_timeout">>)
    ELSE Result(Stopping(s, "timed_out", "cooperative"),
                <<"disarm_preparation_timeout">> \o CooperativeStop)

ApplyFinalizingExecutionTimeout(s) ==
    LET hadSuccessCandidate == s.latched_reason = None /\ s.completion_candidate
        t == IF hadSuccessCandidate
             THEN [s EXCEPT !.latched_reason = "timed_out", !.completion_candidate = FALSE]
             ELSE s
    IN  IF ~s.process_exit_confirmed
        THEN Result([t EXCEPT !.completion_mode = "forced"], ForcedStop)
        ELSE IF hadSuccessCandidate
        THEN Result([t EXCEPT !.completion_mode = "process_already_exited"], <<>>)
        ELSE Result(t, <<>>)

ApplyStoppingExecutionTimeout(s) ==
    Result([s EXCEPT !.completion_mode = "forced"],
           <<"disarm_execution_timeout", "disarm_cooperative_stop_timeout",
             "request_forced_stop", "arm_process_exit_confirmation_timeout_if_needed">>)

ApplyRunningExecutionTimeout(s) ==
    Result(Stopping(s, "timed_out", "cooperative"), CooperativeStop)

ApplyExecutionTimeout(s) ==
    CASE s.state = "finalizing" -> ApplyFinalizingExecutionTimeout(s)
      [] s.state = "stopping" -> ApplyStoppingExecutionTimeout(s)
      [] s.state = "running" -> ApplyRunningExecutionTimeout(s)

ApplyCooperativeStopTimeout(s) ==
    Result([s EXCEPT !.completion_mode = "forced"],
           <<"disarm_cooperative_stop_timeout", "request_forced_stop",
             "arm_process_exit_confirmation_timeout_if_needed">>)

ApplyProcessExitConfirmationTimeout(s) ==
    Result([s EXCEPT !.cleanup_status = "incomplete"],
           <<"request_forced_stop", "quarantine_resources", "set_readiness_false">>)

ApplyTimeoutExpired(s, e) ==
    CASE e.phase = "preparation" -> ApplyPreparationTimeout(s)
      [] e.phase = "execution" -> ApplyExecutionTimeout(s)
      [] e.phase = "cooperative_stop" -> ApplyCooperativeStopTimeout(s)
      [] e.phase = "process_exit_confirmation" -> ApplyProcessExitConfirmationTimeout(s)

AddWorkerAck(s, e) ==
    [s EXCEPT !.pending_worker_event_ack = TRUE, !.pending_worker_id = e.worker_id,
              !.pending_worker_event_sequence = e.event_sequence]
ClearPendingWorkerAck(s) ==
    [s EXCEPT !.pending_worker_event_ack = FALSE, !.pending_worker_id = None,
              !.pending_worker_event_sequence = None]

ApplyWorkerCompleted(s, e) ==
    LET t == [s EXCEPT !.completion_candidate = IF s.state = "running" THEN TRUE ELSE @]
    IN  Result(AddWorkerAck(BeginFinalizing(t), e),
               If(s.state = "stopping", <<"disarm_cooperative_stop_timeout">>))

ApplyWorkerFailed(s, e) ==
    LET t == [s EXCEPT !.latched_reason =
                  IF s.state \in {"preparing", "running"} THEN "failed" ELSE @]
    IN  Result(AddWorkerAck(BeginFinalizing(t), e),
               If(s.state = "preparing", <<"disarm_preparation_timeout">>)
               \o If(s.state = "stopping", <<"disarm_cooperative_stop_timeout">>))

\* Mutant: the pending Worker acknowledgement survives the exit.
ConfirmExitKeepsAck(s) ==
    [s EXCEPT !.process_exit_confirmed = TRUE, !.process_presence = "absent"]
ConfirmExit(s) ==
    ClearPendingWorkerAck([s EXCEPT !.process_exit_confirmed = TRUE,
                                    !.process_presence = "absent"])

\* Mutant: a duplicate confirmation dispatches its effects again.
ApplyProcessExitConfirmedAgain(s, e) ==
    IF s.state \in {"preparing", "running", "stopping"}
    THEN Result(BeginFinalizing([ConfirmExit(s) EXCEPT !.latched_reason =
                    IF @ = None THEN "failed" ELSE @]), <<>>)
    ELSE Result([ConfirmExit(s) EXCEPT !.completion_mode = e.completion_mode],
                <<"disarm_process_exit_confirmation_timeout">>)
ApplyProcessExitConfirmed(s, e) ==
    LET failed == BeginFinalizing([ConfirmExit(s) EXCEPT
                      !.latched_reason = "failed", !.completion_mode = "process_already_exited"])
        disarmStop == <<"disarm_cooperative_stop_timeout",
                        "disarm_process_exit_confirmation_timeout">>
    IN  CASE s.state \in {"finalizing"} \cup Outcomes ->
                IF s.process_exit_confirmed THEN Result(s, <<>>)
                ELSE Result([ConfirmExit(s) EXCEPT !.completion_mode = e.completion_mode],
                            disarmStop)
          [] s.state = "preparing" -> Result(failed, <<"disarm_preparation_timeout">>)
          [] s.state = "running" -> Result(failed, <<>>)
          [] s.state = "stopping" -> Result(BeginFinalizing(ConfirmExit(s)), disarmStop)

\* Mutant: the success candidate is kept.
ApplyFinalizationFailedKeepsCandidate(s, e) ==
    Result([s EXCEPT !.finalization_status = "failed", !.cleanup_status = "incomplete",
                     !.latched_reason = IF @ = None THEN "failed" ELSE @], <<>>)
ApplyFinalizationFailed(s, e) ==
    LET t == [s EXCEPT !.finalization_status = "failed", !.cleanup_status = "incomplete"]
    IN  IF s.latched_reason = None /\ s.completion_candidate
        THEN Result([t EXCEPT !.latched_reason = "failed", !.completion_candidate = FALSE], <<>>)
        ELSE Result(t, <<>>)

\* Mutant: no exit watch is armed.
ApplyTerminalOutcomeCommittedUnwatched(s, e) ==
    Result([s EXCEPT !.state = e.outcome,
                     !.finalization_status = IF @ = "failed" THEN @ ELSE "completed"],
           <<"disarm_execution_timeout", "ack_terminal_worker_event_if_pending",
             "publish_terminal_result">>)
ApplyTerminalOutcomeCommitted(s, e) ==
    Result([s EXCEPT !.state = e.outcome,
                     !.finalization_status = IF @ = "failed" THEN @ ELSE "completed"],
           <<"disarm_execution_timeout", "ack_terminal_worker_event_if_pending",
             "publish_terminal_result", "arm_process_exit_confirmation_timeout_if_needed">>)

ApplyAuthorizedEvent(s, e) ==
    CASE e.type = "job_created" -> ApplyJobCreated(s, e)
      [] e.type = "resources_committed" -> ApplyResourcesCommitted(s, e)
      [] e.type = "worker_launch_intent" -> ApplyWorkerLaunchIntent(s, e)
      [] e.type = "worker_launch_observed" -> ApplyWorkerLaunchObserved(s, e)
      [] e.type = "worker_running" -> ApplyWorkerRunning(s, e)
      [] e.type = "cancel_accepted" -> ApplyCancelAccepted(s, e)
      [] e.type = "terminate_accepted" -> ApplyTerminateAccepted(s, e)
      [] e.type = "timeout_expired" -> ApplyTimeoutExpired(s, e)
      [] e.type = "worker_completed" -> ApplyWorkerCompleted(s, e)
      [] e.type = "worker_failed" -> ApplyWorkerFailed(s, e)
      [] e.type = "process_exit_confirmed" -> ApplyProcessExitConfirmed(s, e)
      [] e.type = "session_retain_requested" ->
            Result([s EXCEPT !.session_retention_status = "requested"],
                   <<"retain_session_same_identity">>)
      [] e.type = "session_retained" ->
            Result([s EXCEPT !.session_retention_status = "retained"], <<>>)
      [] e.type = "finalization_completed" ->
            Result([s EXCEPT !.finalization_status = "completed"], <<>>)
      [] e.type = "finalization_failed" -> ApplyFinalizationFailed(s, e)
      [] e.type = "terminal_outcome_committed" -> ApplyTerminalOutcomeCommitted(s, e)
      [] e.type = "resources_released" -> Result([s EXCEPT !.resource_status = "released"], <<>>)
      [] e.type = "cleanup_status_recorded" -> Result([s EXCEPT !.cleanup_status = e.status], <<>>)
      [] e.type = "late_worker_event" -> Result(s, <<"ack_late_worker_event">>)

\* Apply decides the proposal once more before it changes anything.
Apply(s, e) ==
    LET decision == DecideEvent(s, e)
        refuse(r) == [snapshot |-> s, effects |-> <<>>, rejection |-> r]
    IN  IF ~Accepted(decision) THEN refuse(decision.reason)
        ELSE IF decision.proposal.type # e.type THEN refuse("invariant_violation")
        ELSE ApplyAuthorizedEvent(s, e)

-----------------------------------------------------------------------------
(* EffectId, and the timer effects by phase.                               *)

Effects == {"arm_preparation_timeout", "disarm_preparation_timeout", "launch_worker_once",
            "arm_execution_timeout", "disarm_execution_timeout", "request_cooperative_stop",
            "request_forced_stop", "retain_session_same_identity",
            "ack_terminal_worker_event_if_pending", "ack_late_worker_event",
            "publish_terminal_result", "arm_process_exit_confirmation_timeout_if_needed",
            "quarantine_resources", "set_readiness_false", "arm_cooperative_stop_timeout",
            "disarm_cooperative_stop_timeout", "disarm_process_exit_confirmation_timeout"}

ArmEffect(phase) ==
    CASE phase = "preparation" -> "arm_preparation_timeout"
      [] phase = "execution" -> "arm_execution_timeout"
      [] phase = "cooperative_stop" -> "arm_cooperative_stop_timeout"
      [] phase = "process_exit_confirmation" -> "arm_process_exit_confirmation_timeout_if_needed"

DisarmEffect(phase) ==
    CASE phase = "preparation" -> "disarm_preparation_timeout"
      [] phase = "execution" -> "disarm_execution_timeout"
      [] phase = "cooperative_stop" -> "disarm_cooperative_stop_timeout"
      [] phase = "process_exit_confirmation" -> "disarm_process_exit_confirmation_timeout"

-----------------------------------------------------------------------------
(* Residency predicates of job_orchestrator.hpp.                           *)

IsUnresolved(s) ==
    \/ ~IsTerminal(s.state)
    \/ s.resource_status = "committed"
    \/ s.cleanup_status = "pending"

IsClosed(s) ==
    ~IsUnresolved(s) /\ (~s.pending_worker_event_ack \/ s.process_exit_confirmed)

=============================================================================
