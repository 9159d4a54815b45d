------------------------- MODULE JobLifecycleProofs -------------------------
(***************************************************************************)
(* The theorems about JobLifecycle, for any sets of identities.            *)
(***************************************************************************)
EXTENDS JobReducerProofs

-----------------------------------------------------------------------------
(* From accepted events to transitions.                                    *)

\* A rejection is never mistaken for an acceptance.
LEMMA RejectIsNotAccepted ==
  ASSUME NEW r \in RejectionReasons
  PROVE  /\ ~Accepted(Reject(r))
         /\ \A e : \A c \in BOOLEAN : Accepted(AcceptIf(c, r, e)) <=> c
BY NoneAssumption DEF NoneAssumption, Accepted, Accept, AcceptIf, Reject

\* An accepted event other than job_created is decided by the function of its type
\* (DecideInternal), for a Job that exists.
LEMMA AcceptedByType ==
  ASSUME NEW s, NEW e, e.type # "job_created", Accepted(DecideEvent(s, e))
  PROVE  /\ s.entity_exists
         /\ e.type # "malformed"
         /\ DecideEvent(s, e) = DecideByType(s, e)
BY RejectIsNotAccepted DEF DecideEvent, RejectionReasons

USE NoneAssumption DEF NoneAssumption, RejectionReasons, Accepted, AcceptIf, Accept, Reject,
    RejectState

\* An accepted timeout takes a sound snapshot to a sound one (ApplyTimeoutExpired).
LEMMA TimeoutSound ==
  ASSUME NEW s, Sound(s), s.entity_exists, NEW e, e.type = "timeout_expired",
         Accepted(DecideByType(s, e))
  PROVE  SoundStep(s, ApplyAuthorizedEvent(s, e).snapshot)
<1>0. s.state \in States
  BY DEF Sound, ValidSnapshot, Snapshots
<1>1. Accepted(DecideTimeoutExpired(s, e)) /\ ApplyAuthorizedEvent(s, e) = ApplyTimeoutExpired(s, e)
  BY DEF DecideByType, ApplyAuthorizedEvent
<1>2. CASE s.state = "preparing"
  <2>1. e.phase = "preparation" /\ ApplyTimeoutExpired(s, e) = ApplyPreparationTimeout(s)
    BY <1>1, <1>2 DEF DecideTimeoutExpired, IsTerminal, Outcomes, ApplyTimeoutExpired
  <2>2. CASE s.process_presence = "absent"
    <3>1. ApplyPreparationTimeout(s).snapshot = FinalizeWithoutProcess(s, "timed_out")
      BY <2>2 DEF ApplyPreparationTimeout, Result
    <3> QED  BY <1>1, <1>2, <2>1, <2>2, <3>1, FinalizeWithoutProcessSound
             DEF WithoutProcess, Reasons, Outcomes
  <2>3. CASE s.process_presence # "absent"
    <3>1. ApplyPreparationTimeout(s).snapshot = Stopping(s, "timed_out", "cooperative")
      BY <2>3 DEF ApplyPreparationTimeout, Result
    <3> QED  BY <1>1, <1>2, <2>1, <2>3, <3>1, StoppingSound DEF WithoutProcess, Reasons, Outcomes
  <2> QED  BY <2>2, <2>3
<1>3. CASE s.state = "running"
  <2>1. e.phase = "execution"
    BY <1>1, <1>3 DEF DecideTimeoutExpired, IsTerminal, Outcomes
  <2>2. ApplyTimeoutExpired(s, e).snapshot = Stopping(s, "timed_out", "cooperative")
    BY <2>1, <1>3 DEF ApplyTimeoutExpired, ApplyExecutionTimeout, ApplyRunningExecutionTimeout,
       Result
  <2> QED  BY <1>1, <1>3, <2>2, StoppingSound DEF WithoutProcess, Reasons, Outcomes
<1>4. CASE s.state = "stopping"
  <2>1. e.phase \in {"execution", "cooperative_stop"}
    BY <1>1, <1>4 DEF DecideTimeoutExpired, IsTerminal, Outcomes
  <2>2. ApplyTimeoutExpired(s, e).snapshot = [s EXCEPT !.completion_mode = "forced"]
    BY <2>1, <1>4 DEF ApplyTimeoutExpired, ApplyExecutionTimeout, ApplyStoppingExecutionTimeout,
       ApplyCooperativeStopTimeout, Result
  <2>3. ~s.process_exit_confirmed
    BY <1>4 DEF Sound, ProcessFacts, Decided, Outcomes
  <2> QED  BY <1>1, <1>4, <2>2, <2>3, ForcedSound
<1>5. CASE s.state = "finalizing"
  <2>1. e.phase = "execution"
    BY <1>1, <1>5 DEF DecideTimeoutExpired, IsTerminal, Outcomes, DecideFinalizingTimeout
  <2>2. ApplyTimeoutExpired(s, e) = ApplyFinalizingExecutionTimeout(s)
    BY <2>1, <1>5 DEF ApplyTimeoutExpired, ApplyExecutionTimeout
  <2>3. CASE s.latched_reason = None /\ s.completion_candidate
    <3> DEFINE mode == IF s.process_exit_confirmed THEN "process_already_exited" ELSE "forced"
    <3>1. ApplyFinalizingExecutionTimeout(s).snapshot =
              [s EXCEPT !.latched_reason = "timed_out", !.completion_candidate = FALSE,
                        !.completion_mode = mode]
      BY <2>3 DEF ApplyFinalizingExecutionTimeout, Result
    <3>2. mode \in CompletionModes /\ (mode = "process_already_exited" => s.process_exit_confirmed)
      BY DEF CompletionModes
    <3> HIDE DEF mode
    <3>3. SoundStep(s, [s EXCEPT !.latched_reason = "timed_out",
                                 !.completion_candidate = FALSE, !.completion_mode = mode])
      BY <1>5, <2>3, <3>2, CandidateTimeoutSound
    <3> QED  BY <1>1, <2>2, <3>1, <3>3
  <2>4. CASE ~(s.latched_reason = None /\ s.completion_candidate) /\ s.process_exit_confirmed
    <3>1. ApplyFinalizingExecutionTimeout(s).snapshot = s
      BY <2>4 DEF ApplyFinalizingExecutionTimeout, Result
    <3> QED  BY <1>1, <2>2, <3>1, SameSound
  <2>5. CASE ~(s.latched_reason = None /\ s.completion_candidate) /\ ~s.process_exit_confirmed
    <3>1. ApplyFinalizingExecutionTimeout(s).snapshot = [s EXCEPT !.completion_mode = "forced"]
      BY <2>5 DEF ApplyFinalizingExecutionTimeout, Result
    <3> QED  BY <1>1, <1>5, <2>2, <2>5, <3>1, ForcedSound
  <2> QED  BY <2>3, <2>4, <2>5
<1>6. CASE s.state = "admitted"
  BY <1>1, <1>6 DEF DecideTimeoutExpired, IsTerminal, Outcomes
<1>7. CASE IsTerminal(s.state)
  <2>1. e.phase = "process_exit_confirmation" /\ ~s.process_exit_confirmed
    BY <1>1, <1>7 DEF DecideTimeoutExpired, IsTerminal, Outcomes
  <2>2. ApplyTimeoutExpired(s, e) = ApplyProcessExitConfirmationTimeout(s)
    BY <2>1 DEF ApplyTimeoutExpired
  <2> QED  BY <1>1, <1>7, <2>1, <2>2, ExitTimeoutSound
<1> QED  BY <1>0, <1>2, <1>3, <1>4, <1>5, <1>6, <1>7 DEF States, IsTerminal, Outcomes

\* An accepted Worker outcome that is not late takes a sound snapshot to a sound one
\* (ApplyWorkerCompleted, ApplyWorkerFailed).
LEMMA WorkerOutcomeSound ==
  ASSUME NEW s, Sound(s), s.entity_exists, NEW e \in CandidateEvents(s.job_id),
         e.type \in {"worker_completed", "worker_failed"},
         Accepted(DecideByType(s, e)), DecideByType(s, e).proposal.type = e.type
  PROVE  SoundStep(s, ApplyAuthorizedEvent(s, e).snapshot)
<1>1. e.worker_id \in Workers /\ e.event_sequence \in EventSequences
  BY DEF CandidateEvents
<1>2. /\ s.state \in {"running", "stopping"} \/ (s.state = "preparing" /\ e.type = "worker_failed")
      /\ s.worker_id = e.worker_id
  BY DEF DecideByType, DecideWorkerOutcome, Late, IsTerminal, Outcomes
<1>3. s.worker_launch_status # "not_started"
  BY <1>1, <1>2 DEF Sound, ValidSnapshot, HasValidLaunchFacts
<1>4. CASE s.state = "stopping"
  <2>1. ApplyAuthorizedEvent(s, e).snapshot = AddWorkerAck(BeginFinalizing(s), e)
    BY <1>4 DEF ApplyAuthorizedEvent, ApplyWorkerCompleted, ApplyWorkerFailed, Result, Sound,
       ValidSnapshot, Snapshots
  <2> QED  BY <1>1, <1>4, <2>1, OutcomeStoppingSound
<1>5. CASE s.state = "running" /\ e.type = "worker_completed"
  <2>1. ApplyAuthorizedEvent(s, e).snapshot =
            AddWorkerAck(BeginFinalizing([s EXCEPT !.completion_candidate = TRUE]), e)
    BY <1>5 DEF ApplyAuthorizedEvent, ApplyWorkerCompleted, Result
  <2> QED  BY <1>1, <1>5, <2>1, CompletedRunningSound
<1>6. CASE s.state \in {"preparing", "running"} /\ e.type = "worker_failed"
  <2>1. ApplyAuthorizedEvent(s, e).snapshot =
            AddWorkerAck(BeginFinalizing([s EXCEPT !.latched_reason = "failed"]), e)
    BY <1>6 DEF ApplyAuthorizedEvent, ApplyWorkerFailed, Result
  <2> QED  BY <1>1, <1>3, <1>6, <2>1, FailedUndecidedSound
<1> QED  BY <1>2, <1>4, <1>5, <1>6

\* An accepted exit confirmation takes a sound snapshot to a sound one
\* (ApplyProcessExitConfirmed).
LEMMA ProcessExitSound ==
  ASSUME NEW s, Sound(s), s.entity_exists, NEW e \in CandidateEvents(s.job_id),
         e.type = "process_exit_confirmed", Accepted(DecideByType(s, e))
  PROVE  SoundStep(s, ApplyAuthorizedEvent(s, e).snapshot)
<1>1. e.operation_id \in Operations /\ e.completion_mode \in CompletionModes
  BY DEF CandidateEvents
<1>2. s.state # "admitted" /\ s.launch_operation_id = e.operation_id
  BY DEF DecideByType, DecideProcessExitConfirmed
<1>3. s.worker_launch_status # "not_started" /\ s.state \in States
  BY <1>1, <1>2 DEF Sound, ValidSnapshot, HasValidLaunchFacts, Snapshots
<1>4. ApplyAuthorizedEvent(s, e) = ApplyProcessExitConfirmed(s, e)
  BY DEF ApplyAuthorizedEvent
<1>5. CASE Decided(s) /\ s.process_exit_confirmed
  <2>1. ApplyProcessExitConfirmed(s, e).snapshot = s
    BY <1>5 DEF ApplyProcessExitConfirmed, Result, Decided, Outcomes
  <2> QED  BY <1>4, <2>1, SameSound
<1>6. CASE Decided(s) /\ ~s.process_exit_confirmed
  <2>1. ApplyProcessExitConfirmed(s, e).snapshot =
            [ConfirmExit(s) EXCEPT !.completion_mode = e.completion_mode]
    BY <1>6 DEF ApplyProcessExitConfirmed, Result, Decided, Outcomes
  <2> QED  BY <1>1, <1>4, <1>6, <2>1, ExitDecidedSound
<1>7. CASE s.state \in {"preparing", "running"}
  <2>1. ApplyProcessExitConfirmed(s, e).snapshot =
            BeginFinalizing([ConfirmExit(s) EXCEPT
                !.latched_reason = "failed", !.completion_mode = "process_already_exited"])
    BY <1>7 DEF ApplyProcessExitConfirmed, Result, Outcomes
  <2> QED  BY <1>3, <1>4, <1>7, <2>1, ExitUndecidedSound
<1>8. CASE s.state = "stopping"
  <2>1. ApplyProcessExitConfirmed(s, e).snapshot = BeginFinalizing(ConfirmExit(s))
    BY <1>8 DEF ApplyProcessExitConfirmed, Result, Outcomes
  <2> QED  BY <1>4, <1>8, <2>1, ExitStoppingSound
<1> QED  BY <1>2, <1>3, <1>5, <1>6, <1>7, <1>8 DEF States, Decided, Outcomes

\* Every accepted proposal takes a sound snapshot to a sound one (Apply, job_reducer.cpp).
LEMMA AppliedSound ==
  ASSUME NEW s, Sound(s), s.job_id \in Jobs, NEW e \in Proposals(s.job_id),
         Accepted(DecideEvent(s, e)), DecideEvent(s, e).proposal.type = e.type
  PROVE  SoundStep(s, ApplyAuthorizedEvent(s, e).snapshot)
<1> USE DEF Proposals, CandidateEvents, TimeoutEvents, CommandEvents, LateEvents
<1>1. CASE e.type # "job_created"
  <2>0. s.entity_exists /\ Accepted(DecideByType(s, e)) /\ DecideByType(s, e).proposal.type = e.type
    BY <1>1, AcceptedByType
  <2>1. CASE e.type = "resources_committed"
    <3>1. s.state = "admitted" /\ e.allocation \in Allocations
      BY <2>1, <2>0 DEF DecideByType, DecideResourcesCommitted
    <3>2. ApplyAuthorizedEvent(s, e) = ApplyResourcesCommitted(s, e)
      BY <2>1 DEF ApplyAuthorizedEvent
    <3> QED  BY <2>0, <3>1, <3>2, ResourcesCommittedSound
  <2>2. CASE e.type = "worker_launch_intent"
    <3>1. /\ s.state = "preparing" /\ s.worker_launch_status = "not_started"
          /\ e.operation_id \in Operations /\ e.worker_id \in Workers
      BY <2>2, <2>0 DEF DecideByType, DecideWorkerLaunchIntent
    <3>2. ApplyAuthorizedEvent(s, e) = ApplyWorkerLaunchIntent(s, e)
      BY <2>2 DEF ApplyAuthorizedEvent
    <3> QED  BY <2>0, <3>1, <3>2, WorkerLaunchIntentSound
  <2>3. CASE e.type = "worker_launch_observed"
    <3>1. /\ s.state = "preparing" /\ s.worker_launch_status = "intent_recorded"
          /\ e.started \in BOOLEAN
      BY <2>3, <2>0 DEF DecideByType, DecideWorkerLaunchObserved
    <3>2. ApplyAuthorizedEvent(s, e) = ApplyWorkerLaunchObserved(s, e)
      BY <2>3 DEF ApplyAuthorizedEvent
    <3> QED  BY <2>0, <3>1, <3>2, LaunchStartedSound, LaunchFailedSound
  <2>4. CASE e.type = "worker_running"
    <3>1. s.state = "preparing" /\ s.worker_launch_status = "observed"
      BY <2>4, <2>0 DEF DecideByType, DecideWorkerRunning
    <3>2. ApplyAuthorizedEvent(s, e) = ApplyWorkerRunning(s, e)
      BY <2>4 DEF ApplyAuthorizedEvent
    <3> QED  BY <2>0, <3>1, <3>2, WorkerRunningSound
  <2>5. CASE e.type = "finalization_failed"
    <3>1. s.state = "finalizing" /\ (s.latched_reason # None \/ s.completion_candidate)
      BY <2>5, <2>0 DEF DecideByType, DecideFinalizationFailed
    <3>2. ApplyAuthorizedEvent(s, e) = ApplyFinalizationFailed(s, e)
      BY <2>5 DEF ApplyAuthorizedEvent
    <3> QED  BY <2>0, <3>1, <3>2, FinalizationFailedCandidateSound, FinalizationFailedLatchedSound
  <2>6. CASE e.type = "terminal_outcome_committed"
    <3>1. /\ s.state = "finalizing" /\ s.finalization_status # "pending"
          /\ e.outcome \in Outcomes
          /\ IF e.outcome = "succeeded"
             THEN s.latched_reason = None /\ s.finalization_status = "completed"
             ELSE s.latched_reason = e.outcome
      BY <2>6, <2>0 DEF DecideByType, DecideTerminalOutcomeCommitted
    <3>2. ApplyAuthorizedEvent(s, e) = ApplyTerminalOutcomeCommitted(s, e)
      BY <2>6 DEF ApplyAuthorizedEvent
    <3> QED  BY <2>0, <3>1, <3>2, TerminalOutcomeSound
  <2>7. CASE e.type = "cancel_accepted"
    <3>1. s.state \in {"admitted", "preparing", "running"}
      BY <2>7, <2>0 DEF DecideByType, DecideCancelAccepted
    <3>2. CASE WithoutProcess(s)
      <4>1. ApplyAuthorizedEvent(s, e).snapshot = FinalizeWithoutProcess(s, "cancelled")
        BY <2>7, <3>2 DEF ApplyAuthorizedEvent, ApplyCancelAccepted, Result
      <4> QED  BY <2>0, <3>2, <4>1, FinalizeWithoutProcessSound DEF Reasons, Outcomes
    <3>3. CASE ~WithoutProcess(s)
      <4>1. ApplyAuthorizedEvent(s, e).snapshot = Stopping(s, "cancelled", "cooperative")
        BY <2>7, <3>3 DEF ApplyAuthorizedEvent, ApplyCancelAccepted, Result
      <4>2. s.state \in {"preparing", "running"}
        BY <3>1, <3>3 DEF WithoutProcess
      <4> QED  BY <2>0, <3>3, <4>1, <4>2, StoppingSound DEF Reasons, Outcomes
    <3> QED  BY <3>2, <3>3
  <2>8. CASE e.type = "terminate_accepted"
    <3>1. CASE s.state \in {"stopping", "finalizing"}
      <4>1. ~s.process_exit_confirmed
        BY <2>8, <2>0, <3>1 DEF DecideByType, DecideTerminateAccepted
      <4>2. ApplyAuthorizedEvent(s, e).snapshot = [s EXCEPT !.completion_mode = "forced"]
        BY <2>8, <3>1 DEF ApplyAuthorizedEvent, ApplyTerminateAccepted, Result
      <4> QED  BY <2>0, <3>1, <4>1, <4>2, ForcedSound
    <3>2. CASE s.state \notin {"stopping", "finalizing"} /\ WithoutProcess(s)
      <4>1. ApplyAuthorizedEvent(s, e).snapshot = FinalizeWithoutProcess(s, "terminated")
        BY <2>8, <3>2 DEF ApplyAuthorizedEvent, ApplyTerminateAccepted, Result
      <4> QED  BY <2>0, <3>2, <4>1, FinalizeWithoutProcessSound DEF Reasons, Outcomes
    <3>3. CASE s.state \notin {"stopping", "finalizing"} /\ ~WithoutProcess(s)
      <4>1. ApplyAuthorizedEvent(s, e).snapshot = Stopping(s, "terminated", "forced")
        BY <2>8, <3>3 DEF ApplyAuthorizedEvent, ApplyTerminateAccepted, Result
      <4>2. ~IsTerminal(s.state)
        BY <2>8, <2>0, <3>3 DEF DecideByType, DecideTerminateAccepted
      <4>3. s.state \in States
        BY DEF Sound, ValidSnapshot, Snapshots
      <4>4. s.state \in {"preparing", "running"}
        BY <3>3, <4>2, <4>3 DEF WithoutProcess, IsTerminal, States, Outcomes
      <4> QED  BY <2>0, <3>3, <4>1, <4>4, StoppingSound DEF Reasons, Outcomes
    <3> QED  BY <3>1, <3>2, <3>3
  <2>9. CASE e.type = "timeout_expired"
    BY <2>9, <2>0, TimeoutSound
  <2>10. CASE e.type \in {"worker_completed", "worker_failed"}
    <3>1. e \in CandidateEvents(s.job_id)  BY <2>10
    <3> QED  BY <2>10, <2>0, <3>1, WorkerOutcomeSound
  <2>11. CASE e.type = "process_exit_confirmed"
    <3>1. e \in CandidateEvents(s.job_id)  BY <2>11
    <3> QED  BY <2>11, <2>0, <3>1, ProcessExitSound
  <2>12. CASE e.type \in {"session_retain_requested", "session_retained"}
    <3>1. s.state = "finalizing"
      BY <2>12, <2>0 DEF DecideByType, DecideSessionRetain
    <3>2. ApplyAuthorizedEvent(s, e).snapshot =
              [s EXCEPT !.session_retention_status =
                  IF e.type = "session_retain_requested" THEN "requested" ELSE "retained"]
      BY <2>12 DEF ApplyAuthorizedEvent, Result
    <3>3. /\ SoundStep(s, [s EXCEPT !.session_retention_status = "requested"])
          /\ SoundStep(s, [s EXCEPT !.session_retention_status = "retained"])
      BY <2>0, <3>1, RetentionSound
    <3> QED  BY <2>12, <3>2, <3>3
  <2>13. CASE e.type = "finalization_completed"
    <3>1. s.state = "finalizing"
      BY <2>13, <2>0 DEF DecideByType, DecideFinalizationCompleted
    <3>2. ApplyAuthorizedEvent(s, e).snapshot = [s EXCEPT !.finalization_status = "completed"]
      BY <2>13 DEF ApplyAuthorizedEvent, Result
    <3> QED  BY <2>0, <3>1, <3>2, FinalizationCompletedSound
  <2>14. CASE e.type = "resources_released"
    <3>1. /\ IsTerminal(s.state) /\ s.process_exit_confirmed
          /\ s.resource_status \in {"committed", "released"}
      BY <2>14, <2>0 DEF DecideByType, DecideResourcesReleased
    <3>2. ApplyAuthorizedEvent(s, e).snapshot = [s EXCEPT !.resource_status = "released"]
      BY <2>14 DEF ApplyAuthorizedEvent, Result
    <3> QED  BY <2>0, <3>1, <3>2, ReleasedSound
  <2>15. CASE e.type = "cleanup_status_recorded"
    <3>1. IsTerminal(s.state) /\ e.status \in {"completed", "incomplete"}
      BY <2>15, <2>0 DEF DecideByType, DecideCleanupStatusRecorded
    <3>2. ApplyAuthorizedEvent(s, e).snapshot = [s EXCEPT !.cleanup_status = e.status]
      BY <2>15 DEF ApplyAuthorizedEvent, Result
    <3>3. SoundStep(s, [s EXCEPT !.cleanup_status = e.status])
      BY <2>0, <3>1, CleanupSound
    <3> QED  BY <3>2, <3>3
  <2>16. CASE e.type = "late_worker_event"
    <3>1. ApplyAuthorizedEvent(s, e).snapshot = s
      BY <2>16 DEF ApplyAuthorizedEvent, Result
    <3> QED  BY <3>1, SameSound
  <2>17. e.type # "malformed"
    BY <1>1, AcceptedByType
  <2> QED  BY <1>1, <2>1, <2>2, <2>3, <2>4, <2>5, <2>6, <2>7, <2>8, <2>9, <2>10, <2>11,
              <2>12, <2>13, <2>14, <2>15, <2>16, <2>17
<1>2. CASE e.type = "job_created"
  <2>1. ~s.entity_exists
    BY <1>2 DEF DecideEvent
  <2>2. s = InitialSnapshot(s.job_id)
    BY <2>1 DEF Sound
  <2>3. ApplyAuthorizedEvent(s, e).snapshot =
            [InitialSnapshot(s.job_id) EXCEPT !.entity_exists = TRUE]
    BY <1>2 DEF ApplyAuthorizedEvent, ApplyJobCreated, Result
  <2> QED  BY <2>2, <2>3, InitialSound DEF SoundStep, Preserves, InitialSnapshot, IsTerminal,
              Outcomes, IsClosed, IsUnresolved
<1> QED  BY <1>1, <1>2

\* Apply takes a sound snapshot to a sound one, accepted or refused.
LEMMA ApplySound ==
  ASSUME NEW s, Sound(s), s.job_id \in Jobs, NEW e \in Proposals(s.job_id)
  PROVE  SoundStep(s, Apply(s, e).snapshot)
<1>1. CASE Accepted(DecideEvent(s, e)) /\ DecideEvent(s, e).proposal.type = e.type
  <2>1. Apply(s, e) = ApplyAuthorizedEvent(s, e)
    BY <1>1 DEF Apply
  <2> QED  BY <1>1, <2>1, AppliedSound
<1>2. CASE ~(Accepted(DecideEvent(s, e)) /\ DecideEvent(s, e).proposal.type = e.type)
  <2>1. Apply(s, e).snapshot = s
    BY <1>2 DEF Apply
  <2> QED  BY <2>1, SameSound
<1> QED  BY <1>1, <1>2

\* What a decision accepts is the event itself or its late form, for the same Job
\* (DecideInternal).
LEMMA EventProposalTyped ==
  ASSUME NEW s, Sound(s), NEW e \in CandidateEvents(s.job_id) \cup TimeoutEvents(s.job_id),
         Accepted(DecideEvent(s, e))
  PROVE  DecideEvent(s, e).proposal \in Proposals(s.job_id)
<1>1. CASE e.type = "job_created"
  <2>1. DecideEvent(s, e).proposal = e
    BY <1>1 DEF DecideEvent
  <2> QED  BY <2>1 DEF Proposals
<1>2. CASE e.type # "job_created"
  <2>0. DecideEvent(s, e) = DecideByType(s, e) /\ Accepted(DecideByType(s, e)) /\ e.type # "malformed"
    BY <1>2, AcceptedByType
  <2>1. CASE e.type \in {"worker_completed", "worker_failed"}
    <3>1. DecideByType(s, e) = DecideWorkerOutcome(s, e)
      BY <2>1 DEF DecideByType
    <3>2. DecideWorkerOutcome(s, e).proposal \in {e, Late(e)}
      BY <2>0, <3>1 DEF DecideWorkerOutcome
    <3>3. e.worker_id \in Workers /\ e.event_sequence \in EventSequences /\ e.job_id = s.job_id
      BY <2>1 DEF CandidateEvents, TimeoutEvents
    <3>4. Late(e) \in LateEvents(s.job_id)
      BY <2>1, <3>3 DEF Late, LateEvents
    <3> QED  BY <2>0, <3>1, <3>2, <3>4 DEF Proposals
  <2>2. CASE e.type = "timeout_expired"
    <3>1. s.state \in States
      BY DEF Sound, ValidSnapshot, Snapshots
    <3>2. DecideByType(s, e) = DecideTimeoutExpired(s, e)
      BY <2>2 DEF DecideByType
    <3>3. DecideTimeoutExpired(s, e).proposal = e
      BY <2>0, <3>1, <3>2 DEF DecideTimeoutExpired, DecideFinalizingTimeout, States, IsTerminal,
         Outcomes
    <3> QED  BY <2>0, <3>2, <3>3 DEF Proposals
  <2>3. CASE e.type \notin {"worker_completed", "worker_failed", "timeout_expired"}
    <3>1. e.type \in {"resources_committed", "worker_launch_intent", "worker_launch_observed",
              "worker_running", "process_exit_confirmed", "session_retain_requested",
              "session_retained", "finalization_completed", "finalization_failed",
              "terminal_outcome_committed", "resources_released", "cleanup_status_recorded"}
      BY <1>2, <2>0, <2>3 DEF CandidateEvents, TimeoutEvents
    <3>2. DecideByType(s, e).proposal = e
      BY <2>0, <3>1 DEF DecideByType,
         DecideResourcesCommitted, DecideWorkerLaunchIntent, DecideWorkerLaunchObserved,
         DecideWorkerRunning, DecideProcessExitConfirmed, DecideSessionRetain,
         DecideFinalizationCompleted, DecideFinalizationFailed,
         DecideTerminalOutcomeCommitted, DecideResourcesReleased, DecideCleanupStatusRecorded
    <3> QED  BY <2>0, <3>2 DEF Proposals
  <2> QED  BY <2>1, <2>2, <2>3
<1> QED  BY <1>1, <1>2

\* Every step of Next is a writer turn that takes a sound snapshot to a sound one.
LEMMA NextSound ==
  ASSUME Sound(job), Next
  PROVE  SoundStep(job, job')
<1>0. job.job_id \in Jobs
  BY DEF Sound, ValidSnapshot, Snapshots
<1>1. ASSUME NEW d, NEW b, Turn(d, b), Accepted(d) => d.proposal \in Proposals(job.job_id)
      PROVE  SoundStep(job, job')
  <2>1. CASE Accepted(d)
    <3>1. job' = Apply(job, d.proposal).snapshot
      BY <1>1, <2>1 DEF Turn
    <3> QED  BY <1>0, <1>1, <2>1, <3>1, ApplySound
  <2>2. CASE ~Accepted(d)
    <3>1. job' = job
      BY <1>1, <2>2 DEF Turn
    <3> QED  BY <3>1, SameSound
  <2> QED  BY <2>1, <2>2
<1>2. ASSUME NEW e \in CandidateEvents(job.job_id), Submit(e)
      PROVE  SoundStep(job, job')
  BY <1>1, <1>2, EventProposalTyped DEF Submit
<1>3. ASSUME NEW c \in CommandTypes, Request(c)
      PROVE  SoundStep(job, job')
  <2>1. Accepted(DecideCommand(job, job.job_id, c)) =>
            DecideCommand(job, job.job_id, c).proposal \in Proposals(job.job_id)
    BY <1>3 DEF DecideCommand, CommandEvent, Proposals, CommandEvents, CommandTypes
  <2> QED  BY <1>1, <1>3, <2>1 DEF Request
<1>4. ASSUME NEW p \in Phases, Expire(p)
      PROVE  SoundStep(job, job')
  <2> DEFINE e == [type |-> "timeout_expired", job_id |-> job.job_id, phase |-> p]
  <2>1. e \in TimeoutEvents(job.job_id)
    BY <1>4 DEF TimeoutEvents
  <2>2. Turn(DecideEvent(job, e), armed \ {p})
    BY <1>4 DEF Expire
  <2> HIDE DEF e
  <2> QED  BY <1>1, <2>1, <2>2, EventProposalTyped
<1> QED  BY <1>2, <1>3, <1>4 DEF Next

HIDE NoneAssumption DEF NoneAssumption, RejectionReasons, Accepted, AcceptIf, Accept, Reject,
    RejectState

-----------------------------------------------------------------------------
(* Invariants.                                                             *)

\* Every installed snapshot is sound: the facts the reducer checks of it and the ones it
\* relies on without checking.
THEOREM Soundness == Spec => []Sound(job)
<1>1. Init => Sound(job)
  BY InitialSound DEF Init
<1>2. Sound(job) /\ [Next]_vars => Sound(job)'
  <2> SUFFICES ASSUME Sound(job), [Next]_vars PROVE Sound(job)'
    OBVIOUS
  <2>1. CASE Next
    BY <2>1, NextSound DEF SoundStep
  <2>2. CASE UNCHANGED vars
    BY <2>2 DEF vars
  <2> QED  BY <2>1, <2>2
<1> QED  BY <1>1, <1>2, PTL DEF Spec

\* The reducer never installs a snapshot that its own ValidSnapshot refuses.
THEOREM ValidityTheorem == Spec => []SnapshotStaysValid
<1>1. Sound(job) => SnapshotStaysValid
  BY DEF Sound, SnapshotStaysValid
<1> QED  BY <1>1, Soundness, PTL

\* A finalizing Job has exactly one cause and a terminal state is its cause.
THEOREM CauseTheorem == Spec => []OutcomeHasOneCause
<1>1. Sound(job) => OutcomeHasOneCause
  BY DEF Sound, OutcomeHasOneCause
<1> QED  BY <1>1, Soundness, PTL

\* A closed Job, the only kind that is retired or pruned, has a confirmed process exit.
THEOREM ClosedMeansExitedTheorem == Spec => []ClosedMeansExited
<1>1. Sound(job) => ClosedMeansExited
  BY DEF Sound, ProcessFacts, Decided, ClosedMeansExited, IsClosed, IsUnresolved, IsTerminal
<1> QED  BY <1>1, Soundness, PTL

\* No step replaces a latched reason or changes a terminal state.
THEOREM FirstCauseTheorem == Spec => FirstCauseIsFinal
<1>1. Sound(job) /\ [Next]_vars =>
          [/\ Latched => job'.latched_reason = job.latched_reason
           /\ IsTerminal(job.state) => job'.state = job.state]_vars
  BY NextSound DEF SoundStep, Preserves, Latched
<1> QED  BY <1>1, Soundness, PTL DEF Spec, FirstCauseIsFinal

\* A closed Job has a confirmed process exit, and no step reopens it.
THEOREM ClosedIsStableTheorem == Spec => ClosedIsStable
<1>1. ClosedMeansExited /\ Sound(job) /\ [Next]_vars =>
          [IsClosed(job) => job.process_exit_confirmed /\ IsClosed(job')]_vars
  BY NextSound DEF SoundStep, Preserves, ClosedMeansExited
<1> QED  BY <1>1, Soundness, ClosedMeansExitedTheorem, PTL DEF Spec, ClosedIsStable

=============================================================================
