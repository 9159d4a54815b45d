------------------------- MODULE JobReducerProofs --------------------------
(***************************************************************************)
(* What one accepted event does to a sound snapshot, for any sets of       *)
(* identities and one event type at a time: the next snapshot is sound,    *)
(* and no decided cause, terminal state or closed Job is undone.           *)
(***************************************************************************)
EXTENDS JobLifecycle, TLAPS

\* What no accepted event may undo.
Preserves(s, t) ==
    /\ t.job_id = s.job_id
    /\ s.latched_reason # None => t.latched_reason = s.latched_reason
    /\ IsTerminal(s.state) => t.state = s.state
    /\ IsClosed(s) => IsClosed(t)

SoundStep(s, t) == Sound(t) /\ Preserves(s, t)

\* Assigning one field of a snapshot a value of that field's type gives a snapshot
\* (the assignments of the Apply functions of the reducer, one at a time).
LEMMA FieldTyping ==
  ASSUME NEW s \in Snapshots
  PROVE  /\ \A v \in States : [s EXCEPT !.state = v] \in Snapshots
         /\ \A v \in Reasons \cup {None} : [s EXCEPT !.latched_reason = v] \in Snapshots
         /\ \A v \in BOOLEAN : [s EXCEPT !.completion_candidate = v] \in Snapshots
         /\ \A v \in CompletionModes \cup {"none"} : [s EXCEPT !.completion_mode = v] \in Snapshots
         /\ \A v \in {"none", "committed", "released"} :
                [s EXCEPT !.resource_status = v] \in Snapshots
         /\ \A v \in Allocations \cup {None} : [s EXCEPT !.allocation = v] \in Snapshots
         /\ \A v \in {"not_started", "intent_recorded", "observed", "failed"} :
                [s EXCEPT !.worker_launch_status = v] \in Snapshots
         /\ \A v \in Operations \cup {None} : [s EXCEPT !.launch_operation_id = v] \in Snapshots
         /\ \A v \in Workers \cup {None} : [s EXCEPT !.worker_id = v] \in Snapshots
         /\ \A v \in {"absent", "unknown", "present"} :
                [s EXCEPT !.process_presence = v] \in Snapshots
         /\ \A v \in BOOLEAN : [s EXCEPT !.process_exit_confirmed = v] \in Snapshots
         /\ \A v \in {"not_started", "requested", "retained"} :
                [s EXCEPT !.session_retention_status = v] \in Snapshots
         /\ \A v \in {"not_started", "pending", "completed", "failed"} :
                [s EXCEPT !.finalization_status = v] \in Snapshots
         /\ \A v \in {"pending", "completed", "incomplete"} :
                [s EXCEPT !.cleanup_status = v] \in Snapshots
         /\ \A v \in BOOLEAN : [s EXCEPT !.pending_worker_event_ack = v] \in Snapshots
         /\ \A v \in Workers \cup {None} : [s EXCEPT !.pending_worker_id = v] \in Snapshots
         /\ \A v \in EventSequences \cup {None} :
                [s EXCEPT !.pending_worker_event_sequence = v] \in Snapshots
<1>1. /\ \A v \in States : [s EXCEPT !.state = v] \in Snapshots
      /\ \A v \in Reasons \cup {None} : [s EXCEPT !.latched_reason = v] \in Snapshots
      /\ \A v \in BOOLEAN : [s EXCEPT !.completion_candidate = v] \in Snapshots
      /\ \A v \in CompletionModes \cup {"none"} : [s EXCEPT !.completion_mode = v] \in Snapshots
  BY DEF Snapshots
<1>2. /\ \A v \in {"none", "committed", "released"} :
             [s EXCEPT !.resource_status = v] \in Snapshots
      /\ \A v \in Allocations \cup {None} : [s EXCEPT !.allocation = v] \in Snapshots
      /\ \A v \in {"not_started", "intent_recorded", "observed", "failed"} :
             [s EXCEPT !.worker_launch_status = v] \in Snapshots
      /\ \A v \in Operations \cup {None} : [s EXCEPT !.launch_operation_id = v] \in Snapshots
  BY DEF Snapshots
<1>3. /\ \A v \in Workers \cup {None} : [s EXCEPT !.worker_id = v] \in Snapshots
      /\ \A v \in {"absent", "unknown", "present"} :
             [s EXCEPT !.process_presence = v] \in Snapshots
      /\ \A v \in BOOLEAN : [s EXCEPT !.process_exit_confirmed = v] \in Snapshots
      /\ \A v \in {"not_started", "requested", "retained"} :
             [s EXCEPT !.session_retention_status = v] \in Snapshots
  BY DEF Snapshots
<1>4. /\ \A v \in {"not_started", "pending", "completed", "failed"} :
             [s EXCEPT !.finalization_status = v] \in Snapshots
      /\ \A v \in {"pending", "completed", "incomplete"} :
             [s EXCEPT !.cleanup_status = v] \in Snapshots
      /\ \A v \in BOOLEAN : [s EXCEPT !.pending_worker_event_ack = v] \in Snapshots
      /\ \A v \in Workers \cup {None} : [s EXCEPT !.pending_worker_id = v] \in Snapshots
  BY DEF Snapshots
<1>5. /\ \A v \in EventSequences \cup {None} :
             [s EXCEPT !.pending_worker_event_sequence = v] \in Snapshots
  BY DEF Snapshots
<1> QED  BY <1>1, <1>2, <1>3, <1>4, <1>5

\* The snapshot InitialSnapshot gives a reserved Job, and the one job_created installs,
\* are sound.
LEMMA InitialSound ==
  ASSUME NEW j \in Jobs
  PROVE  /\ Sound(InitialSnapshot(j))
         /\ Sound([InitialSnapshot(j) EXCEPT !.entity_exists = TRUE])
BY NoneAssumption DEF NoneAssumption, InitialSnapshot, Sound, ValidSnapshot, Snapshots, States,
   Outcomes, Reasons, CompletionModes, HasValidResourceFacts, HasValidExitFacts,
   HasValidLaunchFacts, HasValidPendingAckFacts, HasValidStateFacts, IsTerminal,
   UndecidedFacts, ProcessFacts, CauseFacts, Decided

-----------------------------------------------------------------------------
(* One lemma per transition of the reducer.  The facts a snapshot carries  *)
(* are expanded throughout this section.                                   *)

USE NoneAssumption DEF NoneAssumption, Sound, ValidSnapshot, HasValidResourceFacts,
    HasValidExitFacts, HasValidLaunchFacts, HasValidPendingAckFacts, HasValidStateFacts,
    UndecidedFacts, ProcessFacts, CauseFacts, Decided, IsTerminal, IsClosed, IsUnresolved,
    Preserves, Outcomes, Reasons, SoundStep

\* A stop cause (cancel, terminate or a timeout) accepted while the process may exist.
LEMMA StoppingSound ==
  ASSUME NEW s, Sound(s), s.entity_exists, ~WithoutProcess(s),
         s.state \in {"preparing", "running"},
         NEW reason \in Reasons, NEW mode \in {"cooperative", "forced"}
  PROVE  SoundStep(s, Stopping(s, reason, mode))
<1> DEFINE t == Stopping(s, reason, mode)
<1>1. t \in Snapshots
  BY FieldTyping DEF States, Stopping, CompletionModes
<1>2. Sound(t)  BY <1>1 DEF Snapshots, Stopping, WithoutProcess
<1>3. Preserves(s, t)  BY <1>1 DEF Snapshots, Stopping, WithoutProcess
<1> QED  BY <1>2, <1>3

\* A stop cause accepted before any launch goes straight to finalization.
LEMMA FinalizeWithoutProcessSound ==
  ASSUME NEW s, Sound(s), s.entity_exists, WithoutProcess(s), NEW reason \in Reasons
  PROVE  SoundStep(s, FinalizeWithoutProcess(s, reason))
<1> DEFINE t == FinalizeWithoutProcess(s, reason)
<1>1. t \in Snapshots
  BY FieldTyping DEF States, FinalizeWithoutProcess, BeginFinalizing, CompletionModes
<1>2. Sound(t)  BY <1>1 DEF Snapshots, FinalizeWithoutProcess, BeginFinalizing, WithoutProcess
<1>3. Preserves(s, t)  BY <1>1 DEF Snapshots, FinalizeWithoutProcess, BeginFinalizing, WithoutProcess
<1> QED  BY <1>2, <1>3

\* Escalation to a forced stop of a process that is not known to have exited.
LEMMA ForcedSound ==
  ASSUME NEW s, Sound(s), s.entity_exists, ~s.process_exit_confirmed,
         s.state \in {"stopping", "finalizing"}
  PROVE  SoundStep(s, [s EXCEPT !.completion_mode = "forced"])
<1> DEFINE t == [s EXCEPT !.completion_mode = "forced"]
<1>1. t \in Snapshots
  BY FieldTyping DEF States, CompletionModes
<1>2. Sound(t)  BY <1>1 DEF Snapshots
<1>3. Preserves(s, t)  BY <1>1 DEF Snapshots
<1> QED  BY <1>2, <1>3

\* ApplyResourcesCommitted.
LEMMA ResourcesCommittedSound ==
  ASSUME NEW s, Sound(s), s.entity_exists, s.state = "admitted",
         NEW e, e.allocation \in Allocations
  PROVE  SoundStep(s, ApplyResourcesCommitted(s, e).snapshot)
<1> DEFINE t == [s EXCEPT !.state = "preparing", !.resource_status = "committed",
                           !.allocation = e.allocation]
<1>1. t \in Snapshots
  BY FieldTyping DEF States
<1>2. Sound(t)  BY <1>1 DEF Snapshots
<1>3. Preserves(s, t)  BY <1>1 DEF Snapshots
<1>4. ApplyResourcesCommitted(s, e).snapshot = t  BY DEF ApplyResourcesCommitted, Result
<1> HIDE DEF t, Sound, Preserves
<1> QED  BY <1>2, <1>3, <1>4

\* ApplyWorkerLaunchIntent.
LEMMA WorkerLaunchIntentSound ==
  ASSUME NEW s, Sound(s), s.entity_exists, s.state = "preparing",
         s.worker_launch_status = "not_started",
         NEW e, e.operation_id \in Operations, e.worker_id \in Workers
  PROVE  SoundStep(s, ApplyWorkerLaunchIntent(s, e).snapshot)
<1> DEFINE t == [s EXCEPT !.worker_launch_status = "intent_recorded",
                           !.launch_operation_id = e.operation_id,
                           !.worker_id = e.worker_id, !.process_presence = "unknown"]
<1>1. t \in Snapshots
  BY FieldTyping DEF States
<1>2. Sound(t)  BY <1>1 DEF Snapshots
<1>3. Preserves(s, t)  BY <1>1 DEF Snapshots
<1>4. ApplyWorkerLaunchIntent(s, e).snapshot = t  BY DEF ApplyWorkerLaunchIntent, Result
<1> HIDE DEF t, Sound, Preserves
<1> QED  BY <1>2, <1>3, <1>4

\* ApplyWorkerLaunchObserved when the process started.
LEMMA LaunchStartedSound ==
  ASSUME NEW s, Sound(s), s.entity_exists, s.state = "preparing",
         s.worker_launch_status = "intent_recorded", NEW e, e.started
  PROVE  SoundStep(s, ApplyWorkerLaunchObserved(s, e).snapshot)
<1> DEFINE t == [s EXCEPT !.worker_launch_status = "observed",
                           !.process_presence = "present"]
<1>1. t \in Snapshots
  BY FieldTyping DEF States
<1>2. Sound(t)  BY <1>1 DEF Snapshots
<1>3. Preserves(s, t)  BY <1>1 DEF Snapshots
<1>4. ApplyWorkerLaunchObserved(s, e).snapshot = t  BY DEF ApplyWorkerLaunchObserved, Result
<1> HIDE DEF t, Sound, Preserves
<1> QED  BY <1>2, <1>3, <1>4

\* ApplyWorkerLaunchObserved when the process did not start.
LEMMA LaunchFailedSound ==
  ASSUME NEW s, Sound(s), s.entity_exists, s.state = "preparing",
         s.worker_launch_status = "intent_recorded", NEW e, ~e.started
  PROVE  SoundStep(s, ApplyWorkerLaunchObserved(s, e).snapshot)
<1> DEFINE t == BeginFinalizing(
                  [s EXCEPT !.worker_launch_status = "failed", !.process_presence = "absent",
                            !.latched_reason = "failed",
                            !.completion_mode = "process_already_exited",
                            !.process_exit_confirmed = TRUE])
<1>1. t \in Snapshots
  BY FieldTyping DEF States, BeginFinalizing, CompletionModes
<1>2. Sound(t)  BY <1>1 DEF Snapshots, BeginFinalizing
<1>3. Preserves(s, t)  BY <1>1 DEF Snapshots, BeginFinalizing
<1>4. ApplyWorkerLaunchObserved(s, e).snapshot = t  BY DEF ApplyWorkerLaunchObserved, Result
<1> HIDE DEF t, Sound, Preserves
<1> QED  BY <1>2, <1>3, <1>4

\* ApplyWorkerRunning.
LEMMA WorkerRunningSound ==
  ASSUME NEW s, Sound(s), s.entity_exists, s.state = "preparing",
         s.worker_launch_status = "observed", NEW e
  PROVE  SoundStep(s, ApplyWorkerRunning(s, e).snapshot)
<1> DEFINE t == [s EXCEPT !.state = "running", !.process_presence = "present"]
<1>1. t \in Snapshots
  BY FieldTyping DEF States
<1>2. Sound(t)  BY <1>1 DEF Snapshots
<1>3. Preserves(s, t)  BY <1>1 DEF Snapshots
<1>4. ApplyWorkerRunning(s, e).snapshot = t  BY DEF ApplyWorkerRunning, Result
<1> HIDE DEF t, Sound, Preserves
<1> QED  BY <1>2, <1>3, <1>4

\* ApplyProcessExitConfirmationTimeout.
LEMMA ExitTimeoutSound ==
  ASSUME NEW s, Sound(s), s.entity_exists, IsTerminal(s.state),
         ~s.process_exit_confirmed
  PROVE  SoundStep(s, ApplyProcessExitConfirmationTimeout(s).snapshot)
<1> DEFINE t == [s EXCEPT !.cleanup_status = "incomplete"]
<1>1. t \in Snapshots
  BY FieldTyping DEF States
<1>2. Sound(t)  BY <1>1 DEF Snapshots
<1>3. Preserves(s, t)  BY <1>1 DEF Snapshots
<1>4. ApplyProcessExitConfirmationTimeout(s).snapshot = t  BY DEF ApplyProcessExitConfirmationTimeout, Result
<1> HIDE DEF t, Sound, Preserves
<1> QED  BY <1>2, <1>3, <1>4

\* An execution timeout takes the success candidate of a finalizing Job away.
LEMMA CandidateTimeoutSound ==
  ASSUME NEW s, Sound(s), s.entity_exists, s.state = "finalizing",
         s.latched_reason = None, s.completion_candidate, NEW mode \in CompletionModes,
         mode = "process_already_exited" => s.process_exit_confirmed
  PROVE  SoundStep(s, [s EXCEPT !.latched_reason = "timed_out", !.completion_candidate = FALSE,
              !.completion_mode = mode])
<1> DEFINE t == [s EXCEPT !.latched_reason = "timed_out", !.completion_candidate = FALSE,
              !.completion_mode = mode]
<1>1. t \in Snapshots
  BY FieldTyping DEF States, CompletionModes
<1>2. Sound(t)  BY <1>1 DEF Snapshots, CompletionModes
<1>3. Preserves(s, t)  BY <1>1 DEF Snapshots, CompletionModes
<1> QED  BY <1>2, <1>3

\* ApplyWorkerCompleted of a running Job makes it a success candidate.
LEMMA CompletedRunningSound ==
  ASSUME NEW s, Sound(s), s.entity_exists, s.state = "running",
         NEW e, e.worker_id \in Workers, e.event_sequence \in EventSequences
  PROVE  SoundStep(s, AddWorkerAck(BeginFinalizing([s EXCEPT !.completion_candidate = TRUE]), e))
<1> DEFINE t == AddWorkerAck(BeginFinalizing([s EXCEPT !.completion_candidate = TRUE]), e)
<1>1. t \in Snapshots
  BY FieldTyping DEF States, AddWorkerAck, BeginFinalizing
<1>2. Sound(t)  BY <1>1 DEF Snapshots, AddWorkerAck, BeginFinalizing
<1>3. Preserves(s, t)  BY <1>1 DEF Snapshots, AddWorkerAck, BeginFinalizing
<1> QED  BY <1>2, <1>3

\* A Worker outcome of a stopping Job keeps the latched stop cause.
LEMMA OutcomeStoppingSound ==
  ASSUME NEW s, Sound(s), s.entity_exists, s.state = "stopping",
         NEW e, e.worker_id \in Workers, e.event_sequence \in EventSequences
  PROVE  SoundStep(s, AddWorkerAck(BeginFinalizing(s), e))
<1> DEFINE t == AddWorkerAck(BeginFinalizing(s), e)
<1>1. t \in Snapshots
  BY FieldTyping DEF States, AddWorkerAck, BeginFinalizing
<1>2. Sound(t)  BY <1>1 DEF Snapshots, AddWorkerAck, BeginFinalizing
<1>3. Preserves(s, t)  BY <1>1 DEF Snapshots, AddWorkerAck, BeginFinalizing
<1> QED  BY <1>2, <1>3

\* ApplyWorkerFailed of a preparing or running Job latches failed.
LEMMA FailedUndecidedSound ==
  ASSUME NEW s, Sound(s), s.entity_exists, s.state \in {"preparing", "running"},
         s.worker_launch_status # "not_started", NEW e, e.worker_id \in Workers, e.event_sequence \in EventSequences
  PROVE  SoundStep(s, AddWorkerAck(BeginFinalizing([s EXCEPT !.latched_reason = "failed"]), e))
<1> DEFINE t == AddWorkerAck(BeginFinalizing([s EXCEPT !.latched_reason = "failed"]), e)
<1>1. t \in Snapshots
  BY FieldTyping DEF States, AddWorkerAck, BeginFinalizing
<1>2. Sound(t)  BY <1>1 DEF Snapshots, AddWorkerAck, BeginFinalizing
<1>3. Preserves(s, t)  BY <1>1 DEF Snapshots, AddWorkerAck, BeginFinalizing
<1> QED  BY <1>2, <1>3

\* The first exit confirmation of a finalizing or terminal Job.
LEMMA ExitDecidedSound ==
  ASSUME NEW s, Sound(s), s.entity_exists, Decided(s),
         NEW mode \in CompletionModes
  PROVE  SoundStep(s, [ConfirmExit(s) EXCEPT !.completion_mode = mode])
<1> DEFINE t == [ConfirmExit(s) EXCEPT !.completion_mode = mode]
<1>1. t \in Snapshots
  BY FieldTyping DEF States, ConfirmExit, ClearPendingWorkerAck, CompletionModes
<1>2. Sound(t)  BY <1>1 DEF Snapshots, ConfirmExit, ClearPendingWorkerAck, CompletionModes
<1>3. Preserves(s, t)  BY <1>1 DEF Snapshots, ConfirmExit, ClearPendingWorkerAck, CompletionModes
<1> QED  BY <1>2, <1>3

\* An exit of a preparing or running process is a failure.
LEMMA ExitUndecidedSound ==
  ASSUME NEW s, Sound(s), s.entity_exists, s.state \in {"preparing", "running"},
         s.worker_launch_status # "not_started"
  PROVE  SoundStep(s, BeginFinalizing([ConfirmExit(s) EXCEPT
                      !.latched_reason = "failed", !.completion_mode = "process_already_exited"]))
<1> DEFINE u == ConfirmExit(s)
           t == BeginFinalizing([u EXCEPT !.latched_reason = "failed",
                                          !.completion_mode = "process_already_exited"])
<1>1. u \in Snapshots
  BY FieldTyping DEF ConfirmExit, ClearPendingWorkerAck
<1>2. /\ u.process_exit_confirmed /\ u.process_presence = "absent"
      /\ ~u.pending_worker_event_ack
      /\ u.pending_worker_id = None /\ u.pending_worker_event_sequence = None
      /\ u.job_id = s.job_id /\ u.session_id = s.session_id /\ u.entity_exists
      /\ ~u.completion_candidate
      /\ u.resource_status = s.resource_status /\ u.allocation = s.allocation
      /\ u.worker_launch_status = s.worker_launch_status
      /\ u.launch_operation_id = s.launch_operation_id /\ u.worker_id = s.worker_id
  BY DEF Snapshots, ConfirmExit, ClearPendingWorkerAck
<1> HIDE DEF u
<1>3. t \in Snapshots
  BY <1>1, FieldTyping DEF States, BeginFinalizing, CompletionModes
<1>4. Sound(t)  BY <1>1, <1>2, <1>3 DEF Snapshots, BeginFinalizing
<1>5. Preserves(s, t)  BY <1>1, <1>2, <1>3 DEF Snapshots, BeginFinalizing
<1> QED  BY <1>4, <1>5 DEF u

\* An exit of a stopping process keeps the latched stop cause.
LEMMA ExitStoppingSound ==
  ASSUME NEW s, Sound(s), s.entity_exists, s.state = "stopping"
  PROVE  SoundStep(s, BeginFinalizing(ConfirmExit(s)))
<1> DEFINE t == BeginFinalizing(ConfirmExit(s))
<1>1. t \in Snapshots
  BY FieldTyping DEF States, ConfirmExit, ClearPendingWorkerAck, BeginFinalizing
<1>2. Sound(t)  BY <1>1 DEF Snapshots, ConfirmExit, ClearPendingWorkerAck, BeginFinalizing
<1>3. Preserves(s, t)  BY <1>1 DEF Snapshots, ConfirmExit, ClearPendingWorkerAck, BeginFinalizing
<1> QED  BY <1>2, <1>3

\* Session retention is recorded while finalizing.
LEMMA RetentionSound ==
  ASSUME NEW s, Sound(s), s.entity_exists, s.state = "finalizing",
         NEW v \in {"requested", "retained"}
  PROVE  SoundStep(s, [s EXCEPT !.session_retention_status = v])
<1> DEFINE t == [s EXCEPT !.session_retention_status = v]
<1>1. t \in Snapshots
  BY FieldTyping DEF States
<1>2. Sound(t)  BY <1>1 DEF Snapshots
<1>3. Preserves(s, t)  BY <1>1 DEF Snapshots
<1> QED  BY <1>2, <1>3

\* Finalization completes while it is pending.
LEMMA FinalizationCompletedSound ==
  ASSUME NEW s, Sound(s), s.entity_exists, s.state = "finalizing"
  PROVE  SoundStep(s, [s EXCEPT !.finalization_status = "completed"])
<1> DEFINE t == [s EXCEPT !.finalization_status = "completed"]
<1>1. t \in Snapshots
  BY FieldTyping DEF States
<1>2. Sound(t)  BY <1>1 DEF Snapshots
<1>3. Preserves(s, t)  BY <1>1 DEF Snapshots
<1> QED  BY <1>2, <1>3

\* ApplyFinalizationFailed turns a success candidate into a failure.
LEMMA FinalizationFailedCandidateSound ==
  ASSUME NEW s, Sound(s), s.entity_exists, s.state = "finalizing", NEW e,
         s.latched_reason = None, s.completion_candidate
  PROVE  SoundStep(s, ApplyFinalizationFailed(s, e).snapshot)
<1> DEFINE t == [s EXCEPT !.finalization_status = "failed", !.cleanup_status = "incomplete",
                           !.latched_reason = "failed", !.completion_candidate = FALSE]
<1>1. t \in Snapshots
  BY FieldTyping DEF States
<1>2. Sound(t)  BY <1>1 DEF Snapshots
<1>3. Preserves(s, t)  BY <1>1 DEF Snapshots
<1>4. ApplyFinalizationFailed(s, e).snapshot = t  BY DEF ApplyFinalizationFailed, Result
<1> HIDE DEF t, Sound, Preserves
<1> QED  BY <1>2, <1>3, <1>4

\* ApplyFinalizationFailed keeps a latched reason.
LEMMA FinalizationFailedLatchedSound ==
  ASSUME NEW s, Sound(s), s.entity_exists, s.state = "finalizing", NEW e,
         s.latched_reason # None
  PROVE  SoundStep(s, ApplyFinalizationFailed(s, e).snapshot)
<1> DEFINE t == [s EXCEPT !.finalization_status = "failed", !.cleanup_status = "incomplete"]
<1>1. t \in Snapshots
  BY FieldTyping DEF States
<1>2. Sound(t)  BY <1>1 DEF Snapshots
<1>3. Preserves(s, t)  BY <1>1 DEF Snapshots
<1>4. ApplyFinalizationFailed(s, e).snapshot = t  BY DEF ApplyFinalizationFailed, Result
<1> HIDE DEF t, Sound, Preserves
<1> QED  BY <1>2, <1>3, <1>4

\* ApplyTerminalOutcomeCommitted with an outcome that DecideTerminalOutcomeCommitted lets through.
LEMMA TerminalOutcomeSound ==
  ASSUME NEW s, Sound(s), s.entity_exists, s.state = "finalizing", NEW e,
         s.finalization_status # "pending", e.outcome \in Outcomes,
         IF e.outcome = "succeeded"
         THEN s.latched_reason = None /\ s.finalization_status = "completed"
         ELSE s.latched_reason = e.outcome
  PROVE  SoundStep(s, ApplyTerminalOutcomeCommitted(s, e).snapshot)
<1> DEFINE t == [s EXCEPT !.state = e.outcome,
                           !.finalization_status = IF @ = "failed" THEN @ ELSE "completed"]
<1>1. t \in Snapshots
  BY FieldTyping DEF States
<1>2. Sound(t)  BY <1>1 DEF Snapshots
<1>3. Preserves(s, t)  BY <1>1 DEF Snapshots
<1>4. ApplyTerminalOutcomeCommitted(s, e).snapshot = t  BY DEF ApplyTerminalOutcomeCommitted, Result
<1> HIDE DEF t, Sound, Preserves
<1> QED  BY <1>2, <1>3, <1>4

\* Resources are released after the terminal Job's exit.
LEMMA ReleasedSound ==
  ASSUME NEW s, Sound(s), s.entity_exists, IsTerminal(s.state),
         s.process_exit_confirmed, s.resource_status \in {"committed", "released"}
  PROVE  SoundStep(s, [s EXCEPT !.resource_status = "released"])
<1> DEFINE t == [s EXCEPT !.resource_status = "released"]
<1>1. t \in Snapshots
  BY FieldTyping DEF States
<1>2. Sound(t)  BY <1>1 DEF Snapshots
<1>3. Preserves(s, t)  BY <1>1 DEF Snapshots
<1> QED  BY <1>2, <1>3

\* A cleanup status is recorded for a terminal Job.
LEMMA CleanupSound ==
  ASSUME NEW s, Sound(s), s.entity_exists, IsTerminal(s.state),
         NEW v \in {"completed", "incomplete"}
  PROVE  SoundStep(s, [s EXCEPT !.cleanup_status = v])
<1> DEFINE t == [s EXCEPT !.cleanup_status = v]
<1>1. t \in Snapshots
  BY FieldTyping DEF States
<1>2. Sound(t)  BY <1>1 DEF Snapshots
<1>3. Preserves(s, t)  BY <1>1 DEF Snapshots
<1> QED  BY <1>2, <1>3

\* A turn that leaves the snapshot alone.
LEMMA SameSound ==
  ASSUME NEW s, Sound(s)
  PROVE  SoundStep(s, s)
OBVIOUS

HIDE NoneAssumption DEF NoneAssumption, Sound, ValidSnapshot, HasValidResourceFacts,
    HasValidExitFacts, HasValidLaunchFacts, HasValidPendingAckFacts, HasValidStateFacts,
    UndecidedFacts, ProcessFacts, CauseFacts, Decided, IsTerminal, IsClosed, IsUnresolved,
    Preserves, Outcomes, Reasons, SoundStep

=============================================================================
