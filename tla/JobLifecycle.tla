---------------------------- MODULE JobLifecycle ----------------------------
(***************************************************************************)
(* One Job driven by the reducer: the state writer takes one turn per      *)
(* candidate event, client command or expired timer, and a turn commits,   *)
(* installs and dispatches as a unit.  Candidates arrive in any order, any *)
(* number of times.  A timer expires only while it is armed, and its turn  *)
(* consumes the registration whatever the reducer decides.                 *)
(***************************************************************************)
EXTENDS Replay, Functions

VARIABLES
    job,      \* the installed snapshot
    effects,  \* what the last turn dispatched, in order
    armed,    \* timer phases with a live registration
    issued    \* the one-shot effects dispatched so far (history)

vars == <<job, effects, armed, issued>>

OneShots == {"launch_worker_once", "quarantine_resources"}

\* kArmProcessExitConfirmationTimeoutIfNeeded arms whether or not the exit is already known.
Timers(before, fx) ==
    {p \in Phases : \/ ArmEffect(p) \in Range(fx)
                    \/ p \in before /\ DisarmEffect(p) \notin Range(fx)}

Init ==
    /\ job \in {InitialSnapshot(j) : j \in Jobs}
    /\ effects = <<>>
    /\ armed = {}
    /\ issued = {}

\* One writer turn; "before" is the set of timers its own registration leaves armed.
Turn(decision, before) ==
    LET result == IF Accepted(decision) THEN Apply(job, decision.proposal)
                  ELSE [snapshot |-> job, effects |-> <<>>, rejection |-> decision.reason]
    IN  /\ job' = result.snapshot
        /\ effects' = result.effects
        /\ armed' = Timers(before, result.effects)
        /\ issued' = issued \cup (Range(result.effects) \cap OneShots)

Submit(e) == Turn(DecideEvent(job, e), armed)

Request(command) == Turn(DecideCommand(job, job.job_id, command), armed)

Expire(phase) ==
    /\ phase \in armed
    /\ Turn(DecideEvent(job, [type |-> "timeout_expired", job_id |-> job.job_id,
                              phase |-> phase]), armed \ {phase})

Next ==
    \/ \E e \in CandidateEvents(job.job_id) : Submit(e)
    \/ \E c \in CommandTypes : Request(c)
    \/ \E p \in Phases : Expire(p)

Spec == Init /\ [][Next]_vars

\* An armed timer is eventually delivered, by the timer service the effects configure.
Fairness == \A p \in Phases : WF_vars(Expire(p))

FairSpec == Spec /\ Fairness

-----------------------------------------------------------------------------
\* The ranges of the installed snapshot, the dispatched effects and the live timers.
TypeOK ==
    /\ job \in Snapshots
    /\ effects \in Seq(Effects)
    /\ armed \subseteq Phases
    /\ issued \subseteq OneShots

\* The reducer never installs a snapshot its own ValidSnapshot would refuse: such a Job
\* would answer every later input with invariant_violation and could never be resolved.
SnapshotStaysValid == ValidSnapshot(job)

\* Whatever the writer decides to commit, Apply accepts it again, and replaying the record
\* onto the snapshot it was decided on gives the snapshot the writer installs.  So no turn
\* fails between decision and commit, and no committed record makes a restart refuse the
\* Journal.
ReplayReproducesEveryTurn ==
    \A d \in {DecideEvent(job, e) :
                  e \in CandidateEvents(job.job_id) \cup TimeoutEvents(job.job_id)}
              \cup {DecideCommand(job, job.job_id, c) : c \in CommandTypes} :
        Accepted(d) =>
            LET applied == Apply(job, d.proposal)
            IN  /\ applied.rejection = None
                /\ ReplayRecord(job, d.proposal) = applied.snapshot

Latched == job.latched_reason # None

CauseFacts(s) ==
    /\ s.state = "finalizing" => (s.latched_reason # None <=> ~s.completion_candidate)
    /\ s.state \in Reasons => s.latched_reason = s.state
    /\ s.state = "succeeded" => /\ s.latched_reason = None
                                /\ s.completion_candidate
                                /\ s.finalization_status = "completed"

\* Exactly one cause decides a finalizing Job: a latched reason or a success candidate.
\* The terminal state is that cause, and success also needs completed finalization.
OutcomeHasOneCause == CauseFacts(job)

\* A Job that may be retired from memory or pruned from the Journal has a confirmed process
\* exit: closing a Job never forgets a process that could still be running.
ClosedMeansExited == IsClosed(job) => job.process_exit_confirmed

\* A cooperative stop always has its escalation timer, a Job waiting in a timed state has
\* the timer of that state, and a terminal Job whose process is not known to have exited
\* has an exit watch or has already quarantined its resources.
EveryWaitIsWatched ==
    /\ job.state = "preparing" => "preparation" \in armed
    /\ job.state = "running" => "execution" \in armed
    /\ job.state = "stopping" /\ job.completion_mode = "cooperative" =>
           "cooperative_stop" \in armed
    /\ IsTerminal(job.state) /\ ~job.process_exit_confirmed =>
           "process_exit_confirmation" \in armed \/ "quarantine_resources" \in issued

\* The same terminal fact delivered twice changes nothing and dispatches nothing the second
\* time: exit confirmation, resource release and cleanup status are idempotent audits.
TerminalFacts ==
    {e \in CandidateEvents(job.job_id) :
        e.type \in {"process_exit_confirmed", "resources_released", "cleanup_status_recorded"}}
DuplicateFactsAreIdempotent ==
    IsTerminal(job.state) =>
        \A e \in TerminalFacts :
            Accepted(DecideEvent(job, e)) =>
                LET once == Apply(job, e).snapshot
                IN  Apply(once, e) = Result(once, <<>>)

-----------------------------------------------------------------------------
(* What ValidSnapshot leaves out and every installed snapshot satisfies.   *)

Decided(s) == s.state \in {"finalizing"} \cup Outcomes

\* Before any stop cause nothing about the end of the Job has been recorded, and no Worker
\* outcome awaits its acknowledgement before finalization.
UndecidedFacts(s) ==
    /\ s.state \in {"admitted", "preparing", "running"} =>
           s.latched_reason = None /\ ~s.completion_candidate /\ s.completion_mode = "none"
    /\ s.pending_worker_event_ack => Decided(s)

\* Past admission the process is exactly as far as the launch records say.
ProcessFacts(s) ==
    /\ s.state = "preparing" =>
           IF s.worker_launch_status = "not_started" THEN s.process_presence = "absent"
           ELSE /\ s.worker_launch_status \in {"intent_recorded", "observed"}
                /\ s.process_presence # "absent"
    /\ s.state \in {"preparing", "running", "stopping"} => s.resource_status = "committed"
    /\ s.state \in {"running", "stopping"} =>
           s.worker_launch_status \in {"intent_recorded", "observed"}
    /\ s.state = "stopping" => /\ s.latched_reason # None
                               /\ ~s.completion_candidate
                               /\ s.completion_mode \in {"cooperative", "forced"}
    /\ s.process_exit_confirmed => Decided(s)
    /\ Decided(s) /\ ~s.process_exit_confirmed =>
           /\ s.worker_launch_status \in {"intent_recorded", "observed"}
           /\ s.resource_status = "committed"

Sound(s) ==
    /\ ValidSnapshot(s)
    /\ ~s.entity_exists => s = InitialSnapshot(s.job_id)
    /\ UndecidedFacts(s)
    /\ ProcessFacts(s)
    /\ CauseFacts(s)

-----------------------------------------------------------------------------
\* The first latched reason is final: no later cancel, terminate, timeout or Worker outcome
\* replaces it, and a terminal state never changes.
FirstCauseIsFinal ==
    [][/\ Latched => job'.latched_reason = job.latched_reason
       /\ IsTerminal(job.state) => job'.state = job.state]_vars

\* A closed Job has a confirmed process exit and stays closed: no later record reopens a Job that
\* retirement may drop, and none is dropped while its process may run.
ClosedIsStable == [][IsClosed(job) => job.process_exit_confirmed /\ IsClosed(job')]_vars

\* Documented monotonicity of cleanup: a recorded cleanup status is never replaced.
CleanupIsMonotonic ==
    [][job.cleanup_status # "pending" => job'.cleanup_status = job.cleanup_status]_vars

-----------------------------------------------------------------------------
\* While timers are delivered no wait lasts for ever: a Job leaves preparing and running, a
\* cooperative stop is escalated to a forced one unless the Job leaves stopping, and a terminal
\* Job has a confirmed exit or quarantined resources.
PhasesAreBounded ==
    /\ job.state = "preparing" ~> job.state # "preparing"
    /\ job.state = "running" ~> job.state # "running"
    /\ job.state = "stopping" ~> job.state # "stopping" \/ job.completion_mode = "forced"
    /\ IsTerminal(job.state) ~> job.process_exit_confirmed \/ "quarantine_resources" \in issued

=============================================================================
