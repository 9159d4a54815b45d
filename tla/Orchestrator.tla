---------------------------- MODULE Orchestrator ----------------------------
(***************************************************************************)
(* The single state writer of src/core/job_orchestrator.cpp.               *)
(*                                                                         *)
(* "ingress" is everything the ingress mutex guards; an operator on it is  *)
(* the critical section of the same name.  Producers submit from any       *)
(* thread.  The writer thread takes one queued entry at a time and goes    *)
(* through decide, commit, install, dispatch, release and complete, and    *)
(* producers run between any two of those steps.  "journal" is what        *)
(* ReplayJournal would compute from the durable records.                   *)
(*                                                                         *)
(* An entry is known by its completion slot instead of its ingress         *)
(* sequence.  The callback controls are in module Callbacks.               *)
(***************************************************************************)
EXTENDS Replay, Integers, FiniteSets, FiniteSetsExt, SequencesExt

CONSTANTS
    max_jobs,             \* resident Jobs; one spare slot exists beside them
    normal_capacity,      \* queued entries that are not critical
    completion_capacity,  \* completions not yet taken by their callers
    History,              \* the records the first process finds in its Journal
    Inputs(_),            \* what producers submit for a Job
    Environment,          \* what else may happen, see Next
    MaxOutstanding,       \* bound: producers stop at this many untaken completions
    MaxLeases,            \* bound: source leases that are out at the same time
    MaxSequence,          \* UINT64_MAX of the Journal sequence, scaled down
    MaxGeneration         \* UINT64_MAX of a timer generation, scaled down

VARIABLES ingress, writer, journal

vars == <<ingress, writer, journal>>

Slots == 1..(max_jobs + 1)
Gates == {"terminate", "worker", "process_exit", "resources_released", "cleanup"} \cup Phases
critical_reserve == 9 * (max_jobs + 1) + 1
total_capacity == normal_capacity + critical_reserve
Tags == 1..completion_capacity
\* Mutant: the effect buffer is one short.
k_max_prepared_effects_three == 3

k_max_prepared_effects == 4

ASSUME CapacityAssumption ==
    /\ max_jobs \in Nat \ {0}
    /\ normal_capacity \in Nat \ {0}
    /\ completion_capacity \in Nat
    /\ completion_capacity >= total_capacity
    /\ MaxOutstanding \in Nat
    /\ MaxLeases \in Nat
    /\ MaxSequence \in Nat \ {0}
    /\ MaxGeneration \in Nat \ {0}

\* lease: "protocol" for Retain*Lease, "held" or "acquired" for an exported source lease that
\* found or took the gate's permit.  queued is the tag of the gate's entry, 0 for none.
NoGate == [registered |-> FALSE, permit |-> FALSE, retained |-> FALSE, ack_authorized |-> FALSE,
           lease |-> "none", queued |-> 0, retire_requested |-> FALSE]

\* id is None for a slot that is not reserved; worker_event is the identity that the Worker
\* gate retains.
EmptySlot(generation) ==
    [id |-> None, exists |-> FALSE, ticket |-> FALSE, claimed |-> FALSE, created_sequence |-> 0,
     claims |-> 0, snapshot |-> None, worker_event |-> None, timer_generation |-> generation,
     gates |-> [g \in Gates |-> NoGate]]

\* A dequeued or queued input.  slot and gate are 0 and None for one that owns neither.
NoEntry == [event |-> None, tag |-> 0, critical |-> FALSE, gate |-> None, slot |-> 0,
            victim |-> 0]
NoTurn == [phase |-> "idle", entry |-> NoEntry, slot |-> 0, proposal |-> None,
           sequence |-> 0, effects |-> <<>>]

CommandInputs(j) == [type : CommandTypes, job_id : {j}]
CriticalTypes == {"timeout_expired", "worker_completed", "worker_failed",
                  "process_exit_confirmed", "resources_released", "cleanup_status_recorded"}
-----------------------------------------------------------------------------
(* Critical sections on the residents and their gates.  m is the ingress   *)
(* state, i a slot, g a gate, x an entry.                                  *)

FailLocked(m) == [m EXCEPT !.failed = TRUE]

\* The slot of Job j, 0 when there is none.
Find(m, j) == LET found == {i \in Slots : m.slots[i].id = j}
              IN  IF found = {} THEN 0 ELSE Min(found)

Owned(gate) == gate.queued # 0 \/ gate.lease # "none"

\* Mutant: a queued or leased gate does not keep the slot.
HasOwnershipClaimsOnly(slot) == slot.claims # 0

HasOwnership(slot) == slot.claims # 0 \/ \E g \in Gates : Owned(slot.gates[g])

Exported(gate) == gate.lease \in {"held", "acquired"}

HasSourceLeaseOwners(m) == \E i \in Slots, g \in Gates : Exported(m.slots[i].gates[g])

\* What ReleaseUnusedGateLocked leaves of a gate.
Unused(gate, g) ==
    IF Owned(gate) \/ gate.retained THEN gate
    ELSE [NoGate EXCEPT !.registered = gate.registered /\ ~(gate.retire_requested /\ g \in Phases),
                        !.ack_authorized = gate.ack_authorized]

Permits(gates) == Cardinality({g \in Gates : gates[g].permit})

\* Replaces gates of slot i; a permit that goes with them leaves the critical count.
WithGates(m, i, gates) ==
    [m EXCEPT !.slots[i].gates = gates,
              !.slots[i].worker_event = IF Owned(gates["worker"]) \/ gates["worker"].retained
                                        THEN @ ELSE None,
              !.critical_count = @ - Permits(m.slots[i].gates) + Permits(gates)]

ReleaseUnusedGateLocked(m, i, g) ==
    WithGates(m, i, [m.slots[i].gates EXCEPT ![g] = Unused(@, g)])

\* A cancelled or retired source: only an exported lease still holds the gate.
Cancelled(gate) ==
    [gate EXCEPT !.retained = FALSE, !.ack_authorized = FALSE, !.retire_requested = TRUE,
                 !.lease = IF @ = "protocol" THEN "none" ELSE @]

RetireWorkerProtocolLocked(m, i) ==
    WithGates(m, i, [m.slots[i].gates EXCEPT !["worker"] = Unused(Cancelled(@), "worker")])

CancelGatesLocked(m) ==
    LET gates(i) == [g \in Gates |-> Unused(Cancelled(m.slots[i].gates[g]), g)]
    IN  FoldSet(LAMBDA i, n : WithGates(n, i, gates(i)), m, Slots)

\* A disarm: an owned registration stays until its owner lets go.
RetireGateLocked(m, i, g) ==
    LET gate == [m.slots[i].gates[g] EXCEPT !.retire_requested = TRUE]
        idle == ~gate.retained /\ gate.lease = "none"
    IN  WithGates(m, i, [m.slots[i].gates EXCEPT
            ![g] = IF idle THEN Unused([gate EXCEPT !.registered = @ /\ g \notin Phases], g)
                   ELSE gate])

\* Mutant: the permits of the slot's gates are not given back.
ResetSlotLockedLeaks(m, i, advance) ==
    [m EXCEPT !.slots[i] =
        EmptySlot([p \in Phases |-> m.slots[i].timer_generation[p] + advance])]

ResetSlotLocked(m, i, advance) ==
    LET generation == [p \in Phases |-> m.slots[i].timer_generation[p] + advance]
    IN  [WithGates(m, i, [g \in Gates |-> NoGate]) EXCEPT !.slots[i] = EmptySlot(generation)]

ResetUnowned(m, i) ==
    IF m.slots[i].exists \/ HasOwnership(m.slots[i]) THEN m ELSE ResetSlotLocked(m, i, 0)

IsCreation(x) == x.event.type = "job_created"

ReleaseCreationClaimLocked(m, x) ==
    LET unclaimed == IF x.victim = 0 THEN m
                     ELSE [m EXCEPT !.slots[x.victim].claimed = FALSE]
    IN  IF ~IsCreation(x) THEN unclaimed
        ELSE ResetUnowned([unclaimed EXCEPT !.slots[x.slot].claims = @ - 1], x.slot)

\* Mutant: a committed Worker event is acknowledged at once.
ReleaseGateLockedAcks(m, x, successful) ==
    LET gates == m.slots[x.slot].gates
    IN  IF ~x.critical THEN [m EXCEPT !.normal_count = @ - 1]
        ELSE WithGates(m, x.slot, [gates EXCEPT ![x.gate] =
                 [@ EXCEPT !.queued = 0, !.retained = successful /\ x.gate = "worker",
                           !.ack_authorized = successful /\ x.gate = "worker"]])

ReleaseGateLocked(m, x, successful) ==
    LET gates == m.slots[x.slot].gates
        gate == [gates[x.gate] EXCEPT !.queued = 0]
        exited == IF x.gate = "process_exit" /\ successful
                  THEN RetireWorkerProtocolLocked(m, x.slot) ELSE m
        retired == [gate EXCEPT !.registered = @ /\ x.gate \notin Phases,
                                !.retire_requested = TRUE]
    IN  CASE ~x.critical -> [m EXCEPT !.normal_count = @ - 1]
          [] x.critical /\ x.event.type = "shutdown" -> m
          [] x.critical /\ x.event.type # "shutdown" ->
                IF gates[x.gate].queued # x.tag THEN FailLocked(m)
                ELSE IF x.gate = "worker" /\ successful
                THEN WithGates(m, x.slot, [gates EXCEPT !["worker"] =
                         [gate EXCEPT !.retained = TRUE, !.retire_requested = FALSE]])
                ELSE ResetUnowned(
                         WithGates(exited, x.slot, [exited.slots[x.slot].gates EXCEPT
                             ![x.gate] = Unused(retired, x.gate)]), x.slot)

CompleteLocked(m, x) ==
    IF x.tag \in m.completed THEN m
    ELSE IF x.tag \notin m.pending THEN FailLocked(m)
    ELSE [m EXCEPT !.pending = @ \ {x.tag}, !.completed = @ \cup {x.tag},
                   !.in_flight = IF @ = x.tag THEN 0 ELSE @]

-----------------------------------------------------------------------------
(* Resident slots.                                                         *)

OrdinaryFree(m) == {i \in Slots \ {m.spare_index} : m.slots[i].id = None}

\* Mutant: the newest closed resident.
OldestVictimNewest(m) ==
    LET closed == {i \in Slots : m.slots[i].exists /\ IsClosed(m.slots[i].snapshot)}
    IN  {i \in closed : \A k \in closed :
                            m.slots[i].created_sequence >= m.slots[k].created_sequence}

\* The closed residents with the smallest creation sequence: none or one.
OldestVictim(m) ==
    LET closed == {i \in Slots : m.slots[i].exists /\ IsClosed(m.slots[i].snapshot)}
    IN  {i \in closed : \A k \in closed :
                            m.slots[i].created_sequence <= m.slots[k].created_sequence}

\* Mutant: a ticket is given out without a closed resident to retire.
CanReserveAlways(m) == OrdinaryFree(m) # {} \/ m.slots[m.spare_index].id = None

CanReserve(m) ==
    \/ OrdinaryFree(m) # {}
    \/ m.slots[m.spare_index].id = None /\ OldestVictim(m) # {}

RegisterGateLocked(m, i, g) ==
    IF m.slots[i].gates[g].registered /\ m.slots[i].gates[g].permit THEN m
    ELSE IF m.critical_count >= critical_reserve THEN FailLocked(m)
    ELSE WithGates(m, i, [m.slots[i].gates EXCEPT
             ![g].registered = TRUE, ![g].retire_requested = FALSE, ![g].permit = TRUE])

\* The provisional slot of a new Job: an ordinary one, else the spare with a ticket.
Reserve(m, j) ==
    LET ordinary == OrdinaryFree(m)
        i == IF ordinary = {} THEN m.spare_index ELSE Min(ordinary)
    IN  RegisterGateLocked(
            [m EXCEPT !.slots[i] = [@ EXCEPT !.id = j, !.ticket = (ordinary = {}), !.claims = 1,
                                             !.snapshot = InitialSnapshot(j)]], i, "terminate")

\* What a ticket comes to at its turn: proceed, refuse or fail, and the claimed victim.
SelectRetirementLocked(m, x) ==
    LET committed == Cardinality({i \in Slots : m.slots[i].exists})
        ordinary == OrdinaryFree(m)
        victim == Min(OldestVictim(m))
        verdict(v, n, k) == [verdict |-> v, ingress |-> n, victim |-> k]
    IN  IF ~m.slots[x.slot].ticket THEN verdict("proceed", m, 0)
        ELSE IF committed < max_jobs
        THEN IF ordinary = {} THEN verdict("refuse", m, 0)
             ELSE verdict("proceed", [m EXCEPT !.spare_index = Min(ordinary),
                                               !.slots[x.slot].ticket = FALSE], 0)
        ELSE IF OldestVictim(m) = {} THEN verdict("fail", m, 0)
        ELSE IF HasOwnership(m.slots[victim]) THEN verdict("refuse", m, 0)
        ELSE verdict("proceed", [m EXCEPT !.slots[victim].claimed = TRUE], victim)

-----------------------------------------------------------------------------
(* Admission.                                                              *)

\* Whether AcquireGateLocked would give out a lease on the gate.
Leasable(m, i, g) ==
    /\ ~m.failed /\ ~m.recovery_closed
    /\ ~m.slots[i].claimed
    /\ m.mode \in {"running", "quiescing", "draining"}
    /\ m.slots[i].gates[g].registered

\* A gate about to be owned has a permit, or the service fails.
TakePermit(m, i, g) ==
    IF m.slots[i].gates[g].permit THEN m
    ELSE IF m.critical_count >= critical_reserve THEN FailLocked(m)
    ELSE WithGates(m, i, [m.slots[i].gates EXCEPT ![g].permit = TRUE])

GateFor(e) ==
    CASE e.type = "timeout_expired" -> e.phase
      [] e.type \in {"worker_completed", "worker_failed"} -> "worker"
      [] e.type = "process_exit_confirmed" -> "process_exit"
      [] e.type = "cleanup_status_recorded" -> "cleanup"
      [] OTHER -> e.type

Full(m) == Len(m.fifo) = total_capacity \/ m.pending \cup m.completed = Tags

\* Inserts an entry that owns a completion slot, and slot i when it is not 0.
Push(m, e, critical, i) ==
    LET tag == Min(Tags \ (m.pending \cup m.completed))
        gate == IF critical /\ e.type # "shutdown" THEN GateFor(e) ELSE None
    IN  [m EXCEPT !.fifo = Append(@, [event |-> e, tag |-> tag, critical |-> critical,
                                      gate |-> gate, slot |-> i, victim |-> 0]),
                  !.pending = @ \cup {tag},
                  !.normal_count = IF critical THEN @ ELSE @ + 1]

AdmitCreation(m, e, known) ==
    LET reserved == IF known
                    THEN [m EXCEPT !.slots[Find(m, e.job_id)].claims = @ + 1]
                    ELSE Reserve(m, e.job_id)
        slot == CHOOSE i \in Slots : reserved.slots[i].id = e.job_id /\ ~reserved.slots[i].claimed
    IN  Push(reserved, e, FALSE, slot)

\* A Worker event occupies its gate until its acknowledgement or the confirmed exit.
Occupied(slot, g) ==
    \/ slot.gates[g].queued # 0
    \/ g = "worker" /\ slot.gates[g].retained /\ slot.worker_event # None

AdmitCritical(m, e) ==
    LET i == Find(m, e.job_id)
        g == GateFor(e)
        gate == m.slots[i].gates[g]
        permitted == TakePermit(m, i, g)
        pushed == Push(permitted, e, TRUE, i)
    IN  IF i = 0 \/ ~gate.registered THEN FailLocked(m)
        ELSE IF \/ Occupied(m.slots[i], g)
                \/ ~Leasable(m, i, g)
                \/ gate.lease # "none" /\ ~gate.retained
        THEN m
        ELSE IF permitted.failed THEN permitted
        ELSE [pushed EXCEPT
                 !.slots[i].gates[g] = [@ EXCEPT
                     !.queued = Last(pushed.fifo).tag, !.retire_requested = FALSE,
                     !.ack_authorized = @ /\ g # "worker"],
                 !.slots[i].worker_event = IF g = "worker" THEN e ELSE @]

Enqueue(m, e) ==
    LET i == Find(m, e.job_id)
        known == i # 0 /\ ~m.slots[i].claimed
        critical == e.type \in CriticalTypes \/ (e.type = "terminate" /\ known)
        creation == e.type = "job_created"
    IN  IF \/ m.failed \/ m.recovery_closed \/ m.mode \in {"sealed", "stopped"}
           \/ ~critical /\ m.mode \in {"quiescing", "draining"}
           \/ creation /\ ~known /\ ~CanReserve(m)
           \/ ~critical /\ m.normal_count >= normal_capacity
        THEN m
        ELSE IF Full(m) THEN FailLocked(m)
        ELSE IF critical THEN AdmitCritical(m, e)
        ELSE IF creation THEN AdmitCreation(m, e, known)
        ELSE Push(m, e, FALSE, 0)

-----------------------------------------------------------------------------
(* Failure and sealing.                                                    *)

Quiet(m) == m.fifo = <<>> /\ m.in_flight = 0

\* Mutant: the permit of the shutdown gate is not given back.
RetiredLeaks(m) == [CancelGatesLocked(m) EXCEPT !.shutdown = "retired"]

\* Every gate and the shutdown gate are retired.
Retired(m) == LET n == CancelGatesLocked(m)
              IN  [n EXCEPT !.critical_count = IF m.shutdown = "pending" THEN @ - 1 ELSE @,
                            !.shutdown = "retired"]

\* Mutant: seals although an entry is queued or in flight.
TrySealFailureBusy(m) ==
    IF HasSourceLeaseOwners(m) THEN m
    ELSE [Retired(m) EXCEPT !.mode = "sealed", !.source_seal_pending = FALSE]

TrySealFailure(m) ==
    IF ~Quiet(m) \/ HasSourceLeaseOwners(m) THEN m
    ELSE [Retired(m) EXCEPT !.mode = "sealed", !.source_seal_pending = FALSE]

\* What every submission and every turn ends with once the failure is latched.
RetryLatchedFailure(m) ==
    IF ~m.failed \/ m.mode \in {"sealed", "stopped"} THEN m
    ELSE TrySealFailure([m EXCEPT !.mode = "quiescing"])

FinishShutdown(m) ==
    LET quiet == Retired(m)
    IN  IF \/ ~(m.failed \/ (m.marker_processed /\ m.mode = "draining"))
           \/ ~Quiet(m) \/ m.normal_count # 0
        THEN m
        ELSE IF HasSourceLeaseOwners(m)
        THEN [m EXCEPT !.source_seal_pending = @ \/ ~m.failed]
        ELSE IF quiet.critical_count # 0 THEN RetryLatchedFailure(FailLocked(quiet))
        ELSE [quiet EXCEPT !.mode = "sealed", !.source_seal_pending = FALSE]

RetryDeferredSealing(m) ==
    LET n == RetryLatchedFailure(m)
    IN  IF n.source_seal_pending /\ ~n.failed THEN FinishShutdown(n) ELSE n

DisposeLocked(m, x) ==
    CompleteLocked(ReleaseGateLocked(ReleaseCreationClaimLocked(m, x), x, FALSE), x)

\* Mutant: the queue is dropped without completing its entries.
DisposeQueuedLockedSilent(m) == [m EXCEPT !.fifo = <<>>]

DisposeQueuedLocked(m) == [FoldLeft(DisposeLocked, m, m.fifo) EXCEPT !.fifo = <<>>]

FailTurn(m, x) == DisposeQueuedLocked(CancelGatesLocked(DisposeLocked(FailLocked(m), x)))

-----------------------------------------------------------------------------
(* The Journal as replay folds it.  A Job is known by its creation record. *)

Known(log, j) == {k \in DOMAIN log.jobs : log.jobs[k].snapshot.job_id = j}

\* Mutant: replay retires one Job too late.
ReplayLineLate(log, r, sequence) ==
    LET known == Known(log, r.job_id)
        after == ReplayRecord(IF known = {} THEN None ELSE log.jobs[Min(known)].snapshot, r)
    IN  IF known # {} THEN [log EXCEPT !.jobs[Min(known)].snapshot = after, !.last = sequence]
        ELSE [log EXCEPT !.last = sequence,
                         !.jobs = Append(@, [snapshot |-> after, created_sequence |-> sequence])]

ReplayLine(log, r, sequence) ==
    LET known == Known(log, r.job_id)
        at == Min(known)
        after == ReplayRecord(IF known = {} THEN None ELSE log.jobs[at].snapshot, r)
        closed == {k \in DOMAIN log.jobs : IsClosed(log.jobs[k].snapshot)}
        oldest == CHOOSE k \in closed : \A l \in closed :
                      log.jobs[k].created_sequence <= log.jobs[l].created_sequence
        full == Len(log.jobs) >= max_jobs
        kept == IF full THEN RemoveAt(log.jobs, oldest) ELSE log.jobs
    IN  IF log.refused \/ after = None \/ (known = {} /\ full /\ closed = {})
        THEN [log EXCEPT !.refused = TRUE]
        ELSE IF known # {} THEN [log EXCEPT !.jobs[at].snapshot = after, !.last = sequence]
        ELSE [log EXCEPT !.last = sequence,
                         !.jobs = Append(kept, [snapshot |-> after, created_sequence |-> sequence])]

Successor(sequence) == IF sequence = MaxSequence THEN 0 ELSE sequence + 1

-----------------------------------------------------------------------------
(* A process starts on the replayed Journal.                               *)

Seeded(log, i) ==
    LET empty == EmptySlot([p \in Phases |-> 0])
    IN  IF i > Len(log.jobs) THEN empty
        ELSE [empty EXCEPT !.id = log.jobs[i].snapshot.job_id, !.exists = TRUE,
                           !.snapshot = log.jobs[i].snapshot,
                           !.created_sequence = log.jobs[i].created_sequence,
                           !.gates["terminate"].registered = TRUE,
                           !.gates["terminate"].permit = TRUE]

Seed(log) ==
    [slots |-> [i \in Slots |-> Seeded(log, i)], spare_index |-> max_jobs + 1,
     critical_count |-> Len(log.jobs), normal_count |-> 0, fifo |-> <<>>, in_flight |-> 0,
     pending |-> {}, completed |-> {}, mode |-> "running", failed |-> FALSE,
     recovery_closed |-> \E k \in DOMAIN log.jobs : IsUnresolved(log.jobs[k].snapshot),
     marker_processed |-> FALSE, shutdown |-> "registered", source_seal_pending |-> FALSE,
     next_journal |-> Successor(log.last)]

Init ==
    /\ journal = FoldLeft(LAMBDA log, r : ReplayLine(log, r, log.last + 1),
                          [jobs |-> <<>>, last |-> 0, refused |-> FALSE], History)
    /\ ingress = Seed(journal)
    /\ writer = NoTurn

\* The process ends, by a crash or by its destructor, and a new one starts.
Restart ==
    /\ "restart" \in Environment
    /\ ~journal.refused /\ journal.last # MaxSequence
    /\ ingress' = Seed(journal)
    /\ writer' = NoTurn
    /\ UNCHANGED journal

-----------------------------------------------------------------------------
(* Producers.  Each ends with the failure continuation of FailureExit.     *)

Produce(m) ==
    /\ ingress' = RetryLatchedFailure(m)
    /\ UNCHANGED <<writer, journal>>

Room == Cardinality(ingress.pending \cup ingress.completed) < MaxOutstanding

\* A source submits a critical fact through a registered gate, unless it is a stray.
HasSource(e) ==
    LET i == Find(ingress, e.job_id)
    IN  e.type \in CriticalTypes /\ "stray" \notin Environment =>
            i # 0 /\ ingress.slots[i].gates[GateFor(e)].registered

\* SubmitCandidate and SubmitCommand; CreateWith submits a job_created.
Submit(e) ==
    /\ Room /\ HasSource(e)
    /\ Produce(Enqueue(ingress, e))

\* What a timer notification comes to; None stands for an identifier that is not a UUID.
IngestTimer(m, j, phase, generation) ==
    LET slot == m.slots[Find(m, j)]
    IN  IF j = None THEN "fail_closed"
        ELSE IF \/ Find(m, j) = 0
                \/ ~slot.gates[phase].registered
                \/ generation # slot.timer_generation[phase] \/ generation = 0
        THEN "discard_without_candidate"
        ELSE "emit_candidate_event"

\* The decision of IngestTimer is repeated under the lock of the insertion.  What throws on the
\* way latches the failure.
SubmitTimeout(j, phase, generation) ==
    LET kind == IngestTimer(ingress, j, phase, generation)
        closed == \/ ingress.failed \/ ingress.recovery_closed
                  \/ \E i \in Slots : ingress.slots[i].id = j /\ ingress.slots[i].claimed
    IN  /\ "timer" \in Environment
        /\ Room
        /\ \/ Produce(IF closed \/ kind = "discard_without_candidate" THEN ingress
                      ELSE IF kind = "fail_closed" THEN FailLocked(ingress)
                      ELSE Enqueue(ingress, [type |-> "timeout_expired", job_id |-> j,
                                             phase |-> phase, timer_generation |-> generation]))
           \/ "latch" \in Environment /\ Produce(FailLocked(ingress))

\* An identity source that fails, a producer that throws, or a callback that reports one.  A
\* stopped writer latches it too, and stays stopped.
LatchReadinessFailure ==
    /\ "latch" \in Environment
    /\ Produce(FailLocked(ingress))

\* Mutant: a marker is admitted in every mode.
SubmitShutdownAgain ==
    /\ "shutdown" \in Environment
    /\ Room
    /\ ~ingress.failed
    /\ Produce([Push(ingress, [type |-> "shutdown", job_id |-> None], TRUE, 0) EXCEPT
                   !.mode = "quiescing", !.shutdown = "pending", !.critical_count = @ + 1])

SubmitShutdown ==
    LET m == ingress
        marker == [Push(m, [type |-> "shutdown", job_id |-> None], TRUE, 0) EXCEPT
                      !.mode = "quiescing", !.shutdown = "pending", !.critical_count = @ + 1]
    IN  /\ "shutdown" \in Environment
        /\ Room
        /\ ~m.failed /\ ~m.recovery_closed /\ m.mode = "running"
        /\ Produce(IF Full(m) \/ m.critical_count >= critical_reserve THEN FailLocked(m)
                   ELSE marker)

BeginShutdown ==
    /\ "shutdown" \in Environment
    /\ ingress.failed \/ ingress.marker_processed
    /\ ingress.mode # "stopped"
    /\ ingress' = FinishShutdown(ingress)
    /\ UNCHANGED <<writer, journal>>

\* The destructor's Stop, which only the sealed mode records.
Stop ==
    /\ "shutdown" \in Environment
    /\ ingress.mode = "sealed" /\ Quiet(ingress) /\ writer.phase = "idle"
    /\ ingress' = [ingress EXCEPT !.mode = "stopped"]
    /\ UNCHANGED <<writer, journal>>

AcquireSourceLease(i, g) ==
    LET gate == ingress.slots[i].gates[g]
        permitted == TakePermit(ingress, i, g)
    IN  /\ "lease" \in Environment
        /\ Cardinality({s \in Slots \X Gates :
                           Exported(ingress.slots[s[1]].gates[s[2]])}) < MaxLeases
        /\ Leasable(ingress, i, g) /\ gate.lease = "none" /\ g # "terminate"
        /\ Produce(IF permitted.failed THEN permitted
                   ELSE [permitted EXCEPT !.slots[i].gates[g].lease =
                            IF gate.permit THEN "held" ELSE "acquired"])

\* Mutant: the return does not retry a deferred seal.
ReturnSourceLeaseForgets(i, g) ==
    LET gate == ingress.slots[i].gates[g]
        returned == [ingress EXCEPT !.slots[i].gates[g].lease = "none"]
    IN  /\ Exported(gate)
        /\ ingress' = ResetUnowned(ReleaseUnusedGateLocked(returned, i, g), i)
        /\ UNCHANGED <<writer, journal>>

ReturnSourceLease(i, g) ==
    LET gate == ingress.slots[i].gates[g]
        returned == [ingress EXCEPT !.slots[i].gates[g].lease = "none"]
        released == IF gate.lease = "acquired" \/ gate.retire_requested
                    THEN ReleaseUnusedGateLocked(returned, i, g) ELSE returned
    IN  /\ Exported(gate)
        /\ ingress' = RetryDeferredSealing(ResetUnowned(released, i))
        /\ UNCHANGED <<writer, journal>>

\* RetainTimerLease, RetainWorkerLease and the other Retain*Lease operations.
RetainGate(i, g) ==
    LET gate == ingress.slots[i].gates[g]
    IN  /\ "retain" \in Environment
        /\ Leasable(ingress, i, g) /\ gate.lease = "none" /\ g # "terminate"
        /\ gate.permit /\ ~gate.retained /\ ingress.mode # "draining"
        /\ Produce([ingress EXCEPT !.slots[i].gates[g].lease = "protocol",
                                  !.slots[i].gates[g].retained = TRUE])

\* The adapter has delivered the acknowledgement of exactly the retained event.
RetireWorkerAck(i) ==
    /\ ingress.slots[i].gates["worker"].retained
    /\ ingress.slots[i].gates["worker"].ack_authorized
    /\ ingress.slots[i].worker_event # None
    /\ ingress' = RetireWorkerProtocolLocked(ingress, i)
    /\ UNCHANGED <<writer, journal>>

\* AwaitCompletion and TakeCompletion free the caller's completion slot.
TakeCompletion(tag) ==
    /\ tag \in ingress.completed
    /\ ingress' = [ingress EXCEPT !.completed = @ \ {tag}]
    /\ UNCHANGED <<writer, journal>>

-----------------------------------------------------------------------------
(* The writer thread: one turn from dequeue to completion.                 *)

\* Ends a turn; Run then retries a deferred seal.
EndTurn(m) ==
    /\ ingress' = RetryDeferredSealing(m)
    /\ writer' = NoTurn

\* Enters the release of a turn that wrote nothing; x is completed in the next step.
Withdraw(m, x) ==
    /\ ingress' = ReleaseGateLocked(ReleaseCreationClaimLocked(m, x), x, FALSE)
    /\ writer' = [NoTurn EXCEPT !.phase = "complete", !.entry = x]

Decision(x, before) ==
    IF x.event.type \in CommandTypes THEN DecideCommand(before, x.event.job_id, x.event.type)
    ELSE IF IsCreation(x) /\ x.event.session_id # x.event.job_id
    THEN Reject("invalid_event_payload")
    ELSE DecideEvent(before, x.event)

Before(m, j) == LET i == Find(m, j)
                IN  IF i = 0 THEN InitialSnapshot(j) ELSE m.slots[i].snapshot

\* A validated turn: a creation first settles its ticket, then the reducer decides.
Decide(m, x) ==
    LET selection == IF IsCreation(x) THEN SelectRetirementLocked(m, x)
                     ELSE [verdict |-> "proceed", ingress |-> m, victim |-> 0]
        n == selection.ingress
        y == [x EXCEPT !.victim = selection.victim]
        decision == Decision(y, Before(n, x.event.job_id))
    IN  CASE selection.verdict = "refuse" ->
                EndTurn(DisposeLocked(m, x))
          [] selection.verdict = "fail" -> EndTurn(FailTurn(m, x))
          [] selection.verdict = "proceed" ->
                IF Accepted(decision)
                THEN /\ ingress' = n
                     /\ writer' = [NoTurn EXCEPT !.phase = "decided", !.entry = y,
                                                 !.slot = Find(n, x.event.job_id),
                                                 !.proposal = decision.proposal]
                ELSE Withdraw(n, y)

\* Dequeue authorizes the turn unless the failure is latched by then.
Dequeue ==
    LET x == Head(ingress.fifo)
        m == [ingress EXCEPT !.fifo = Tail(@), !.in_flight = x.tag]
    IN  /\ writer.phase = "idle" /\ ingress.fifo # <<>>
        /\ CASE x.event.type = "shutdown" ->
                    EndTurn(CompleteLocked(
                        IF m.failed THEN m
                        ELSE [m EXCEPT !.mode = "draining", !.marker_processed = TRUE], x))
             [] x.event.type # "shutdown" ->
                    IF m.failed THEN EndTurn(DisposeLocked(m, x)) ELSE Decide(m, x)
        /\ UNCHANGED journal

\* Mutant: an armed timer's gate is not registered.
PlanDerivedSourcesUntimed(record, effects) == {"terminate"}

\* The derived sources of a committed event, registered when it is installed.
PlanDerivedSources(record, effects) ==
    {"terminate"}
    \cup {g \in {"resources_released"} : record.type = "resources_committed"}
    \cup {g \in {"worker", "process_exit"} : record.type = "worker_launch_intent"}
    \cup {g \in {"cleanup"} : record.type = "terminal_outcome_committed"}
    \cup {p \in Phases : ArmEffect(p) \in ToSet(effects)}

ActivateSourcesLocked(m, i, sources) ==
    WithGates(m, i, [g \in Gates |->
        IF g \notin sources THEN m.slots[i].gates[g]
        ELSE [m.slots[i].gates[g] EXCEPT !.registered = TRUE, !.retire_requested = FALSE,
                                         !.permit = TRUE]])

\* What is checked once the decision is accepted and before the Journal is called.
CannotMaterialize(m, x, i, applied) ==
    LET generation(k) == {m.slots[k].timer_generation[p] : p \in Phases}
        activated == ActivateSourcesLocked(m, i, PlanDerivedSources(writer.proposal, applied.effects))
        effects == ToSet(applied.effects)
    IN  \/ m.next_journal = 0
        \/ x.victim # 0 /\ MaxGeneration \in generation(x.victim)
        \/ applied.rejection # None
        \/ Len(applied.effects) > k_max_prepared_effects
        \/ \E p \in Phases : ArmEffect(p) \in effects
                            /\ m.slots[i].timer_generation[p] = MaxGeneration
        \/ /\ effects \cap {"request_cooperative_stop", "request_forced_stop"} # {}
           /\ None \in {applied.snapshot.launch_operation_id, applied.snapshot.worker_id}
        \/ activated.critical_count > critical_reserve

Prospective == Apply(Before(ingress, writer.entry.event.job_id), writer.proposal)

\* The sequence is consumed before the Journal is called.
Stamped == [ingress EXCEPT !.next_journal = Successor(@)]

Appended == ReplayLine(journal, writer.proposal, ingress.next_journal)

FailPrepare ==
    /\ writer.phase = "decided"
    /\ CannotMaterialize(ingress, writer.entry, writer.slot, Prospective)
    /\ EndTurn(FailTurn(ingress, writer.entry))
    /\ UNCHANGED journal

Commit ==
    /\ writer.phase = "decided"
    /\ ~CannotMaterialize(ingress, writer.entry, writer.slot, Prospective)
    /\ journal' = Appended
    /\ ingress' = Stamped
    /\ writer' = [writer EXCEPT !.phase = "committed", !.sequence = ingress.next_journal]

\* A commit that is not known to have succeeded; the record may be durable all the same.
CommitFails ==
    /\ "journal_failure" \in Environment
    /\ writer.phase = "decided"
    /\ ~CannotMaterialize(ingress, writer.entry, writer.slot, Prospective)
    /\ journal' \in {journal, Appended}
    /\ EndTurn(FailTurn(Stamped, writer.entry))

\* The prepared bank becomes the Job's snapshot, and a victim's slot the new spare.
Install ==
    LET i == writer.slot
        victim == writer.entry.victim
        created == writer.proposal.type = "job_created"
        installed == [ingress EXCEPT !.slots[i] = [@ EXCEPT
                         !.exists = Prospective.snapshot.entity_exists,
                         !.snapshot = Prospective.snapshot,
                         !.created_sequence = IF created THEN writer.sequence ELSE @,
                         !.ticket = @ /\ ~created]]
        retired == IF victim = 0 THEN installed
                   ELSE [ResetSlotLocked(installed, victim, 1) EXCEPT !.spare_index = victim]
    IN  /\ writer.phase = "committed"
        /\ ingress' = ActivateSourcesLocked(retired, i,
                         PlanDerivedSources(writer.proposal, Prospective.effects))
        /\ writer' = [writer EXCEPT !.phase = "installed", !.effects = Prospective.effects]
        /\ UNCHANGED journal

\* One prepared effect; a handoff to the runner or the Session store leaves the ingress alone.
Dispatch ==
    LET effect == Head(writer.effects)
        i == writer.slot
    IN  /\ writer.phase = "installed" /\ writer.effects # <<>>
        /\ ingress' =
               CASE \E p \in Phases : effect = ArmEffect(p) ->
                        [ingress EXCEPT !.slots[i].timer_generation =
                            [p \in Phases |-> IF effect = ArmEffect(p) THEN @[p] + 1 ELSE @[p]]]
                 [] \E p \in Phases : effect = DisarmEffect(p) ->
                        RetireGateLocked(ingress, i, CHOOSE p \in Phases : effect = DisarmEffect(p))
                 [] effect \in {"ack_terminal_worker_event_if_pending", "ack_late_worker_event"} ->
                        [ingress EXCEPT !.slots[i].gates["worker"].ack_authorized = TRUE]
                 [] OTHER -> ingress
        /\ writer' = [writer EXCEPT !.effects = Tail(@)]
        /\ UNCHANGED journal

Release ==
    /\ writer.phase = "installed" /\ writer.effects = <<>>
    /\ ingress' = ReleaseGateLocked(ReleaseCreationClaimLocked(ingress, writer.entry),
                                    writer.entry, TRUE)
    /\ writer' = [NoTurn EXCEPT !.phase = "complete", !.entry = writer.entry]
    /\ UNCHANGED journal

Complete ==
    /\ writer.phase = "complete"
    /\ EndTurn(CompleteLocked(ingress, writer.entry))
    /\ UNCHANGED journal

\* Whom a timer notification may name: a stray one names nobody.
Notified == Jobs \cup {j \in {None} : "stray" \in Environment}

WriterStep == \/ Dequeue
              \/ FailPrepare
              \/ Commit
              \/ CommitFails
              \/ Install
              \/ Dispatch
              \/ Release
              \/ Complete

Next ==
    \/ \E j \in Jobs : \E e \in Inputs(j) : Submit(e)
    \/ \E j \in Notified, p \in Phases, n \in 0..MaxGeneration : SubmitTimeout(j, p, n)
    \/ \E i \in Slots, g \in Gates : \/ AcquireSourceLease(i, g)
                                     \/ ReturnSourceLease(i, g)
                                     \/ RetainGate(i, g)
    \/ \E i \in Slots : RetireWorkerAck(i)
    \/ \E tag \in Tags : TakeCompletion(tag)
    \/ LatchReadinessFailure
    \/ SubmitShutdown
    \/ BeginShutdown
    \/ Stop
    \/ WriterStep
    \/ Restart

Spec == Init /\ [][Next]_vars

\* The writer thread runs, and callers return the leases they hold: weak fairness of both,
\* with the enabling conditions spelled out.
Fairness ==
    /\ \/ []<>(writer.phase = "idle" /\ ingress.fifo = <<>>)
       \/ []<><<WriterStep>>_vars
    /\ \/ []<>(~HasSourceLeaseOwners(ingress))
       \/ []<><<\E i \in Slots, g \in Gates : ReturnSourceLease(i, g)>>_vars

FairSpec == Spec /\ Fairness

-----------------------------------------------------------------------------
(* Properties.                                                             *)

Closed(m) == m.mode \in {"sealed", "stopped"}

\* Entries between admission and their completion, and those that still own what they reserved.
Live == ToSet(ingress.fifo) \cup {x \in {writer.entry} : writer.phase # "idle"}
Owners == ToSet(ingress.fifo) \cup {x \in {writer.entry} : writer.phase \notin {"idle", "complete"}}

\* The critical count is exactly the permits that gates and the shutdown marker hold, it never
\* exceeds the reserve, and whatever is queued, leased or retained holds a permit; the normal
\* count is the number of normal entries.  No race between a producer that takes a permit, the
\* installation of new sources and a release leaks or invents one.
PermitsAreExact ==
    /\ ingress.critical_count =
           MapThenSumSet(LAMBDA i : Permits(ingress.slots[i].gates), Slots)
           + (IF ingress.shutdown = "pending" THEN 1 ELSE 0)
    /\ ingress.critical_count <= critical_reserve
    /\ \A i \in Slots, g \in Gates :
           LET gate == ingress.slots[i].gates[g]
           IN  Owned(gate) \/ gate.retained => gate.permit
    /\ ingress.normal_count = Cardinality({x \in Owners : ~x.critical})
    /\ ingress.normal_count <= normal_capacity

\* An entry keeps the slot, the gate and the completion it was admitted for until its turn
\* releases them: a creation's slot still carries its Job and counts its claim, a critical
\* entry's gate still names it, no gate stays queued for an entry that is gone, the completions
\* owed are those of the live entries, and from its claim to its reset a victim stays closed and
\* owned by nobody, whatever producers submit meanwhile.
EntriesKeepTheirSlot ==
    /\ \A x \in Owners :
        /\ IsCreation(x) => ingress.slots[x.slot].id = x.event.job_id
        /\ x.gate # None => /\ ingress.slots[x.slot].id = x.event.job_id
                            /\ ingress.slots[x.slot].gates[x.gate].queued = x.tag
    /\ \A i \in Slots :
        /\ ingress.slots[i].claims = Cardinality({x \in Owners : IsCreation(x) /\ x.slot = i})
        /\ \A g \in Gates : ingress.slots[i].gates[g].queued # 0 =>
               \E x \in Owners : x.slot = i /\ x.gate = g
    /\ writer.phase \in {"decided", "committed", "installed"} =>
           /\ ingress.slots[writer.slot].id = writer.entry.event.job_id
           /\ IsCreation(writer.entry) => writer.slot = writer.entry.slot
    /\ ingress.pending = {x.tag : x \in Live} /\ ingress.pending \cap ingress.completed = {}
    /\ \A i \in Slots : ingress.slots[i].claimed =>
           /\ ingress.slots[i].exists /\ IsClosed(ingress.slots[i].snapshot)
           /\ ~HasOwnership(ingress.slots[i])
           /\ writer.entry.victim = i

\* Retirement in memory and retirement in replay agree: replay never refuses what the writer
\* appended, and outside the window between commit and installation the residents are exactly
\* the Jobs, with the creation order, that a restart would replay.  The sequences of the records
\* only grow: none is ever appended with a sequence that has wrapped.
ResidentsAreReplayed ==
    /\ ~journal.refused
    /\ \A k, l \in DOMAIN journal.jobs :
           k < l => journal.jobs[k].created_sequence < journal.jobs[l].created_sequence
    /\ \A k \in DOMAIN journal.jobs : journal.jobs[k].created_sequence \in 1..journal.last
    /\ ~ingress.failed /\ writer.phase # "committed" =>
           {[snapshot |-> ingress.slots[i].snapshot,
             created_sequence |-> ingress.slots[i].created_sequence] :
                i \in {k \in Slots : ingress.slots[k].exists}} = ToSet(journal.jobs)

Exhausted ==
    \/ ingress.next_journal = 0
    \/ \E i \in Slots, p \in Phases : ingress.slots[i].timer_generation[p] = MaxGeneration

\* The service never fails by its own doing: with sources that deliver through their gates, a
\* Journal that commits and no reported failure, only an exhausted counter latches the failure.
\* In particular a retirement ticket always finds its closed Job, and no gate, permit,
\* completion or effect check before the commit ever trips.
FailureHasCause ==
    ingress.failed => Exhausted \/ Environment \cap {"latch", "journal_failure", "stray"} # {}

\* A sealed service holds nothing: no queued or in-flight entry, no permit, no exported lease.
\* And no sealing is forgotten: while a latched failure or a deferred shutdown has not sealed,
\* an entry, a turn or an exported lease remains, the end of which tries again.
SealsWhenQuiet ==
    /\ Closed(ingress) => /\ Quiet(ingress) /\ writer.phase = "idle"
                          /\ ingress.critical_count = 0 /\ ingress.normal_count = 0
                          /\ ~HasSourceLeaseOwners(ingress)
    /\ (ingress.failed \/ ingress.source_seal_pending) /\ ~Closed(ingress) =>
           ~Quiet(ingress) \/ writer.phase # "idle" \/ HasSourceLeaseOwners(ingress)

\* A timed state of a resident Job has its timer gate registered once its turn is over, so the
\* notification that bounds the state is not discarded.
EveryWaitHasItsGate ==
    ~ingress.failed /\ ~ingress.recovery_closed /\ ~Closed(ingress) =>
        \A i \in {k \in Slots : ingress.slots[k].exists} :
            LET s == ingress.slots[i].snapshot
                registered(p) == ingress.slots[i].gates[p].registered
            IN  /\ s.state = "preparing" => registered("preparation")
                /\ s.state = "running" => registered("execution")
                /\ s.state = "stopping" /\ s.completion_mode = "cooperative" =>
                       registered("cooperative_stop")
                /\ IsTerminal(s.state) =>
                       s.process_exit_confirmed \/ s.cleanup_status # "pending"
                           \/ registered("process_exit_confirmation")

\* The acknowledgement of a Worker's outcome can be delivered only when the terminal outcome
\* that rests on it is committed.
AckFollowsTerminalCommit ==
    \A i \in Slots :
        LET worker == ingress.slots[i].gates["worker"]
        IN  worker.retained /\ worker.ack_authorized /\ ingress.slots[i].worker_event # None
                /\ ingress.slots[i].snapshot.pending_worker_event_ack =>
            IsTerminal(ingress.slots[i].snapshot.state)

\* Documented: stale timer notifications never become Journal events.
StaleTimeoutIsNeverCommitted ==
    writer.phase = "committed" /\ writer.proposal.type = "timeout_expired" =>
        writer.proposal.timer_generation =
            ingress.slots[writer.slot].timer_generation[writer.proposal.phase]

\* The residents as a caller sees them, in the order of their creation records.
Stage(s) == IF IsClosed(s) THEN "closed"
            ELSE IF s.state \in {"admitted", "preparing", "running"} THEN "open"
            ELSE IF s.state = "stopping" THEN "stopping" ELSE "ended"
Residents ==
    LET slots == ingress.slots
        resident == {i \in Slots : slots[i].exists}
        older(i) == {k \in resident : slots[k].created_sequence < slots[i].created_sequence}
        at(n) == CHOOSE i \in resident : Cardinality(older(i)) = n - 1
    IN  [n \in 1..Cardinality(resident) |-> [job_id |-> slots[at(n)].id,
                                             stage |-> Stage(slots[at(n)].snapshot)]]

Service == INSTANCE JobService WITH residents <- Residents, failed <- ingress.failed

\* To its callers the writer is a bounded table of Jobs in creation order: a Job only goes
\* forward, it leaves only when a creation finds the table full, the one that leaves is the
\* oldest closed one, and a restart finds the same table but for one appended record.
ImplementsJobService == Service!ServiceSpec

\* A failure that is latched late never resurrects a sealed writer, and the failure latch and
\* the closed admission are sticky: only a new process admits again.
SealedIsFinal ==
    [][Restart \/
        /\ ingress.failed => ingress'.failed
        /\ Closed(ingress) => Closed(ingress') /\ ingress'.pending = {}
        /\ ingress.mode # "running" => /\ ingress'.mode # "running"
                                       /\ ingress'.normal_count <= ingress.normal_count]_vars

\* Every admitted entry is eventually completed: by its turn or by failure disposal.
EveryEntryCompletes ==
    \A tag \in 1..MaxOutstanding : tag \in ingress.pending ~> tag \notin ingress.pending

\* A latched failure eventually seals the service without anybody asking for it.
FailureSeals == ingress.failed ~> Closed(ingress)

=============================================================================
