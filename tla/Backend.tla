------------------------------ MODULE Backend -------------------------------
(***************************************************************************)
(* Phase1Backend of apps/sitometrond/composition.cpp on the API of the     *)
(* single state writer.  Its callers are threads: they wait for the        *)
(* completion of their own entry and read the residents and the resident   *)
(* index step by step, while the writer goes on with other entries.        *)
(*                                                                         *)
(* The writer is JobService with the queue and the completions that its    *)
(* callers see.  Order is order_ up to order_size_.                        *)
(***************************************************************************)
EXTENDS JobService, FiniteSets, FiniteSetsExt

CONSTANTS
    Callers,              \* threads that call the Backend
    normal_capacity,      \* queued entries
    completion_capacity,  \* completions not yet taken
    None

VARIABLES
    mode,         \* admission of the writer: running, recovery_closed or closed
    generating,   \* creation_generation_in_progress
    generated,    \* how many Job identities the identity source has given out
    fifo,         \* entries waiting for their turn
    in_flight,    \* the entry whose turn has begun, or None
    unknown,      \* the residents after a turn whose commit has an unknown outcome, or None
    completions,  \* entries whose completion nobody has taken, [tag, caller, code]
    order,        \* the resident index
    call          \* what each caller is doing

backend_vars == <<residents, failed, mode, generating, generated, fifo, in_flight, unknown,
                  completions, order, call>>

writer_vars ==
    <<residents, failed, mode, generating, generated, fifo, in_flight, unknown,
      completions>>

\* effect: the turn of this call has changed the residents; job: the Job it is about; at and
\* kept: positions in the resident index; seen: what a list or a readiness has read so far.
Idle == [op |-> None, pc |-> "idle", job |-> None, tag |-> 0, at |-> 0, kept |-> <<>>,
         seen |-> <<>>, effect |-> FALSE, code |-> None]

Tags == 1..completion_capacity
Admitted == ToSet(fifo) \cup ({in_flight} \ {None})
FreeTags == Tags \ {x.tag : x \in completions \cup Admitted}

Begin(c, op, job) ==
    /\ call[c].pc = "idle"
    /\ call' = [call EXCEPT ![c] = [Idle EXCEPT !.op = op, !.pc = op, !.job = job]]
    /\ UNCHANGED <<writer_vars, order>>

\* The call of c returns with a code.
Return(c, code) ==
    call' = [call EXCEPT ![c] = [Idle EXCEPT !.op = call[c].op, !.pc = "returned", !.code = code,
                                             !.effect = call[c].effect, !.seen = call[c].seen]]

To(c, pc) == call' = [call EXCEPT ![c].pc = pc]

\* What IngressStatus makes of a refused admission.
Admission(create) ==
    CASE failed -> "service_failed"
      [] ~failed /\ mode # "running" -> "not_ready"
      [] ~failed /\ mode = "running" /\ create /\ ~CanInstall(residents) -> "capacity_exhausted"
      [] ~failed /\ mode = "running" /\ (create => CanInstall(residents))
            /\ Len(fifo) >= normal_capacity -> "busy"
      [] OTHER -> "admitted"

\* Admits the entry of caller c, or returns its refusal.
Enqueue(c, op, job) ==
    LET code == Admission(op = "create")
        tag == Min(FreeTags)
    IN  IF code # "admitted" THEN Return(c, code) /\ UNCHANGED <<fifo, failed>>
        ELSE IF FreeTags = {}
        THEN Return(c, "service_failed") /\ failed' = TRUE /\ UNCHANGED fifo
        ELSE /\ fifo' = Append(fifo, [tag |-> tag, caller |-> c, op |-> op, job |-> job])
             /\ call' = [call EXCEPT ![c].pc = "await", ![c].tag = tag, ![c].job = job]
             /\ UNCHANGED failed

-----------------------------------------------------------------------------
(* The writer.                                                             *)

\* The completions of entries; a "fact" comes from a callback and has no caller.
Completed(entries, code) ==
    {[tag |-> x.tag, caller |-> x.caller, code |-> code] : x \in entries}

\* The turn in flight ends with a code; it may have changed the residents.
EndTurn(code) ==
    /\ in_flight' = None
    /\ completions' = completions \cup Completed({in_flight}, code)
    /\ call' = [c \in Callers |-> [call[c] EXCEPT
                   !.effect = @ \/ (c = in_flight.caller /\ residents' # residents)]]

CreateTurn ==
    \/ /\ CanInstall(residents)
       /\ residents' = Installed(residents, in_flight.job)
       /\ EndTurn("success")
    \/ /\ Len(residents) = max_jobs  \* the oldest closed Job is owned by a lease or an entry
       /\ UNCHANGED residents
       /\ EndTurn("resident_limit")

CancelTurn ==
    LET j == in_flight.job
        code == IF ~IsResident(residents, j) THEN "job_not_found"
                ELSE CASE StageOf(residents, j) = "open" -> "success"
                       [] StageOf(residents, j) = "stopping" -> "stop_cause_already_latched"
                       [] OTHER -> "command_not_allowed_in_state"
    IN  /\ IF code = "success"
           THEN \E stage \in {"stopping", "ended"} : residents' = Advanced(residents, j, stage)
           ELSE UNCHANGED residents
        /\ EndTurn(code)

\* A turn that has begun is not revoked by a failure that is latched meanwhile.
Dequeue ==
    /\ in_flight = None /\ fifo # <<>>
    /\ fifo' = Tail(fifo)
    /\ IF failed THEN /\ completions' = completions \cup Completed({Head(fifo)}, "service_failed")
                      /\ UNCHANGED in_flight
       ELSE in_flight' = Head(fifo) /\ UNCHANGED completions
    /\ UNCHANGED <<residents, failed, mode, generating, generated, unknown, order, call>>

FinishTurn ==
    /\ in_flight # None
    /\ CASE in_flight.op = "create" -> CreateTurn
         [] in_flight.op = "cancel" -> CancelTurn
         [] in_flight.op \in {"shutdown", "fact"} -> UNCHANGED residents /\ EndTurn("success")
    /\ UNCHANGED <<failed, mode, generating, generated, fifo, unknown, order>>

\* The residents that the record of a turn leads to; None for a turn without a record.
AppendedBy(x) ==
    CASE x.op = "create" /\ CanInstall(residents) -> Installed(residents, x.job)
      [] x.op = "cancel" /\ IsResident(residents, x.job) /\ StageOf(residents, x.job) = "open" ->
            Advanced(residents, x.job, "stopping")
      [] OTHER -> None

\* FailTurn, and the disposal of everything queued behind the turn.
FailTurn ==
    /\ in_flight # None /\ in_flight.op # "shutdown"
    /\ unknown' = AppendedBy(in_flight)
    /\ failed' = TRUE
    /\ in_flight' = None /\ fifo' = <<>>
    /\ completions' = completions \cup Completed(Admitted, "service_failed")
    /\ UNCHANGED <<residents, mode, generating, generated, order, call>>

WriterStep == Dequeue \/ FinishTurn \/ FailTurn

\* The facts that close a Job, which do not come through the Backend.
JobAdvances ==
    /\ ~failed /\ mode = "running"
    /\ \E j \in Jobs :
           /\ IsResident(residents, j) /\ StageOf(residents, j) # "closed"
           /\ residents' = Advanced(residents, j, "closed")
    /\ UNCHANGED <<failed, mode, generating, generated, fifo, in_flight, unknown, completions,
                   order, call>>

\* AwaitCompletion: the caller takes its completion and goes on with its code.
Await(c, next(_)) ==
    \E x \in completions :
        /\ call[c].pc = "await" /\ x.tag = call[c].tag
        /\ completions' = completions \ {x}
        /\ next(x.code)
        /\ UNCHANGED <<residents, failed, mode, generating, generated, fifo, in_flight, unknown, order>>

-----------------------------------------------------------------------------
(* CreateJob.                                                              *)

HoldsCreate(c) ==
    call[c].op = "create" /\ call[c].pc \notin {"idle", "create", "returned"}
HoldsIndex(c) == call[c].pc \in {"compact", "read"}

\* Mutant: creations are not serialised by create_mutex_.
LockCreateUnserialized(c) ==
    /\ call[c].pc = "create"
    /\ IF failed THEN Return(c, "service_failed") /\ UNCHANGED generating
       ELSE IF mode # "running" THEN Return(c, "not_ready") /\ UNCHANGED generating
       ELSE IF generating THEN Return(c, "busy") /\ UNCHANGED generating
       ELSE To(c, "generate") /\ generating' = TRUE
    /\ UNCHANGED <<residents, failed, mode, generated, fifo, in_flight, unknown, completions, order>>

\* The application is registered; the caller waits for create_mutex_ and reserves the one
\* creation that may call the identity source.
LockCreate(c) ==
    /\ call[c].pc = "create"
    /\ \A d \in Callers : ~HoldsCreate(d)
    /\ IF failed THEN Return(c, "service_failed") /\ UNCHANGED generating
       ELSE IF mode # "running" THEN Return(c, "not_ready") /\ UNCHANGED generating
       ELSE IF generating THEN Return(c, "busy") /\ UNCHANGED generating
       ELSE To(c, "generate") /\ generating' = TRUE
    /\ UNCHANGED <<residents, failed, mode, generated, fifo, in_flight, unknown, completions, order>>

\* The identity source is called without a lock; a failure of it latches the readiness failure.
Generate(c) ==
    /\ call[c].pc = "generate"
    /\ generating' = FALSE
    /\ \/ /\ generated + 1 \in Jobs
          /\ generated' = generated + 1
          /\ Enqueue(c, "create", generated + 1)
       \/ /\ Return(c, "service_failed") /\ failed' = TRUE
          /\ UNCHANGED <<generated, fifo>>
    /\ UNCHANGED <<residents, mode, in_flight, unknown, completions, order>>

\* Mutant: every completion is taken for a success.
AwaitCreateConfirms(c) ==
    /\ call[c].op = "create"
    /\ Await(c, LAMBDA code : To(c, "confirm"))

AwaitCreate(c) ==
    /\ call[c].op = "create"
    /\ Await(c, LAMBDA code :
           CASE code = "success" -> To(c, "confirm")
             [] code = "resident_limit" -> Return(c, "capacity_exhausted")
             [] code = "service_failed" -> Return(c, "service_failed"))

Confirm(c) ==
    /\ call[c].pc = "confirm"
    /\ IF IsResident(residents, call[c].job) THEN To(c, "index") ELSE Return(c, "internal")
    /\ UNCHANGED <<writer_vars, order>>

LockIndex(c) ==
    /\ call[c].pc = "index"
    /\ \A d \in Callers : ~HoldsIndex(d)
    /\ call' = [call EXCEPT ![c].pc = "compact", ![c].at = 1, ![c].kept = <<>>]
    /\ UNCHANGED <<writer_vars, order>>

\* Keeps an indexed Job that is still resident when it is looked at.
Compact(c) ==
    LET at == call[c].at
    IN  /\ call[c].pc = "compact" /\ at <= Len(order)
        /\ call' = [call EXCEPT ![c].at = @ + 1,
                      ![c].kept = IF IsResident(residents, order[at]) THEN Append(@, order[at]) ELSE @]
        /\ UNCHANGED <<writer_vars, order>>

\* std::logic_error of an index that is full; Dispatch answers it as an internal error.
Publish(c) ==
    LET kept == call[c].kept
        known == call[c].job \in ToSet(kept)
    IN  /\ call[c].pc = "compact" /\ call[c].at > Len(order)
        /\ order' = IF known \/ Len(kept) = max_jobs THEN kept ELSE Append(kept, call[c].job)
        /\ Return(c, IF ~known /\ Len(kept) = max_jobs THEN "exhausted" ELSE "success")
        /\ UNCHANGED writer_vars

-----------------------------------------------------------------------------
(* CancelJob, GetJob, ListJobs and GetReadiness.                           *)

\* Mutant: a cancel that is admitted is answered without waiting for its turn.
SubmitCancelReturns(c) ==
    /\ call[c].pc = "cancel"
    /\ LET code == Admission(FALSE)
       IN  IF code # "admitted" \/ FreeTags = {} THEN Return(c, "busy") /\ UNCHANGED fifo
           ELSE /\ fifo' = Append(fifo, [tag |-> Min(FreeTags), caller |-> c, op |-> "cancel",
                                         job |-> call[c].job])
                /\ Return(c, "success")
    /\ UNCHANGED <<residents, failed, mode, generating, generated, in_flight, unknown, completions,
                   order>>

SubmitCancel(c) ==
    /\ call[c].pc = "cancel"
    /\ Enqueue(c, "cancel", call[c].job)
    /\ UNCHANGED <<residents, mode, generating, generated, in_flight, unknown, completions, order>>

AwaitCancel(c) ==
    /\ call[c].op = "cancel"
    /\ Await(c, LAMBDA code : IF code = "success" THEN To(c, "reread") ELSE Return(c, code))

Reread(c) ==
    /\ call[c].pc = "reread"
    /\ Return(c, IF IsResident(residents, call[c].job) THEN "success" ELSE "internal")
    /\ UNCHANGED <<writer_vars, order>>

GetJob(c) ==
    /\ call[c].pc = "get"
    /\ Return(c, IF IsResident(residents, call[c].job) THEN "success" ELSE "job_not_found")
    /\ UNCHANGED <<writer_vars, order>>

LockList(c) ==
    /\ call[c].pc = "list"
    /\ \A d \in Callers : ~HoldsIndex(d)
    /\ call' = [call EXCEPT ![c].pc = "read", ![c].at = 1]
    /\ UNCHANGED <<writer_vars, order>>

ListJobs(c) ==
    LET at == call[c].at
    IN  /\ call[c].pc = "read"
        /\ IF at > Len(order) THEN Return(c, "success")
           ELSE call' = [call EXCEPT ![c].at = @ + 1,
                   ![c].seen = IF IsResident(residents, order[at]) THEN Append(@, order[at]) ELSE @]
        /\ UNCHANGED <<writer_vars, order>>

\* Reads ready() and then, without a common lock, the reasons.
GetReadiness(c) ==
    /\ call[c].pc = "ready"
    /\ IF ~failed /\ mode = "running" THEN Return(c, "success") ELSE To(c, "reasons")
    /\ UNCHANGED <<writer_vars, order>>

ReadReasons(c) ==
    LET service == IF failed THEN <<"service_failed">> ELSE <<>>
        jobs == IF mode = "recovery_closed" THEN <<"unresolved_jobs">> ELSE <<>>
        reasons == service \o jobs
    IN  /\ call[c].pc = "reasons"
        /\ call' = [call EXCEPT ![c].pc = "returned", ![c].code = "success",
                       ![c].seen = IF reasons = <<>> THEN <<"shutting_down">> ELSE reasons]
        /\ UNCHANGED <<writer_vars, order>>

CallStep(c) ==
    \/ LockCreate(c) \/ Generate(c) \/ AwaitCreate(c) \/ Confirm(c) \/ LockIndex(c) \/ Compact(c)
    \/ Publish(c) \/ SubmitCancel(c) \/ AwaitCancel(c) \/ Reread(c) \/ GetJob(c) \/ LockList(c)
    \/ ListJobs(c) \/ GetReadiness(c) \/ ReadReasons(c)

=============================================================================
