----------------------------- MODULE Callbacks ------------------------------
(***************************************************************************)
(* The callback handles of src/core/job_orchestrator.cpp.  A handle        *)
(* reaches the writer through a control that outlives it; an adapter       *)
(* thread holds an invocation reference while it may touch the writer, and *)
(* the writer is destroyed only when there is none.                        *)
(*                                                                         *)
(* Each step is one critical section of a control or of the ingress.  But  *)
(* closing the controls is one step, and so is severing them: nothing else *)
(* looks at these flags of two controls.  The failure continuation of the  *)
(* writer and of the other producers is one step as well, the one of a     *)
(* callback is not.  A callback submits a critical fact of one source, and *)
(* its adapter takes the completion when it likes.  The code that a        *)
(* refused Invoke returns is left out.                                     *)
(***************************************************************************)
EXTENDS Backend

CONSTANTS
    Registrations,   \* callback controls, 1..n
    Threads          \* adapter threads

VARIABLES
    control,   \* of each registration; target is FALSE once it is severed
    thread,    \* what each adapter thread does, and with which control
    sealed,    \* the mode is kSealed
    collided   \* an attempt to seal met a thread in or behind its own (history)

callback_vars == <<control, thread, sealed, collided>>

NewControl == [target |-> TRUE, sealed |-> FALSE, active |-> FALSE, leased |-> FALSE,
               invocations |-> 0]
\* scanned: the controls that an attempt to seal has looked at; counted: their invocations.
NoThread == [pc |-> "idle", at |-> 0, active |-> FALSE, scanned |-> 0, counted |-> 0]

Invocations == MapThenSumSet(LAMBDA r : control[r].invocations, Registrations)
Occupied == \E r \in Registrations : control[r].active \/ control[r].leased
Quiet == fifo = <<>> /\ in_flight = None

Closing(controls) == [r \in Registrations |-> [controls[r] EXCEPT !.sealed = TRUE]]
Severed(controls) == [r \in Registrations |-> [controls[r] EXCEPT !.sealed = TRUE, !.target = FALSE]]

\* A thread that has made its attempt to seal and still holds its invocation.
GivenUp == \E t \in Threads : thread[t].pc = "leave"

\* RetryLatchedFailure of a thread without an invocation, at the end of its step.
RetryLatchedFailure ==
    LET attempt == failed' /\ ~sealed /\ Quiet' /\ ~Occupied
        seals == attempt /\ Invocations = 0
    IN  /\ control' = IF seals THEN Severed(control) ELSE IF failed' THEN Closing(control) ELSE control
        /\ sealed' = (sealed \/ seals)
        /\ collided' = (collided \/ (attempt /\ GivenUp))
        /\ UNCHANGED thread

-----------------------------------------------------------------------------
(* CallbackHandle::Invoke.                                                 *)

Enter(t, r, pc, active) ==
    /\ thread[t].pc = "idle"
    /\ ~control[r].sealed /\ control[r].target
    /\ control' = [control EXCEPT ![r].invocations = @ + 1, ![r].active = @ \/ active]
    /\ thread' = [thread EXCEPT ![t] = [NoThread EXCEPT !.pc = pc, !.at = r, !.active = active]]
    /\ UNCHANGED <<sealed, collided, backend_vars>>

\* The payload of an lvalue cannot be copied.
InvokeCopyFails(t, r) == Enter(t, r, "latch", FALSE)

\* A second invocation of the same control, or one of a leased control, is corruption.
Invoke(t, r) ==
    IF control[r].active \/ control[r].leased THEN Enter(t, r, "latch", FALSE)
    ELSE Enter(t, r, "submit", TRUE)

\* SubmitCandidate of a critical fact: shutdown does not refuse it, and its gate holds one entry.
\* Where something throws, the failure is latched.
SubmitFact(t) ==
    LET refused == failed \/ sealed \/ mode = "recovery_closed"
        queued == \E x \in Admitted : x.op = "fact"
    IN  /\ thread[t].pc = "submit"
        /\ \/ /\ thread' = [thread EXCEPT ![t].pc = "retry"]
              /\ failed' = (failed \/ (~refused /\ FreeTags = {}))
              /\ fifo' = IF refused \/ FreeTags = {} \/ queued THEN fifo
                         ELSE Append(fifo, [tag |-> Min(FreeTags), caller |-> None, op |-> "fact",
                                            job |-> None])
           \/ /\ thread' = [thread EXCEPT ![t].pc = "latch"]
              /\ UNCHANGED <<failed, fifo>>
        /\ UNCHANGED <<control, sealed, collided, residents, mode, generating, generated,
                       in_flight, unknown, completions, order, call>>

\* The adapter takes the completion of a fact, if it ever does.
TakeCompletion(t) ==
    /\ thread[t].pc = "idle"
    /\ \E x \in completions : x.caller = None /\ completions' = completions \ {x}
    /\ UNCHANGED <<callback_vars, residents, failed, mode, generating, generated, fifo, in_flight,
                   unknown, order, call>>

\* LatchFailureFromCallback, up to the unlock of the ingress.
LatchFailureFromCallback(t) ==
    /\ thread[t].pc = "latch"
    /\ failed' = TRUE
    /\ thread' = [thread EXCEPT ![t].pc = "retry"]
    /\ UNCHANGED <<control, sealed, collided, residents, mode, generating, generated, fifo,
                   in_flight, unknown, completions, order, call>>

\* RetryLatchedFailure of the callback: its own invocation keeps it from sealing.
CloseControls(t) ==
    /\ thread[t].pc = "retry"
    /\ control' = IF failed THEN Closing(control) ELSE control
    /\ thread' = [thread EXCEPT ![t].pc = "exit"]
    /\ UNCHANGED <<sealed, collided, backend_vars>>

\* InvocationGuard: active is cleared first, the invocation is kept.
ClearActive(t) ==
    /\ thread[t].pc = "exit"
    /\ control' = [control EXCEPT ![thread[t].at].active = @ /\ ~thread[t].active]
    /\ thread' = [thread EXCEPT ![t].pc = "check"]
    /\ UNCHANGED <<sealed, collided, backend_vars>>

-----------------------------------------------------------------------------
(* TrySealFailure with the one invocation of its own caller.               *)

\* The ingress is looked at first.
CheckSeal(t) ==
    /\ thread[t].pc = "check"
    /\ thread' = [thread EXCEPT ![t].pc = IF failed /\ Quiet THEN "scan" ELSE "leave"]
    /\ UNCHANGED <<control, sealed, collided, backend_vars>>

\* Then every control in turn, each under its own lock.
ScanControl(t) ==
    LET r == thread[t].scanned + 1
        counted == thread[t].counted + control[r].invocations
        next == CASE control[r].active \/ control[r].leased -> "leave"
                  [] r = Cardinality(Registrations) -> IF counted = 1 THEN "seal" ELSE "leave"
                  [] OTHER -> "scan"
    IN  /\ thread[t].pc = "scan"
        /\ thread' = [thread EXCEPT ![t].pc = next,
                                    ![t].scanned = IF next = "scan" THEN r ELSE 0,
                                    ![t].counted = IF next = "scan" THEN counted ELSE 0]
        /\ collided' = (collided \/ \E u \in Threads \ {t} :
                                        thread[u].at = r /\ thread[u].pc \in {"scan", "leave"})
        /\ UNCHANGED <<control, sealed, backend_vars>>

\* The controls are severed one by one, up to one that has more than one invocation.
SealFailure(t) ==
    LET others == {r \in Registrations : control[r].invocations > 1}
    IN  /\ thread[t].pc = "seal"
        /\ IF Quiet
           THEN /\ sealed' = TRUE
                /\ control' = [r \in Registrations |->
                      IF \A o \in others : r < o THEN Severed(control)[r] ELSE control[r]]
           ELSE UNCHANGED <<sealed, control>>
        /\ thread' = [thread EXCEPT ![t].pc = "leave"]
        /\ UNCHANGED <<collided, backend_vars>>

Leave(t) ==
    /\ thread[t].pc = "leave"
    /\ control' = [control EXCEPT ![thread[t].at].invocations = @ - 1]
    /\ thread' = [thread EXCEPT ![t] = NoThread]
    /\ UNCHANGED <<sealed, collided, backend_vars>>

-----------------------------------------------------------------------------
(* Leases of a control.                                                    *)

HoldLease(t, r) ==
    /\ thread[t].pc = "idle"
    /\ ~control[r].sealed /\ control[r].target /\ ~control[r].active /\ ~control[r].leased
    /\ control' = [control EXCEPT ![r].leased = TRUE]
    /\ thread' = [thread EXCEPT ![t] = [NoThread EXCEPT !.pc = "holding", !.at = r]]
    /\ UNCHANGED <<sealed, collided, backend_vars>>

\* Mutant: the release makes no attempt to seal.
ReleaseLeaseSilent(t) ==
    /\ thread[t].pc = "holding"
    /\ control' = [control EXCEPT ![thread[t].at].leased = FALSE]
    /\ thread' = [thread EXCEPT ![t] = NoThread]
    /\ UNCHANGED <<sealed, collided, backend_vars>>

\* The release becomes an invocation for its own attempt to seal.
ReleaseLease(t) ==
    LET r == thread[t].at
        target == control[r].target
    IN  /\ thread[t].pc = "holding"
        /\ control' = [control EXCEPT ![r].leased = FALSE,
                                      ![r].invocations = IF target THEN @ + 1 ELSE @]
        /\ thread' = [thread EXCEPT ![t] = IF target THEN [@ EXCEPT !.pc = "check"] ELSE NoThread]
        /\ UNCHANGED <<sealed, collided, backend_vars>>

\* A thread that is inside goes on by itself; whether it calls at all, or releases, is its own.
Inside(t) == thread[t].pc \notin {"idle", "holding"}

InsideStep(t) ==
    \/ SubmitFact(t) \/ LatchFailureFromCallback(t) \/ CloseControls(t) \/ ClearActive(t)
    \/ CheckSeal(t) \/ ScanControl(t) \/ SealFailure(t) \/ Leave(t)

CallbackStep(t) ==
    \/ InsideStep(t) \/ ReleaseLease(t) \/ TakeCompletion(t)
    \/ \E r \in Registrations : InvokeCopyFails(t, r) \/ Invoke(t, r) \/ HoldLease(t, r)

=============================================================================
