------------------------------- MODULE Daemon -------------------------------
(***************************************************************************)
(* The daemon of apps/sitometrond: Phase1Composition starts the writer,    *)
(* the Backend and the HTTP server, and stops them in the opposite order.  *)
(* The thread main runs Start and Stop.  Besides the I/O thread, other     *)
(* threads may call composition.backend(); they have returned before the   *)
(* owner calls Stop.  Adapter threads hold callback handles of the writer; *)
(* nothing makes them return before Stop.                                  *)
(***************************************************************************)
EXTENDS HttpServer, Callbacks

CONSTANTS
    main,     \* the thread of RunSitometrond, one of Callers
    Initial   \* the residents that the Journal holds when the daemon first starts

\* stopped, running; joining, marker, draining, begin, finish and reset are the steps of Stop
VARIABLE daemon

vars == <<backend_vars, http_vars, callback_vars, daemon>>

Direct == Callers \ {io, main}

Init ==
    /\ workload \in DOMAIN Workloads
    /\ daemon = "stopped" /\ stopping = TRUE
    /\ residents = Initial /\ failed = FALSE
    /\ mode = "closed" /\ generating = FALSE /\ generated = Len(Initial)
    /\ fifo = <<>> /\ in_flight = None /\ unknown = None /\ completions = {}
    /\ order = <<>>
    /\ call = [c \in Callers |-> Idle]
    /\ conn = [c \in Connections |-> Closed]
    /\ control = [r \in Registrations |-> [NewControl EXCEPT !.sealed = TRUE, !.target = FALSE]]
    /\ thread = [t \in Threads |-> NoThread]
    /\ sealed = FALSE /\ collided = FALSE

-----------------------------------------------------------------------------
(* Phase1Composition::Start.                                               *)

Identifiers(table) == [n \in DOMAIN table |-> table[n].job_id]

\* Start opens the Journal and replays it: a writer that failed may have left one more record.
\* A listener that cannot be opened takes the way of Stop, with a writer that runs and no
\* connection to come.  The new writer has new controls: what adapter threads still hold of the
\* old ones is forgotten.
Start ==
    /\ daemon = "stopped"
    /\ residents' \in {residents, unknown} \ {None} /\ failed' = FALSE /\ unknown' = None
    /\ mode' = IF \A n \in DOMAIN residents' : residents'[n].stage = "closed"
               THEN "running" ELSE "recovery_closed"
    /\ order' = Identifiers(residents')
    /\ \/ /\ daemon' = "running" /\ stopping' = FALSE
          /\ conn' = [c \in Connections |-> Closed]
       \/ /\ daemon' = "marker" /\ UNCHANGED stopping
          /\ conn' = [c \in Connections |-> [Closed EXCEPT !.pc = "ended"]]
    /\ control' = [r \in Registrations |-> NewControl]
    /\ thread' = [t \in Threads |-> NoThread]
    /\ sealed' = FALSE /\ collided' = FALSE
    /\ UNCHANGED <<generating, generated, fifo, in_flight, completions, call, workload>>

-----------------------------------------------------------------------------
(* Phase1Composition::Stop.                                                *)

\* Server::Stop: no handler begins any more.
Stop ==
    /\ daemon = "running" /\ \A d \in Direct : call[d].pc = "idle"
    /\ daemon' = "joining" /\ stopping' = TRUE
    /\ UNCHANGED <<backend_vars, callback_vars, conn, workload>>

\* Mutant: Server::Stop without the join.
JoinNothing ==
    /\ daemon = "joining"
    /\ daemon' = "marker"
    /\ conn' = [c \in Connections |-> [Closed EXCEPT !.pc = "ended"]]
    /\ UNCHANGED <<backend_vars, callback_vars, stopping, workload>>

\* The handler that was running has come to its next wait.  Destroying the server drops the
\* coroutines with their sockets.
Join ==
    /\ daemon = "joining" /\ call[io].pc = "idle"
    /\ daemon' = "marker"
    /\ conn' = [c \in Connections |-> [Closed EXCEPT !.pc = "ended"]]
    /\ UNCHANGED <<backend_vars, callback_vars, stopping, workload>>

\* Mutant: Stop returns when the marker is refused, and the writer goes on.
SubmitShutdownGivesUp ==
    /\ daemon = "marker"
    /\ IF failed \/ mode # "running"
       THEN daemon' = "running" /\ UNCHANGED <<failed, mode, fifo, call>>
       ELSE IF FreeTags = {}
       THEN daemon' = "reset" /\ failed' = TRUE /\ UNCHANGED <<mode, fifo, call>>
       ELSE /\ daemon' = "draining" /\ mode' = "closed"
            /\ fifo' = Append(fifo, [tag |-> Min(FreeTags), caller |-> main, op |-> "shutdown",
                                     job |-> None])
            /\ call' = [call EXCEPT ![main].op = "shutdown", ![main].pc = "await",
                                    ![main].tag = Min(FreeTags)]
            /\ UNCHANGED failed
    /\ UNCHANGED <<residents, generating, generated, in_flight, unknown, completions, order,
                   http_vars>>
    /\ RetryLatchedFailure

\* A marker that is refused, because the writer has failed or recovery keeps it closed, is not
\* waited for.
SubmitShutdown ==
    /\ daemon = "marker"
    /\ IF failed \/ mode # "running"
       THEN daemon' = "reset" /\ UNCHANGED <<failed, mode, fifo, call>>
       ELSE IF FreeTags = {}
       THEN daemon' = "reset" /\ failed' = TRUE /\ UNCHANGED <<mode, fifo, call>>
       ELSE /\ daemon' = "draining" /\ mode' = "closed"
            /\ fifo' = Append(fifo, [tag |-> Min(FreeTags), caller |-> main, op |-> "shutdown",
                                     job |-> None])
            /\ call' = [call EXCEPT ![main].op = "shutdown", ![main].pc = "await",
                                    ![main].tag = Min(FreeTags)]
            /\ UNCHANGED failed
    /\ UNCHANGED <<residents, generating, generated, in_flight, unknown, completions, order,
                   http_vars>>
    /\ RetryLatchedFailure

AwaitMarker ==
    /\ daemon = "draining"
    /\ Await(main, LAMBDA code : call' = [call EXCEPT ![main] = Idle])
    /\ daemon' = "begin"
    /\ UNCHANGED <<http_vars, callback_vars>>

BeginShutdown ==
    /\ daemon = "begin" /\ Quiet
    /\ daemon' = "finish"
    /\ UNCHANGED <<backend_vars, http_vars, callback_vars>>

InUse(r) == control[r].invocations # 0

\* FinishShutdown closes the controls in turn and waits for the invocations of each.  A leased
\* control, or an entry that a callback has left, ends it without the seal.
FinishShutdown ==
    LET open == {r \in Registrations : ~control[r].sealed \/ InUse(r) \/ control[r].leased}
        r == Min(open)
    IN  /\ daemon = "finish"
        /\ \/ /\ open # {} /\ ~control[r].sealed
              /\ control' = [control EXCEPT ![r].sealed = TRUE]
              /\ UNCHANGED <<daemon, sealed>>
           \/ /\ open # {} /\ control[r].sealed /\ ~InUse(r)
              /\ daemon' = "reset"
              /\ UNCHANGED <<control, sealed>>
           \/ /\ open = {}
              /\ daemon' = "reset"
              /\ IF Quiet THEN sealed' = TRUE /\ control' = Severed(control)
                 ELSE UNCHANGED <<sealed, control>>
        /\ UNCHANGED <<backend_vars, http_vars, thread, collided>>

\* JobOrchestrator::Stop, in the destructor: each control in turn is sealed, waited for and
\* severed.  It does not wait for leases.
StopControl ==
    LET open == {r \in Registrations : control[r].target \/ InUse(r)}
        r == Min(open)
    IN  /\ daemon = "reset" /\ open # {}
        /\ \/ /\ ~control[r].sealed
              /\ control' = [control EXCEPT ![r].sealed = TRUE]
           \/ /\ control[r].sealed /\ ~InUse(r)
              /\ control' = [control EXCEPT ![r].target = FALSE]
        /\ UNCHANGED <<backend_vars, http_vars, thread, sealed, collided, daemon>>

\* The writer thread has taken every entry when it ends, and the Backend goes after it.
Reset ==
    /\ daemon = "reset" /\ Quiet
    /\ \A r \in Registrations : ~control[r].target /\ ~InUse(r)
    /\ daemon' = "stopped" /\ mode' = "closed"
    /\ completions' = {} /\ order' = <<>> /\ generating' = FALSE
    /\ UNCHANGED <<residents, failed, generated, fifo, in_flight, unknown, call, http_vars,
                   callback_vars>>

-----------------------------------------------------------------------------
Writer == daemon # "stopped" /\ WriterStep /\ RetryLatchedFailure /\ UNCHANGED <<http_vars, daemon>>

Supervisor == daemon = "running" /\ JobAdvances /\ UNCHANGED <<http_vars, callback_vars, daemon>>

\* A direct cancel is of the newest Job.
DirectCall(d) ==
    /\ daemon = "running"
    /\ \E op \in Workloads[workload].direct :
           Begin(d, op, IF op = "cancel" THEN generated ELSE None)
    /\ UNCHANGED <<http_vars, callback_vars, daemon>>

DirectReturns(d) ==
    /\ call[d].pc = "returned" /\ call' = [call EXCEPT ![d] = Idle]
    /\ UNCHANGED <<writer_vars, order, http_vars, callback_vars, daemon>>

\* The producers of the writer end with FailureExit; the reads of the Backend do not.
Calling(c) ==
    /\ CallStep(c)
    /\ IF call[c].pc \in {"create", "generate", "cancel"} THEN RetryLatchedFailure
       ELSE UNCHANGED callback_vars
    /\ UNCHANGED <<http_vars, daemon>>

Http(c) ==
    ConnectionStep(c) /\ UNCHANGED <<writer_vars, order, stopping, workload, callback_vars, daemon>>

NewConnection(c) ==
    Connect(c) /\ UNCHANGED <<writer_vars, order, stopping, workload, callback_vars, daemon>>

Adapter(t) == CallbackStep(t) /\ UNCHANGED <<http_vars, daemon>>

Composition ==
    \/ Start \/ Stop \/ Join \/ SubmitShutdown \/ AwaitMarker \/ BeginShutdown \/ FinishShutdown
    \/ StopControl \/ Reset

Next ==
    \/ Composition \/ Writer \/ Supervisor
    \/ \E d \in Direct : DirectCall(d) \/ DirectReturns(d)
    \/ \E c \in Callers : Calling(c)
    \/ \E c \in Connections : Http(c) \/ NewConnection(c)
    \/ \E t \in Workloads[workload].threads : Adapter(t)

\* When a thread has a step to take.
MainCan ==
    \/ daemon = "joining" /\ call[io].pc = "idle"
    \/ daemon = "marker"
    \/ daemon = "draining" /\ \E x \in completions : x.caller = main
    \/ daemon = "begin" /\ Quiet
    \/ daemon = "finish" /\ Invocations = 0
    \/ daemon = "reset" /\ Invocations = 0 /\ (Quiet \/ \E r \in Registrations : control[r].target)
WriterCan == daemon # "stopped" /\ (in_flight # None \/ fifo # <<>>)
CallCan(c) ==
    CASE call[c].pc \in {"idle", "returned"} -> FALSE
      [] call[c].pc = "await" -> \E x \in completions : x.tag = call[c].tag
      [] call[c].pc = "create" -> \A d \in Callers : ~HoldsCreate(d)
      [] call[c].pc \in {"index", "list"} -> \A d \in Callers : ~HoldsIndex(d)
      [] OTHER -> TRUE
IoCan ==
    \/ call[io].pc = "returned"
    \/ /\ IoTakes
       /\ \E c \in Connections : conn[c].pc \in {"backlog", "continue", "write"} \/ HasDeadline(c)

\* The steps of a thread, told by what they change.
MainMoves ==
    \/ daemon' # daemon
    \/ daemon \in {"finish", "reset"} /\ control' # control /\ thread' = thread /\ Quiet = Quiet'
WriterMoves == Len(fifo') < Len(fifo) \/ (in_flight # None /\ in_flight' = None)
CallMoves(c) == call'[c].pc # call[c].pc \/ call'[c].at # call[c].at
ThreadMoves(t) == thread'[t] # thread[t]
IoMoves == \E c \in Connections : conn[c].pc # "closed" /\ conn'[c] # conn[c]

\* Weak fairness of every thread.  Threads that can run do; the deadlines of the reads pass; a
\* response that is being written is taken by the peer or its connection breaks.  Nobody has to
\* start, stop, connect or call.  A std::mutex is not fair: that direct callers, which
\* RunSitometrond does not have, make finitely many calls keeps them from starving the others.
\* Adapter threads begin finitely many calls too: the facts of a Job are finitely many.
Fairness ==
    /\ \A d \in Direct : <>[](call[d].pc = "idle")
    /\ \A t \in Threads : <>[][thread[t].pc = "idle" => thread'[t].pc = "idle"]_vars
    /\ []<>~MainCan \/ []<><<MainMoves>>_vars
    /\ []<>~WriterCan \/ []<><<WriterMoves>>_vars
    /\ \A c \in Callers \ {main} : []<>~CallCan(c) \/ []<><<CallMoves(c)>>_vars
    /\ \A t \in Threads : []<>~Inside(t) \/ []<><<ThreadMoves(t)>>_vars
    /\ []<>~IoCan \/ []<><<IoMoves>>_vars

Spec == Init /\ [][Next]_vars /\ Fairness

-----------------------------------------------------------------------------
(* Properties.                                                             *)

\* A success is the answer of a turn that has changed the residents, and of nothing else: a
\* refusal leaves them alone.  An internal error of a cancel means that the Job was retired between its
\* turn and the second look at it (composition.cpp:222).
AnswersAreTruthful ==
    \A c \in Callers :
        call[c].pc = "returned" /\ call[c].op \in {"create", "cancel"} =>
            CASE call[c].code \in {"success", "internal"} -> call[c].effect
              [] call[c].code = "service_failed" -> ~call[c].effect /\ failed
              [] OTHER -> ~call[c].effect

\* A creation whose turn has installed its Job and which has not published it yet.
Publishing == {c \in Callers : call[c].op = "create" /\ call[c].effect /\ call[c].pc # "returned"}

\* The resident index lists the residents in creation order whenever no creation is about to
\* publish, although the Jobs retire behind its back; and a creation never finds it full
\* (composition.cpp:165, 173).
IndexHoldsResidents ==
    /\ \A c \in Callers : call[c].code # "exhausted"
    /\ daemon \in {"running", "joining"} /\ Publishing = {} =>
           SelectSeq(order, LAMBDA j : IsResident(residents, j)) = Identifiers(residents)

\* Every entry and every completion that is not a callback's belongs to a call that waits for
\* exactly it, so that the Backend never uses up the completion slots (job_orchestrator.cpp:1079);
\* and no two entries or completions share a slot.
EveryCompletionIsAwaited ==
    LET owed == Admitted \cup completions
    IN  /\ \A x \in owed : x.caller # None =>
               call[x.caller].pc = "await" /\ call[x.caller].tag = x.tag
        /\ \A x, y \in owed : x.tag = y.tag => x = y

\* When the writer and the Backend are destroyed nobody is inside them, nothing is queued, no
\* connection is open, and no callback handle reaches the writer any more: a callback that came
\* before Stop has been waited for (job_orchestrator.cpp:1963).
NothingOutlivesTheWriter ==
    daemon = "stopped" =>
        /\ \A c \in Callers : call[c].pc = "idle"
        /\ Quiet /\ completions = {}
        /\ \A c \in Connections : conn[c].pc \in {"closed", "ended"}
        /\ \A t \in Threads : ~Inside(t)
        /\ \A r \in Registrations : ~control[r].target

\* A latched failure seals the writer and severs every handle as soon as the last turn, callback
\* or lease is over, whichever of them is the last (InvocationGuard, ReleaseLease,
\* RetryDeferredSealing).  The exception: an attempt counted the invocation of a thread that was in
\* its own attempt, or had made it and not yet dropped the invocation.
FailureSealsAfterTheLast ==
    failed /\ daemon \notin {"stopped", "reset"} /\ Quiet /\ (\A t \in Threads : thread[t].pc = "idle") =>
        \/ sealed /\ \A r \in Registrations : ~control[r].target
        \/ collided

\* The value of a chunk size in unbounded arithmetic.
ExactSize(digits) == FoldLeft(LAMBDA n, b : Base * n + DigitValue(b), 0, digits)

\* What is answered to a chunked body depends on its bytes and not on how they arrive: the
\* verdict is the one of a single read (ChunkScanner, feed).  A first chunk that is larger than
\* the body limit, by any number of digits, is too large once its size line is there.
BodyVerdictIsOfItsBytes ==
    \A c \in {c \in Connections : conn[c].request # None /\ conn[c].pos > 0} :
        LET r == conn[c].request
            received == SubSeq(r.bytes, 1, conn[c].pos)
            verdict == conn[c].body.verdict
            digits == SelectSeq(SubSeq(r.bytes, 1, SelectInSeq(r.bytes, LAMBDA b : b = "CR")), IsDigit)
        IN  r.chunked =>
                /\ verdict = FeedBody(NewBody, received, body_room).verdict
                /\ ExactSize(digits) > body_limit /\ IsPrefix(digits \o <<"CR", "LF">>, received) =>
                       verdict = "too_large"

\* Every connection in the backlog ends: each of its reads has a deadline, no Backend call waits
\* for ever, and Stop drops what is left (HandleConnection, AwaitCompletion).
EveryConnectionEnds == \A c \in Connections : conn[c].pc = "backlog" ~> conn[c].pc = "ended"

\* Phase1Composition::Stop returns, whatever has failed and whoever is inside: the I/O thread, a
\* turn or a callback.
StopCompletes == daemon = "joining" ~> daemon = "stopped"

=============================================================================
