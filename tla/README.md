# Sitometron: TLA+ models and proofs

Sitometron is a controller that admits compute Jobs on one machine, drives each of them through a
lifecycle, and records every step in a Journal before acting on it. This directory holds TLA+ models
of its core, its Journal tools, its HTTP adapter and the daemon that joins them, the TLC runs that
check them on small instances, and TLAPS proofs of the properties that matter most for every
instance. Paths are relative to the repository; `job_reducer.cpp`, for example, is
`src/core/job_reducer.cpp`.

## The system

| Part | Source | State | Operations |
|---|---|---|---|
| Reducer | `src/core/job_reducer.cpp` | none; a pure function on a Job's `Snapshot` | `DecideCommand`, `DecideEvent`, `Apply`, `IngestTimer` |
| State writer | `src/core/job_orchestrator.cpp` | residents with nine gates each, bounded FIFO, completion table, permits, mode, failure latch, Journal position | `Submit*`, source leases, `Retain*Lease`, `RetireWorkerAck`, the writer thread's turn, `SubmitShutdown`, `BeginShutdown`, `Stop` |
| Segment writer | `src/journal/segment_journal.cpp` | active segment, its size, next sequence, poison flag; the files | `Open` (with `Locate`), `Commit` |
| Replay | `src/journal/replay.cpp` | the Jobs folded so far | `ReplayJournal`, `ReplayRecord` |
| Callback handles | `src/core/job_orchestrator.cpp` | per registration: target, active flag, invocations, leases, closing and sealed flags | `Invoke`, `HoldLease`, `ReleaseLease`, severing by `Stop` and `TrySealFailure` |
| Maintenance | `src/journal/maintenance.cpp` | segments, quarantine and archive files | quarantine of a torn tail, pruning of the closed prefix |
| Codec, file system | `src/journal/record_codec.cpp`, `file_system.cpp` | none | encoding, system calls |
| Identity, clock, registry | `src/identity`, `src/registry` | issued identities, last tick | generation, reading, startup validation |
| HTTP adapter | `src/http/http_server.cpp` | one coroutine per connection on one I/O thread, the stop flag | accept, read with limits and deadlines, route, answer, `Stop` |
| Daemon | `apps/sitometrond` | the index of resident Jobs and its two mutexes | `Start`, create, cancel, get, list, readiness, `Stop` |
| Walking skeleton | `spike/` | a non-normative prototype around the same core | not modelled |

The parts interact along one path. A producer (an HTTP request, a Worker, a timer) submits an input
under the ingress mutex. The writer thread takes inputs in order. It asks the reducer for a
decision, prepares the next snapshot and its effects, commits one record to the Journal, and only
then installs the snapshot, dispatches the effects and completes the input. A restart folds the same
records through the same reducer.

What makes this hard:

- producers run between any two steps of a turn, and leases keep gates owned across turns;
- timer notifications, Worker outcomes and exit facts arrive late, twice, or after the race is
  decided;
- memory holds `max_jobs` Jobs, so a creation retires the oldest closed Job, and replay must retire
  the same one;
- every file-system call of `Commit` can fail, and the process or the machine can stop between two
  of them;
- the service must seal exactly when nothing is queued, running or leased, although nobody polls for
  it;
- callbacks run on threads of their own and hold handles that may outlive the writer;
- the maintenance tools change several files in several steps, and the next run or the daemon meets
  whatever an interrupted run left behind;
- the daemon answers requests from state that other threads change between its locks.

`PROJECT.json` lists these hazards at the lines where they bite, with the properties that cover
them.

## Modules

| Module | Models |
|---|---|
| `JobReducer` | every decide and apply function, snapshot validity, effect lists, `IsUnresolved`, `IsClosed` |
| `Replay` | `Derive` and `ReplayRecord` |
| `JobLifecycle` | one Job driven by the reducer with all inputs in all orders; its properties |
| `MCJobLifecycle` | symmetry for the lifecycle runs |
| `JobReducerProofs`, `JobLifecycleProofs` | lemmas per event and the lifecycle theorems |
| `DurableLog` | the abstract log a Journal promises |
| `SegmentJournal` | the segment writer, `Locate`, the structural checks of replay, and a file system that loses unsynced data |
| `SegmentJournalProofs` | durability of acknowledged records |
| `Quarantine` | the quarantine tool and the daemon's writer on the file system of `SegmentJournal` |
| `Prune`, `MCPrune` | the pruning tool on a directory of segments and its archive |
| `JobService` | the abstract service the state writer promises: residents in creation order, retired oldest first |
| `Orchestrator` | the single state writer with its producers, on a Journal that replay folds |
| `MCOrchestrator` | the inputs and starting Journals of its runs |
| `Callbacks` | callback controls, invocations and leases, and the deferred seal |
| `Backend` | `Phase1Backend`: create, cancel, get, list, readiness, above a state writer whose turns are those of `JobService` |
| `ChunkedBody` | `ChunkScanner` and the feeding of the Beast parser, as operators |
| `HttpServer` | the I/O thread: accept loop and connection coroutine |
| `Daemon` | the composition of `HttpServer`, `Backend` and `Callbacks`, with `Start` and `Stop` |
| `MCDaemon` | the requests, bodies and workloads of its run |

### Reducer and lifecycle

A snapshot is a record with the fields of `Snapshot`. A candidate event is its parsed payload;
allocation, operation and Worker identities are model values, and digests are part of them.
`Decide*` returns an accepted proposal or a rejection with its reason, `Apply*` a snapshot and a
sequence of effects, as in the code. `JobLifecycle` performs one turn per step: any candidate event
(including malformed identities), a command, or an expired timer. `armed` is what the arm and disarm
effects leave registered.

### Journal

A file has `data`, what processes read, and `disk`, what the last sync wrote. `Commit` is split at
every file-system call: create, sync file, sync directory, write (any number of bytes), sync record.
Each may fail with the result the code gives. `PowerLoss` keeps, per file, any prefix of the written
or the synced bytes that contains everything both agree on, and forgets any subset of the segments
whose directory entry was not synced; this behaviour of the medium is the external part of the
model. `ProcessEnds` keeps the page cache. `Open` needs both `Locate` and replay to accept.

`SegmentJournal` implements `DurableLog` under the mapping from readable records to the log and from
the highest acknowledged record to the acknowledged length.

Left out: a failed sync that also discards dirty pages, malformed segment names, unreadable files,
records of different lengths, and `Commit` before `Open` (the daemon opens first).

### State writer

`ingress` is what the ingress mutex guards, and an operator with the name of a `...Locked` function
is that critical section. `writer` is the turn in progress, and `journal` what replay would compute
from the durable records. A turn is `Dequeue` (with selection of a victim and the reducer's
decision), `FailPrepare`, `Commit` or `CommitFails`, `Install`, one `Dispatch` per effect,
`Release`, `Complete`. Producer actions interleave with all of them. `Restart` starts a new process
on the Journal at any point.

Decisions taken in this model:

- Dequeue, selection and decision are one step. What they read (the snapshot, the closed set) is
  written only by the writer, and the claim they set only closes the slot for producers.
- `FailureExit`, which retries a seal after each producer call, is part of that producer's step. The
  retry is idempotent and the next submission or turn would repeat it.
- An entry is known by its completion slot instead of its ingress sequence, which no two live
  entries share.
- Of the retry identities only the Worker's is kept. The others choose between two result codes of a
  submission that is not admitted.
- A creation finds its slot already reserved by its admission, so the reservation inside the turn is
  not modelled.
- The trace ring, barriers for tests, and exhaustion of ingress sequences and lease serials are not
  modelled.

`Orchestrator` implements `JobService`: a resident is a Job with a committed creation, its stage is
open, terminal or closed, and every step is a turn of the abstract service, a failure, a recovery or
a stutter.

### Maintenance

`Quarantine` extends `SegmentJournal` with the tool's process. One step is one file-system call:
create the quarantine file, append (any number of the missing bytes), sync it, sync the directory,
truncate, sync the cut, verify by replay. A clean Journal that ends where a quarantine file says an
earlier run cut it is synced again. `ToolFails` is any failing call, and it ends the run. The tool
and the daemon exclude each other through `journal.lock`.

`Prune` works one level higher: a segment is a sequence of records, and a record is the creation of
a Job, a closing record of it, or another one. The daemon's side only lets the Journal grow, so that
every kind of prefix occurs. The tool replays, looks for an interrupted prune in the archive,
computes the prunable length, and moves one segment at a time: rename, sync the archive, sync the
directory. `pending` holds the renames that are not settled, in order. A rename is atomic, and power
loss undoes a suffix of the pending ones. Atomicity and order are assumptions about the file system,
as on one that journals its metadata. An unsynced record may stay, tear or go with the power, and so
may an empty segment.

### Callbacks, Backend, HTTP, daemon

`Callbacks` has one step per critical section of the control mutex and the ingress mutex. An adapter
thread enters, submits a fact or latches a failure, clears the active flag, tries to seal and
leaves. Its attempt looks at the ingress, then at one control after the other, then at the ingress
again, and other threads move in between. Closing and severing the controls are one step each. A
fact occupies a completion slot until its adapter takes the completion, and a full table fails the
service. Another thread holds a lease. The composition of the repository registers no callbacks yet,
so these threads stand for the adapters the handles are made for, as the tests use them.

`Backend` keeps of the state writer what its callers can tell apart: the residents with a stage, a
FIFO, the entry in flight, the completions, the mode and the failure latch. A turn is one of
`JobService`, which `Orchestrator` is checked to implement. Every operation is split where it takes
or releases `create_mutex_` or `index_mutex_`, at every orchestrator call, and at every wait.

`HttpServer` runs one coroutine step at a time on the I/O thread, as `io_context::run` does with a
single thread; a Backend call blocks it. A request is what its checks find (`head`, `early`,
`route`, `method`, `media`, lengths, `json`, `shape`, ...). The checks decide whether it is answered
before its body is read, answered after it, or passed to the Backend; the status of an answer is
left out. A chunked body is a sequence of byte classes that arrives in pieces of any size.
Hexadecimal digits are scaled down to base 2 and `UINT64_MAX` to `SizeMax`; the overflow test is the
one of the code.

`Daemon` adds `Start` (with replay of an outcome-unknown record), the steps of `Stop`, direct
callers of the Backend, which the tests have, and the facts that move a Job on.

## Runs

Each configuration is checked with its module as listed in `PROJECT.json`.

| Run | Configuration | Checks |
|---|---|---|
| lifecycle | `JobLifecycle.cfg` | snapshot validity, replayability of every turn, one cause per outcome and the first one, a timer for every wait, idempotent duplicates, a closed Job has exited and stays closed |
| lifecycle_liveness | `JobLifecycleLive.cfg` | no timed phase lasts for ever; unconfirmed exits are quarantined |
| cleanup_regression | `JobCleanup.cfg` | violated, see Findings |
| journal | `SegmentJournal.cfg` | refinement of `DurableLog`, only torn tails, definite failures leave nothing, `Locate` and replay agree; rotation under power loss |
| journal_unsynced_tail | `JournalUnsyncedTail.cfg` | violated, see Findings |
| quarantine | `Quarantine.cfg` | acknowledged records stay durable through crashes and cuts, cut bytes are kept, a reported cut cannot come undone |
| prune | `Prune.cfg` | open Jobs and the next sequence stay, an interrupted prune can be resumed, reported moves are durable, the prunable prefix is the longest |
| succession | `Succession.cfg` | refinement of `JobService`, memory equals replay, exact permits, slots stay with their entries, no self-inflicted failure |
| launch | `Launch.cfg` | a gate for every timed wait, acknowledgement only after the terminal commit, no self-inflicted failure |
| shutdown | `Shutdown.cfg` | exact permits; sealing is quiet, not lost and final; every entry completes and every failure seals (fair) |
| stale_timeout | `StaleTimeout.cfg` | violated, see Findings |
| daemon | `Daemon.cfg` | truthful answers, the resident index, awaited completions, nothing outlives the writer, deferred seals, chunked bodies; connections and `Stop` end (fair) |

### Bounds

- The lifecycle is finite as it stands. Two values of every identity make a match and a mismatch
  possible.
- Journal: two bytes per record give a torn and a complete record; a limit of two records gives
  rotation; four or five sequences give two segments, an empty third, and the exhausted sequence.
- Quarantine: three bytes per record give a tail of two bytes, so that a quarantine file can hold
  part of it; two records in one segment put the cut at both offsets; two events give a conflicting
  tail.
- Prune: six records, two to a segment, of three Jobs give four segment names and every pattern of
  spans: nested, overlapping, open, and one that ends where another begins.
- State writer: `max_jobs` is 1 or 2 (and its spare slot). `MaxOutstanding` (2 untaken completions)
  is what lets entries queue behind a turn; `MaxLeases` is how many source leases are out at a time.
  `MaxSequence` and `MaxGeneration` stand for `UINT64_MAX`. The succession run reaches the first;
  the second lies above what any run arms, so that an exhausted generation excuses no failure in
  `FailureHasCause`, and the guard on it is not exercised. `Inputs` gives
  each run the facts its question needs, and `Environment` the other things that may happen.
  `History` starts the succession run from a replayed Journal with one closed Job. A second
  Job can be created and closed before the sequence is exhausted, so that the next creation chooses
  between two closed Jobs; a fourth Job's creation is refused after it has taken a place.
- `MaxOutstanding` keeps the completion table from filling up, which in the code fails the service.
  `EveryCompletionIsAwaited` of the daemon run shows that the callers of the Backend do not let that
  happen; adapters that take no completion can, and the run has that case.
- Daemon: two resident places, both closed at the start, make every creation retire a Job. A
  behaviour has one of six workloads: chunked bodies; requests that fail a check; two connections; a
  connection and a direct caller; a direct caller and an adapter thread; two adapter threads.
  `completion_capacity` is 2, a slot for each call that can wait at the same time. `SizeMax` is 7
  and the body limit 2, so sizes of four and more digits overflow, and `body_room` is what the
  combined limit leaves for framing.

`Shutdown.cfg` switches deadlock checking off because a stopped service stops. The other runs have
it on.

### Fairness

`JobLifecycle` assumes that an armed timer is delivered, which is the timer owner's contract.
`Orchestrator` assumes that the writer thread runs while it has work (`Run` loops until it is
stopped) and that holders return exported leases, without which the code itself defers the seal.
Nothing is assumed of producers, clients or Workers.

`Daemon` assumes that every thread that can take a step takes one (main, writer, I/O thread,
callers, a callback that is inside), that read deadlines pass, and that a response being written is
taken by the peer or fails. A `std::mutex` is not fair, so direct callers and adapter threads are
assumed to begin finitely many calls; without that they could starve the others in the code as well.
Nobody has to start, stop, connect or call.

The formulas of `Orchestrator` and `Daemon` spell out the enabling conditions in place of `WF`,
which TLC would evaluate through `ENABLED`.

## Findings

- **Cleanup status can regress** (`job_reducer.cpp:1129`). An exit timeout after a completed cleanup
  sets it to incomplete. ADR-0002 (lines 213 to 215) calls a regression an invariant violation.
- **A stale timeout can be journaled** (`job_orchestrator.cpp:1739`). An exit timeout of generation
  1 that is queued when the terminal commit arms generation 2 is committed afterwards. The Job is
  quarantined early, and the release unregisters the gate generation 2 uses. ADR-0002 (168 to 170)
  says stale notifications never become Journal events; ADR-0003 (217) says a replacement waits for
  retirement.
- **A restart can turn an unsynced record into a gap** (`segment_journal.cpp:215`). A complete but
  never synced tail is adopted as durable. If the next record starts a new segment and power fails,
  replay finds the earlier segment short and reports corruption. ADR-0006 (225) says a crash can
  only leave a torn tail. The window is narrow in the daemon, which appends nothing while a replayed
  Job is unresolved. No acknowledged record is lost: `CommittedIsDurable` is proved for this case
  too.

Further observations, which properties carry as named exceptions:

- **A deferred seal can wait for the next call.** Two callbacks that leave at the same time each
  count the other's invocation and give up (`job_orchestrator.cpp:2506`); the failed service then
  stays unsealed until the next producer call or `Stop`, where ADR-0003 (338) lets it seal once the
  leases are quiet. `collided` in `FailureSealsAfterTheLast` marks the attempts that met a thread in
  or behind its own attempt. `StopCompletes` has no such exception.
- **Pruning trusts a record that may be lost.** A complete but unsynced record counts as written for
  the tool as for a restart (the cause of the third finding). If it closes a Job, the prefix moves,
  and power then fails, the Job is open again with its creation in the archive. `lost` marks these
  behaviours in `Prune`.
- **A quarantine can meet a conflict with its own file.** A run that failed has saved bytes of a
  torn tail; a power loss then leaves a shorter tail. The file is no longer a prefix of the tail and
  the next run is refused, where `maintenance.hpp` says of `kFailed` that "running the operation
  again continues it". The bytes are kept: `EvidenceIsKept` has no exception.
- **A cancel can be answered with an internal error although it succeeded**, when the Job is retired
  between the turn and the second look at it (`composition.cpp:222`). `AnswersAreTruthful` states
  this case.

## Proofs

**Lifecycle** (`JobLifecycleProofs`, for all sets of Jobs and identities). `Sound(job)` is
inductive. It adds to `ValidSnapshot` the type of the snapshot, `CauseFacts`, `UndecidedFacts`
(before a cause is latched, nothing of a stop or an outcome is recorded) and `ProcessFacts` (what is
known of the process in each state, and that a terminal Job with unconfirmed exit still owes an
acknowledgement). Validity alone is not inductive: a valid snapshot can have a latched reason
together with a success candidate. `JobReducerProofs` has one lemma per kind of state change;
`AppliedSound` joins them by event type; `NextSound` lifts them to a step. From `Sound` follow

- `SnapshotStaysValid`, `OutcomeHasOneCause` and `ClosedMeansExited` (a Job that may be retired has
  a confirmed exit);
- `FirstCauseIsFinal` and, with `ClosedMeansExited`, `ClosedIsStable` as action properties. The
  latter is what ADR-0014 relies on when the writer and replay retire closed Jobs.

**Journal** (`SegmentJournalProofs`, for all record lengths, limits, sequence bounds and endings).
`DurabilityInvariant` is inductive: it adds to `CommittedIsDurable` the type, what `Commit` has
established at each of its calls, and that a segment with bytes has a durable directory entry. One
lemma per action shows preservation; `ImageKeeps` shows that a power loss keeps every byte that page
cache and disk agree on.

Assumptions on constants are named (`JournalAssumption`, `CapacityAssumption`, and those of
`JobReducer`), and TLC evaluates them in the runs of their modules.

Only model-checked: liveness (out of the prover's reach, like `ENABLED`); refinement of `DurableLog`
and agreement of `Locate` with replay, and everything about `Quarantine` and `Prune` (they need
induction over the bytes of a file or over the records of a segment); chunked bodies (folds over
bytes); replayability of turns; and everything about `Orchestrator`, `Callbacks`, `Backend`,
`HttpServer` and `Daemon`.

## Not modelled

- **Record codec, system clock, registry**: stateless conversions and validations of text and
  numbers. Their difficulty is in formats and 64- or 128-bit values, which small instances do not
  reach, and they have unit tests of their own.
- **Identity source**: a set of issued identities; only its exhaustion matters to others and is an
  action there.
- **HTTP header syntax, JSON, status and text of responses**: abstracted to the verdicts that the
  connection coroutine and the routing act on.
- **Argument parsing, the maintenance command line, signals** of `apps/sitometrond`: they run before
  and after what `Daemon` models.
- **System-call wrappers** of `file_system.cpp` beyond what their callers see; links and foreign
  file types, which the tools refuse before the first change.
- **Trace ring and test barriers** of the orchestrator.
- **`spike/`**: a non-normative prototype that the default build leaves out.
