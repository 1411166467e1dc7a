# MBootCore in TLA+

TLA+ specifications of MBootCore, the library that brings a phone in its boot
ROM mode to the point where it can be flashed, and then flashes it. Paths below
are relative to the repository (`lib/src` is `src/lib/src` in `PROJECT.json`).
`PROJECT.json` maps every definition to the lines it models and lists the runs,
the mutants that show each property can fail, the findings, the hazards and the
theorems.

Contents: [inventory](#inventory), [modules](#modules),
[runs](#runs), [bounds](#bounds), [fairness](#fairness), [proofs](#proofs),
[known deviations](#known-deviations), [what is not modelled](#what-is-not-modelled),
[plan](#plan).

## Inventory

MBootCore is C++17 in `lib/`, with an SDK, a command line tool and a Qt
application (the studio) on top. A boot goes

    transport -> Sahara (upload a programmer) -> Firehose (flash through it)

driven by `BootPipeline`; everything above it treats the device as an
`IFlashDevice` and schedules work on it (jobs, workflows, sessions, runtime).

| Component | State it keeps | Operations | Talks to | Hard because | Correct when |
|---|---|---|---|---|---|
| `BootPipeline` (core/pipeline) | stage, handlers, retry counts, `m_cancelled`, `m_running` | run, retry, reset, cancel, setters | stage handlers (callbacks), recovery strategy | retry, restart and rollback in one loop; cancel from another thread | Ready only after every stage succeeded in order; the loop ends |
| Sahara (core/protocols/sahara) | phase, state machine, version, device info | handshake, uploadProgrammer, reset, cancel, resetState | transport | the device chooses what happens next, offsets and lengths included | best common version; nothing outside the image sent; upload complete |
| Firehose (core/protocols/firehose, generic/adapter) | open, configured, phase, the stream engine, `m_cancelled` | configure, program, read, erase, poke, patch, reset, cancel | transport | timeouts, retries, late answers, lost answers | data on the device exactly once; success is the device's |
| Packets and chunks (core/protocols) | none; the chunk engine's cancel flag | build, serialize, parse; stream in chunks | protocols | cut and overlong input, escapes, 32 bit fields | what is parsed is what was sent; a cut packet is refused |
| Sector mapping (generic/adapter) | none | byte ranges to sectors | Firehose | rounding, overflow of 64 and 32 bits | exactly the bytes asked for |
| MediaTek and UNISOC scaffolds (protocols) | session state, transport | probe, open, commands | transport | late answers, answers in pieces | a device is taken for what it is |
| Job engine (job) | job list, queue, scheduler state, worker thread, totals | enqueue, start, stop, pause, resume, cancel; run, rollbackAll | flash device | a worker and clients share atomics without a lock | order kept, cancel final, rollback exact |
| Virtual job device (job) | storage, partitions, failure rules | open, read, write, erase, reset, cancel | jobs | partitions that overlap or end past the store | only what was asked for changes |
| Workflow engine (workflow) | steps, state, current step, flags | run, pause, resume, cancel, rollback, reset | step executors, recovery strategies | a client calls into a run | success means all steps; cancel ends it |
| GPT engine (gpt) | table, layout of manager and of writer | parse, write, refresh, recover, find | flash device | two copies on disk, four writes, each can fail or tear | one fault never costs the table |
| Session (session) | sessions, observers, state, flag | connect, disconnect, operations, cancel, create and remove | flash device, factory | raw pointers leave the lock; state and flag are separate atomics | a removed session is closed; a cancel holds |
| Transport and backends (transport) | state, handle, cancelled | open, close, read, write, cancel, reconnect | operating system | partial reads, timeouts, cancel against a blocked call | the stream arrives intact; no handle leaks; calls return |
| Runtime (runtime) | atomics of `RuntimeState`, `opMutex`, active session, observers, counters | life cycle, connection, operations, cancel | all of the above | most calls run without the mutex | connected means owned; counters add up; calls return |
| Plugins (plugin) | instances, states, libraries | load, initialize, enable, reload, unload | dynamic loader | dependency order, plugins that fail | no cycle is loaded; components registered only while initialized |
| Vendor layer (vendor) | registry, runtime, session, pipeline | register, load, open, execute, cancel | plugins, factory | a cancel from another thread | the active vendor is owned |
| Discovery (discovery) | detectors, negotiators, factories | register, discover, identify, negotiate | detectors | timeouts, devices with the same name | every device once, as what it is |
| DSP (dsp) | packages, repository index, cache, dependency graph | install, update, remove, repair, verify, resolve, look up | file system | partial copies, restarts, cycles, eviction | views follow the disk; dependencies satisfied |
| Firmware (firmware) | package, plan, executor | read, resolve, validate, plan, execute | file system, job pipeline | names that collide, missing files, cancel half way | the plan flashes what the package holds, in order |
| ELF (elf) | parsed file, memory image, programmer | parse, validate, build, transfer, start | flash device | bounds of file contents | the image is the file's segments |
| Loader framework (loader) | repository, cache | add, find, select, validate | file system | change between two looks | the best loader is chosen, the cache is bounded |
| Configuration (config) | nine sections, lists, free options, a file | set, import, export, load, save, migrate | file system | types and ranges of text, a save that fails | what is saved is what is loaded |
| Studio bridge (apps/mboot-studio) | Runtime, tasks, operation, lists | initialize, asynchronous calls, flash, cancel, shutdown | runtime, thread pool, GUI queue | handlers on the thread that waits | what is shown is current; no task outlives its Runtime |
| Workflow and job surroundings (workflow, job) | builder, progress, histories, aggregated progress, policies | build, execute, report, query, decide | engines, flash device | job threads report at once; bounded histories | every step built is run; progress and history follow what happened |
| Logs, memory tracker, profiler (logging, session, memory, profiler) | rings and counters | log, query, flush, track, measure | | a ring at its limit | the last entries in order |
| Telemetry, diagnostics, faults, stress, benchmarks (of the same names) | events, checks, injectors, counters, results | record, run, inject, cancel, report | | check then act by several threads, cancel against a run | counts add up; a limit holds; a cancel ends a run |
| Vendor SDK (sdk) | registrations, graph, report | register, finalize, clear, compare | | cycles, versions past an `int` | the report is of what was registered |
| Command line (apps/mboot-cli) | stack of scripts, quiet, format, exit status | parse, one command, shell, script | runtime | scripts within scripts, a cancel between two lines | a script runs whole and in order; the Runtime is left shut down |
| Security, platform | small | lookups, formatting, I/O | | | |

How they interact. `BootPipeline` calls its stage handlers synchronously and
the handlers drive the protocols; a protocol owns its transport for the length of
a call and its `cancel()` reaches a blocked read through the transport's cancel.
`FirehoseAdapter` wraps Firehose as an `IFlashDevice`; `JobScheduler` owns a
worker thread that drives `JobPipeline` with one job at a time, and the jobs
and `PartitionManager` call the flash device. `Runtime` owns the services, which
own sessions, plugins, vendors, firmware and workflows; the studio calls it from
a thread pool. Cancel, pause and resume come from any thread and travel in
atomics, mostly without a lock; these are the places where the modules cut an
operation into steps.

## Modules

Each component has one module whose header comment says at which points its
operations are cut into steps and what is external. Action names are the names
of the methods; a suffix names the part of a method after a cut. Definitions
commented as mutants are alternatives of a definition that a property must tell
from it; no specification uses them.

Boot and protocols

- **`BootPipeline`**: `BootPipeline.cpp`, `RecoveryStrategy.hpp`. Stages are
  numbers. The variables are the members, the place `pc` of the thread in `run()`,
  and two history variables: `invoked` counts handler calls of the run, `fresh`
  holds the stages that succeeded since anything before them ran.
- **`SaharaProtocol`**: `SaharaProtocol.cpp` and the table of
  `SaharaStateMachine.cpp`. A call waits at a read; the device may send any packet
  the parser accepts, with any version range, offset and length. A write sends everything,
  fails, or sends less and reports success, as the backends do when their time is up. `owed` (history)
  is the set of ranges the device asked for that did not get there whole, `said` those of
  them that the transport called written.
- **`FirehoseProtocol`**: adapter, protocol and stream engine, the link as a
  sequence of answers in flight and the device as what it stored. An answer may come after its
  timeout, a failed write may have arrived, a write may be cut although it is reported as done, and a
  read may be short. `foul` (history) says that something of an earlier call was under way when this one
  began, or that one of its own writes arrived otherwise than reported.
  **`FlashDelivery`** is the abstract promise of a transfer: the device's content
  grows in order, without loss or repetition, and success means all of it;
  `WritesAreDeliveries` states that `FirehoseProtocol` implements it under a
  refinement mapping that counts units stored in order.
- **`Packets`**: Sahara's nineteen packets, Firehose's thirteen
  commands with their XML, and `ChunkEngine`. Texts are abstracted to what the parsers
  tell apart: a number with its size, digits, characters that need escaping, white space.
  A stream is cut at both reads of `m_cancelled`, so `cancel()` and `reset()` come between them.
- **`SectorMapping`**: the byte to sector arithmetic of `FirehoseAdapter` with integers
  of bounded width, on a storage whose bytes all differ.
- **`ScaffoldProtocol`**: frames, probe and handshake of MediaTek and UNISOC over a line
  that refuses, delays and splits answers.
- **`Transport`**: `*Transport.cpp` on the backends of libusb, WinUSB, serial ports and
  sockets, and `TransportManager`. Bytes are numbered in the order the device sends them; a
  read is cut at every test of the flag, of the clock and every system call. `openCall`, `closeCall`,
  `readCall` and so on begin a call; `closeAllTransports` is `TransportManager::closeAll()`.

Work on a device

- **`JobPipeline`** and **`JobScheduler`**: one pipeline and the effect of the job
  classes on the partitions; the scheduler extends it: the worker runs the pipeline's own
  actions, and clients take one step for each access to the atomic `m_state`. A job's test of
  `m_cancelled` (`exec`) and its call of the device (`io`) are two steps, and `cancel()` tells the jobs one by
  one while the run goes on. `late` (history) says that a job told by a `cancel()` worked on the device
  after it returned, but for those in `excused`: they had passed their test.
- **`WorkflowEngine`**: the engine and the decisions of `WorkflowRecovery`. `pause()`, `resume()` and `cancel()`
  store flag and state in two steps. A step body is external. `effect` (history) is the set of steps that took effect and were not undone.
- **`WorkflowParts`**: what stands around both engines: builder and factory, the step bodies of
  `WorkflowExecutor` and `VirtualWorkflowRuntime`, the progress engine, both histories,
  `ProgressAggregator` with a step for each time a job thread takes its lock, and the recovery
  policies. `MCWorkflowEngine` composes it with the engine.
- **`PartitionTable`**: `GPTParser`, `GPTWriter`, `PartitionManager`. The disk is the four
  areas of a GPT; an array of entries is one opaque table and its CRC is the table
  itself. Reads fail, writes fail or tear, the client may close the device under the
  manager, and the process may end between any two writes; the layouts remembered by
  manager and writer are variables of their own, because the code reads them at different times.
- **`DeviceManager`**: manager and sessions. A call is a list of session operations, cut at every
  access to `m_state` and `m_cancelled` and every call of the device.
- **`VirtualDevice`**: `VirtualJobDevice` with its failure rules.
- **`Firmware`**, **`ElfImage`**, **`LoaderFramework`**: from files to jobs, to a memory image and a
  cancellable transfer, and to the loader chosen. The programmer's stages run in `execute()` or are
  called alone, again and again; segments are sorted or not, and 64-bit sums wrap.

Services

- **`Runtime`**: the facade, cut where a call tests or sets an atomic, takes or leaves
  `opMutex`, picks up the active session or enters the device.
- **`PluginManager`** and **`Vendors`** (with discovery and negotiation): what is behind its services.
- **`CommandLine`**: `mboot-cli` on an external Runtime: the parser, all commands, the shell, scripts
  within scripts. A line is its words.
- **`DSPManager`** (manager, repository, validator, builder and the studio's package view),
  **`DSPDependency`** (graph and resolver, the loop of `topoSort()` step by step),
  **`DSPLookup`** (indexes, loaders, quirks, profiles) and **`DSPCache`**.
- **`Config`**: `ConfigManager` and its files, documents with wrong types and a restart, and `SafeParser`,
  the conversions of text to numbers. **`RuntimeBridge`**: the studio's GUI thread, thread
  pool and event queue (`initializeBridge` and `shutdownBridge` are its `initialize()` and `shutdown()`).
- **`Observability`** (structured log, session log, memory tracker, profiler; telemetry, diagnostics,
  fault injection with two threads between `shouldInject()` and `inject()`, stress tests with a
  thread that cancels them, benchmarks) and **`VendorSDK`**.

The `MC` modules instantiate these for TLC (`MCJobEngine` has behaviours of the pipeline
in the hands of a client and others of a scheduler that drives it; `SaharaProtocol`, `FirehoseProtocol` and `Transport` need none); where one of them
extends several components, each moves in behaviours of its own while the others are in their initial
state, which keeps the sum of their state spaces instead of the product. The
`*Proofs` modules hold theorems.

## Runs

Passing runs. Each property has at least one mutant that TLC refutes under the same cfg; a
property that is a conjunction has a mutant for each part whose code differs.

| Run | Asks |
|---|---|
| `boot_pipeline` | Does every mix of retries, restarts and rollbacks end (`RunTerminates`), within a bound on handler calls (`InvocationsBounded`), and is Ready reached only with every stage freshly done (`ReadyMeansBooted`; for rollbacks that do not lead ahead, see `RollbackIsBack`)? |
| `sahara` | For every device: the best common version (`BestVersion`), no byte outside the image (`ChunksInImage`), no refused range and no failed write hidden at success (`UploadIsComplete`; a write cut short is hidden, see `UploadIsWhole`), cancel ends the endless upload loop (`CancelEndsCall`). |
| `firehose` | Over a link with late answers, lost and cut writes and short reads: program and read that succeed moved all data once and in order (`TransfersAreWhole`) and an erase that succeeds was accepted by the device (`SuccessIsTheDevices`), with retried chunks and cancels; but for calls that are `foul`. Calls return (`CallsReturn`), and transfers implement `FlashDelivery` (`WritesAreDeliveries`), which knows the same exception. |
| `job_engine` | A rollback restores what several jobs on one partition overwrote (`RollbackIsExact`), success means written (`SuccessMeansWritten`), after `cancel()` returned no job works on the device but one that was between its test and its call (`NoWorkAfterCancel`), a cancel ends a paused run (`CancelEndsEveryRun`). Jobs run in order and once and after `stop()` no thread is alive (`QueueIsHonoured`), and `stop()` returns (`StopReturns`): for one client thread. |
| `workflow_engine` | Success means all steps, in order (`WorkflowIsWhole`), a rollback undoes (`RollbackUndoes`), a cancel stops retries and pauses (`NoStepAfterCancel`, `CancelEndsRun`): for clients that let `run()` return before `rollback()` and `reset()`. The other half of `WorkflowIsWhole`: a builder hands every step to one engine, an executor reports what the device did, progress stays within its range, histories hold the last entries, no update of a job goes unreported, and a policy retries no more than it was told. |
| `devices` | Partition table, with torn writes and crashes: one fault never costs the last complete copy (`SingleFaultSafe`), recovery is exact (`RecoveryIsExact`), a reported write is complete (`WriteIsComplete`), recovery never gives a valid header to entries that are no table (`NoForgedCopy`). Sessions: a destroyed session left its device closed, and every reconnect finds a device it can open (`SessionsAreSound`); after a cancel no operation begins until the next connect (`CancelHolds`). Logs, virtual device and SDK (`ToolsAreExact`): the rings hold the last entries in order, usage and profile add up, events, operations and results are counted once, a fault is injected no more often than allowed and a cancelled stress test finishes one operation at most, the device changes exactly the bytes asked for, the SDK's report and order are those of the registrations, versions are ordered. |
| `transport` | Whatever the system calls do, reads without failure or cancel deliver the device's bytes once and in order, and no handle outlives a failed open (`TransportIsSound`); reads and opens end, cancel included (`CallsReturn`). |
| `dsp` | Every package the manager lists is on the disk as listed, unless a copy skipped a file, and the repository's index is the disk's, unless a scan or a removal threw; what `install()` checked stays satisfied until something is read back after a failure; the caches hold what was put there (`PackagesAreExact`). A resolved graph reports itself and not an earlier one, its path when it has a cycle; manager, validator and resolver agree but for maxima; the lookups find what fits a device (`AnswersAreExact`). |
| `runtime` | Connected means an active session the manager owns, a holder of the mutex never loses its session, and connections counted add up (`ConnectionsAreSound`); no cycle of plugins is loaded and components go with their plugin (unless `unregister` fails), the active vendor is owned, discovery reports each device once for each detector that finds it and the best negotiator wins (`ServicesAreSound`); a script of the command line runs whole and in order, whatever was typed the Runtime is left shut down, and after a cancel nothing is done to a device before a reset (`CommandsAreExact`); every call returns (`CallsFinish`). |
| `images` | Files are read as what is in them or refused: ELF headers and images, firmware plans, loaders; packets, frames and sectors are exact (`FormatsAreExact`); a saved configuration is loaded and an import changes what it names (`ConfigIsExact`); the bridge counts its tasks, the Runtime outlives them and the list shown is current (`BridgeIsSound`). |

Violation runs (`PROJECT.json`, "findings"). `gpt_recover`: `recoverFromBackup()` on a manager that
was not refreshed writes the backup to LBA 0 and destroys the good copy, although the documentation
says it restores the primary. `firehose_late`: an answer that comes after its timeout is taken for the
answer to the next command (`EveryAnswerIsItsOwn`), so that an erase the device refused succeeds, although the
documentation calls Firehose strictly command and response.

## Bounds

`MaxCalls`, `MaxOps`, `MaxRuns` and their like bound the calls of clients, to keep the state
space finite; they are large enough for an operation, its failure, a repair and one
more operation.

- `boot_pipeline`: three working stages (eleven in the code) and two recoveries
  (five): the longest default rollback is two stages, so one that crosses a completed stage
  exists. Eight configurations cover no recovery, no strategy, missing
  handlers, custom rules, exhausted rules, a rollback map, and one that leads ahead, to Ready and Cancelled.
- `sahara`: versions 0..4 lie on both sides of the host's 2..3; a one byte image in
  a word of three values makes offset plus length wrap around.
- `firehose`: up to three units in chunks of two: short, exact and several chunks; four calls: open,
  one that leaves an answer behind, one that finds it, and a cancel. `firehose_late` needs chunks of one and two calls.
- `job_engine`: the pipeline with up to three of four jobs on two partitions, where two that save what
  they overwrite share one, and three calls; the scheduler with two jobs and six calls.
- `workflow_engine`: four steps, one for each kind of recovery decision; four calls of the
  other parts, histories of three entries, two job threads.
- `devices`: two tables, five operations and two faults: a failed write, the recovery
  after it and a second failure. Two sessions and two threads, four calls. Rings of two and
  three entries and four records: a ring comes round once and a half. Four calls of a tool: configure, two
  threads that ask, one that injects; create, run, inject a failure, cancel. A store of four
  bytes with partitions that meet, overlap and end behind it.
- `transport`: seven backends, three bytes, reads that one receive and that only several
  can satisfy (`Minima`, `Rooms`), four calls.
- `dsp`: two packages, one needing the other, in two versions; broken and mistyped manifests;
  three ids of which two share a file name.
- `runtime`: two threads, two sessions, four calls; three plugins that can form a cycle, one of them at a
  time with components that could not be taken out of the registry (`MaxStuck`); four lines
  typed at the shell (`MaxTyped`: connect, cancel, a command, reset) and scripts three deep (`MaxDepth`,
  where the model's stack is full: a script may call itself).
  The threads keep the discipline the studio keeps: life-cycle calls alone, one workflow at
  a time (`Disciplined`); `ConnectionsAreSound` is proved without it.
- `images`: sectors of three bytes, four of them, 32 bits standing for 0..4 and 64 for 0..45
  (the assumption keeps the relation of the widths); ELF files with two segments that meet, overlap
  and end behind the file, in all byte orders and classes and with every header field out of
  range; packages with two entries that share names, partitions and files in every way; payloads
  up to and past what a size field of two bytes tells, with a byte of 16 values; three calls of
  the programmer (`MaxCalls`), each with every fault; five calls of the configuration manager
  (`MaxConfigOps`) on two paths, enough to set, save, restart, choose the path and load.

CHECK_DEADLOCK is off everywhere but in `dsp`: a library at rest, with no call to be made
within the bound, stops. That calls in progress do not get stuck is what the
liveness properties say.

## Fairness

Only the library's own threads are fair, never a client: a thread inside a call
keeps running (`WF` on the steps of the runner, the worker, or the call in
progress). This rests on three things the code has: stage handlers, step bodies
and jobs return; every transport read has a timeout, so an exchange with a dead device ends;
and the pause loops poll with a timed wait. `transport` also assumes that time passes.
`runtime` assumes no more of `opMutex` than that a thread goes on while the mutex is free for it; that
contention ends comes from the number of calls, which is bounded. Nothing is assumed of the device's answers.

## Proofs

TLAPS checks the following for every value of the constants.

- **`BootPipelineProofs`**: `TypeCorrect`, `BoundedInvocations`, `RunningIsExact`,
  `ReadyIsBooted`, from `SizeAssumption` and the assumptions on configurations. A
  bound on handler calls is not inductive as it stands: the strengthening (`Budget`)
  says that each recovery pays for one more pass over the `N + 1` stages, and
  that what was invoked is covered by the passes paid for plus the stage reached.
  `FreshPrefix` says that inside the loop every handled stage behind the
  current one is fresh; the key lemma is that a rollback leads back
  (`RollbackBack`), which the configuration decides: `ReadyMeansBooted` is about those whose rollback
  targets do not lie ahead (`RollsBack`), the other three theorems about all.
- **`SaharaProofs`**: `NegotiatesBestVersion`, `ChunksStayInImage`,
  `UploadsAreComplete`, from `SaharaAssumption`. `SelectIsBest` is the lemma
  about `selectVersion`, `RangeInImage` the one about the bounds test;
  `NothingOwed` is the strengthening for the upload: an upload that still runs owes only what the
  transport called written. That it owes nothing at all is false (`UploadIsWhole`).
- **`FirehoseProofs`**: `FirehoseTypes`, `EraseIsTheDevices`, `TransfersMoveAll` and `ImplementsDelivery`, over any
  link and any client: late answers, lost and cut writes, short reads and cancels at any moment are all there. What
  goes wrong through them is told by `foul`, which is decided when a call begins and when a write goes wrong. The invariant
  says what is under way to the host at each place of a call that is not foul (`Quiet`), and that
  the device holds the units sent, in order (`Held`). `ImplementsDelivery` is the refinement of `FlashDelivery`,
  initial state and every step.
- **`PartitionProofs`**: `OneFaultIsSurvived`, `WritesAreComplete`, `RecoveryRestoresExactly` and
  `RecoveryForgesNothing`, for any set of tables
  and any number of operations and faults, of clients that construct the
  manager on an open device and let it read the layout before recovery
  (`Careful`; without it the first is false, see `gpt_recover`). The inductive
  invariant says for each point inside the two operations that write which copy is
  being replaced and that the other one is complete; the faults are counted from the last
  moment both copies were complete. For recovery a second one (`RInv`) says that the copy it
  works from is kept and how far the other is a copy of it.
- **`JobProofs`**: `JobTypes`, `RollbackExact`, `WrittenOnSuccess`, `NoWorkAfter` for every list of jobs,
  every policy and any cancels, pauses and rollbacks. `NoWorkAfter` ties what `cancel()` has told so far to
  where the run is: a job told does not pass its test again, in no later run either. `WrittenSoFar` says what every partition
  holds after the first jobs of the list (the data of the last of them that writes it),
  `SavedIsBefore` that what a job saved is what was there when it began, `UndoneSoFar` that a
  rollback has come back to what was there before that job; `Holds` and its lemmas carry the
  step from one job to the next. `RunsInOrderAlways` needs no discipline of the clients; `QueueHonoured` adds
  that no worker outlives `stop()`, for one client thread (`OneClient`; with two a `stop()` between
  the other's `start()` and the creation of its worker joins nothing).
- **`WorkflowProofs`**: `WorkflowTypes`, `StepsWhole` (the half of `WorkflowIsWhole` about the engine),
  `RollbackIsWhole` and the action property `CancelIsFinal`, for every list of steps, strategy and
  retry count, also for clients that call `rollback()` beside `run()`. `Progress` says that
  what is before the current step is done and in effect, `CancelIsKnown` that a cancel of this run has its flag
  still set, `Undoing` what cannot become Ready while a rollback is under way.
- **`SessionProofs`**: `CancelsHold`, an action property, without any discipline of the clients: a barred session
  has its flag set and no `connect()` past its first test. `SessionsSound` is for clients that serialise the calls on a
  session, other than `cancel()`, and let none overlap its removal (`Disciplined`; `removeSession()` destroys an object others
  hold raw pointers to, see `NoDanglingUse`). Its invariant says that no two threads work on one session
  (`Apart`), that the operations still to do are on sessions where they belong (`Placed`), that in them a free or a reconnect
  has its disconnect before it or done (`Prepared`), and that state Disconnected means a closed device (`Settled`). The steps fall
  into those inside an operation, which are shown to be `Tidy` and `Orderly` and need one argument for all, and the
  calls, which bring a list of operations each.
- **`RuntimeProofs`** has four parts. For the Runtime, `RuntimeInvariant` and `ConnectionsSound`, for any number of threads and
  sessions and without the discipline the run assumes. `Safe` says at which points a call holds `opMutex`;
  `AddsUp` that the connections counted, those that threads are about to count in
  their hooks, those dropped and the one there is add up: `connect()` and `disconnect()` count after they have left the mutex.
  For the studio's bridge, `TheBridgeIsSound`, for any number of calls and any order in which the pool runs
  their tasks. That the list shown is current when nothing is under way needs `Shows`: the list on the screen, or else the last
  list in the GUI's queue, is the current one, unless an event is queued whose handler will post the
  list anew; the list is read in three steps (`SeenPath`), and a task that changes the devices between them
  still has that event to queue (`Changing`). `Numbered` says that calls, tasks and handlers in the queue belong together one to one, which is why the count of pending
  calls is exact, and `Phases` where each may be while the bridge starts and shuts down, which is why the Runtime outlives its tasks.
  For a transport, `TheTransportIsSound`, for any buffers, any bytes and any interleaving with `cancel()`, the
  clock and the device, of every backend but `Win32Serial` (`"Win32Serial" \notin Backends`; its count is wrong, see
  the deviations). What reads returned is not inductive; `Flows` says of the bytes returned, those in
  the caller's buffer and those on the wire that they follow one another: without a gap in a stream (`StreamFlows`), packet by
  packet over a bulk pipe, where a packet may have been cut by a short buffer (`Chain`), and rising for
  datagrams, which may lose what does not fit (`DatagramsRise`). A serial cancel drops what is on the wire; `StreamFlows`
  holds up to there because the port's own flag keeps such a read from returning. `InCall` says what each cut of a read or
  an open may find, which is why no descriptor outlives a failed open.
  For the command line, `TheShellIsSafe`: `EndsShutDown` and `CancelHoldsInShell`, for any commands, scripts and lines. What was called
  so far says nothing about the next call, so the invariant ties the two together: while a cancel stands that neither a
  reset nor a shutdown took back, the Runtime's flag is set (`Fine`), and from such a state no command, of whatever calls it is
  made, does more than its direct ones (`Good`).

The premises `RollsBack`, `Careful`, `Disciplined` and `OneClient` are conditions on the configuration and the
clients, not on the code, and so is the exception `foul` on the link; each has a row below, the finding, or the sentence above that says
what goes wrong without it; the one on `Backends` leaves out a backend whose code is wrong. The other assumptions are those of the constants (sizes, finite sets, tables that differ).

Only model-checked: every liveness property (outside the prover's reach, as is
ENABLED); what recursive definitions compute (`Packets`, `VendorSDK`: induction over data);
and the safety properties `PackagesAreExact`, `AnswersAreExact`, `ServicesAreSound`, `ToolsAreExact`,
`FormatsAreExact`, `ConfigIsExact`, the part `ScriptsRunWhole` of `CommandsAreExact` and the half of `WorkflowIsWhole` about what stands around
the engines. Nearly all of these say what a fold, a graph search or a parser computes, and need induction over its input.

## Known deviations

What the code does not keep, found while modelling. Each is a formula of its module. To see
the trace, take the cfg named, put the formula in place of its properties and change the
constants given. The first table holds statements of the repository (documents, comments,
tests) and what happens instead.

| Formula | cfg, changes | Statement | What happens |
|---|---|---|---|
| `CancelBeforeStagesHonoured` | MCBootPipeline | tests/pipeline/BootPipelineTest.cpp, testCancelBeforeRun | a `cancel()` between the test and the reset of `m_cancelled` (BootPipeline.cpp:31) is lost |
| `ResetFollowsProtocol` | SaharaProtocol | SaharaProtocol.cpp:160, "DONE_REQ -> DONE_RESP -> RESET_REQ -> RESET_RESP" | END_IMAGE is accepted for every packet (line 307), so `reset()` succeeds without either reply |
| `MachineFinishes` | SaharaProtocol | SaharaStateMachine.cpp:48, "WaitingResetResp -> Finished" | the row is for event 0, which nobody raises |
| `CancelledRunIsNotOk` | MCJobEngine | tests/job/JobEngineTest.cpp:1187 | a cancel between two jobs makes `run()` return success with jobs undone (JobPipeline.cpp:58) |
| `ResumeContinues` | MCJobEngine | tests/job/JobEngineTest.cpp:1589 | a paused scheduler that is resumed may never run its queue: the worker has left |
| `TotalsNeverShrink` | MCJobEngine | tests/job/JobEngineTest.cpp:1618 | totals are overwritten with the last run's counts (JobScheduler.cpp:142) |
| `NeverTerminates` | MCJobEngine | docs/developer/ThreadSafety.md:11 and :40 | start, pause, start assigns over a joinable thread: `std::terminate` (JobScheduler.cpp:41) |
| `JobListIsSafe` | MCJobEngine | the same | `cancel()` walks over `m_jobs` while the worker clears it (JobScheduler.cpp:73) |
| `StopReturns` | MCJobEngine, `Clients = {"c", "d"}` | the same | a `pause()` of a second thread overwrites Shutdown and `stop()` joins for ever (JobScheduler.cpp:59) |
| `AutoRollbackUndoes` | MCWorkflowEngine | WorkflowRecovery.cpp:67, "Storage operation failed, rolling back" | a rollback decided by recovery undoes nothing: `rollback()` refuses while running |
| `CancelIsNotLost` | MCWorkflowEngine | docs/developer/ThreadSafety.md:11 and :31 | `run()` clears `m_cancelled` after it tested the state (WorkflowEngine.cpp:101) |
| `RollbackExcludesSteps` | MCWorkflowEngine, `Joined = FALSE` | the same | `cancel()` opens `rollback()` while a step still executes (WorkflowEngine.cpp:193) |
| `ConfigureComesFirst` | FirehoseProtocol | docs/architecture/Firehose.md:89 | a lost answer to `<reset>` leaves `m_configured` set for a device that restarted (FirehoseProtocol.cpp:86) |
| `EveryTransferIsWhole` | FirehoseProtocol | docs/architecture/Firehose.md:9 | a program whose chunk arrived although its write failed stores it twice, one whose write was cut stores less, and a transfer that begins with an answer of an earlier call on the link, left by a timeout or a `cancel()`, takes it for its own |
| `CancelStopsTransfers` | FirehoseProtocol | docs/architecture/Firehose.md:244 | `cancel()` before the first transfer reaches no stream engine (FirehoseProtocol.cpp:237) |
| `PhaseReturns` | FirehoseProtocol | docs/architecture/Firehose.md:64 | `read()` leaves phase Transferring (FirehoseProtocol.cpp:179) |
| `PartitionCountIsExact` | MCImages | docs/architecture/Firehose.md:115 | `writePartition()` announces one sector too many at exact multiples (FirehoseAdapter.cpp:271) |
| `TornTableIsNotUsed` | MCDevices | docs/architecture/GPT.md:109, "CRC mismatch triggers recovery" | `parse()` uses an array that does not match its header although the backup is whole (GPTParser.cpp:439) |
| `NoDanglingUse` | MCDevices, `Disciplined = FALSE` | docs/developer/ThreadSafety.md:47 and :11 | a pointer from `session()` is used after another thread's `removeSession()` |
| `LogIsLast` | MCDevices, `LogThreads = {1, 2}` | docs/developer/ThreadSafety.md:66, "`std::mutex` on output stream" | `StructuredLogger` has no mutex: two threads write one slot |
| `RingIsLast` | MCDevices, `ResizeAnytime = TRUE` | SessionLogger.hpp:53 | `setMaxEntries()` neither locks nor moves the ring |
| `CloseAllReopens` | Transport | TransportManager.hpp:52, "Closes all managed transports" | after `closeAll()` a cancelled transport cannot be opened again |
| `DeliveredIntact` | Transport, `Backends = {"Win32Serial"}` | SerialTransport's `minBytes` | `Win32SerialBackend::read` overwrites its count with the last part's |
| `NoDanglingSession` | MCRuntime | docs/developer/ThreadSafety.md:22, "Internal std::mutex on all public methods" | the calls of `LockMode::None` use a session that `disconnect()` destroys |
| `ListsSurvive` | MCImages | docs/reference/ConfigReference.md:60 and :70, tests/config/ConfigTest.cpp:388 | lists are exported inside their section and imported from the top level only: they are lost on save and load |
| `ShutdownCanEnd` | MCImages | docs/gui/Architecture.md:29 | `RuntimeBridge::shutdown()` waits on the GUI thread for handlers only that thread can run (RuntimeBridge.cpp:60-78, :263) |
| `ExitStatusTells` | MCRuntime | docs/reference/CLIReference.md, "Exit Codes" | a command that fails prints its code and the process ends with 0 (CliApplication.cpp, `executeParsed()`) |
| `ClearedIsForgotten` | MCDevices | docs/sdk/Overview.md:19, "clear() - Clear all registrations" | `clear()` keeps the nodes of the dependency graph (VendorSDK.cpp:174) |

The others contradict no line of the repository but what a caller would expect (cfg in
parentheses):

- Boot pipeline (MCBootPipeline): `RollbackIsBack` (`setRollbackTarget()` takes a stage ahead,
  RecoveryStrategy.hpp:101: a run that "rolls back" to Ready is a success with stages left out).
- Sahara (SaharaProtocol): `UploadIsWhole` (the count `write()` returns is not looked at, SaharaProtocol.cpp:139, and a backend
  whose time is up succeeds with less), `IdentityIsOfThisDevice` (`handshake()` keeps the fields of an earlier device that this
  one does not send; only `resetState()` forgets them).
- Jobs (MCJobEngine): `CancelStopsTheDevice` (a job between its test of `m_cancelled` and its call of the device
  still writes or erases after `cancel()` returned, GenericJobs.cpp:101, :303).
- DSP (MCDSPManager): `ListedIsThere` (`install()` ignores the error of `copy_file`, DSPManager.cpp:230, and lists a package whose
  manifest is not there), `ReloadIsChecked` (what is read back is taken without a check), `PathIsCurrent` (`circularDependencyPath()`
  returns the cycle of an earlier graph, DSPDependencyGraph.cpp:119), `MaximaAreKept` (`resolveInstall()` and `resolveUpdate()` look
  at no maximum),
  `CountsAreDisks` (`repair()` doubles the lists), `CorruptedStaysOut`
  (disable, enable hides the mark), `EmptyHasNoCycle` (a stale flag), `InstallOrderIsComplete` (the order
  does not bring what is missing), `BlockersSeen` (a critical quirk is not found for a partly
  identified device), `NoTornLoader`, `NamesApart` (two ids share a file name).
- Runtime (MCRuntime): `ShutdownCloses` (devices stay open), `NoLateNotification` (removed
  observers are still called). Plugins: `ComponentsGo` (an error of
  `unregisterPluginComponents()` is ignored, PluginManager.cpp:274, :443: components outlive their plugin), `EnabledIsLive`, `InitializedOnce`, `DependenciesStay`,
  `LibraryOutlives`: `enable()` revives a failed plugin, `reload()` neither shuts down
  nor keeps the library, `unload()` ignores dependents. Vendors: `ShutdownOnce`,
  `FailedOpenRecovers`, `OneExecution`. Discovery: `IdentityIsKept` (`identify()` also goes by name).
- Images (MCImages). ELF: `TruncatedStillLoads`, `CancelledNotStarted`,
  `InspectorFollowsOrder`, `StagesInOrder` (`startExecution()` alone starts what was not transferred),
  `CopiesStayInside` (unsorted or wrapping segments are copied beside the image). Firmware: `MissingIsSeen`, `NoCollisionAtAll`, `WildcardsAgree`,
  `RawResolves`. Loaders: `PutIsCached`, `KeyIsRespected`. Packets: `EscapesAreUndone` (escaped on
  sending, never unescaped), `NestedSurvives`, `WrittenOnce` (a retried chunk is stored twice),
  `SuccessIsComplete` (cancel and reset during a stream make it a success). Configuration: `SavedIsOnDisk`
  (`save()` ignores write errors), `FailedSaveIsNone` (a failed `save()` has changed the manager). Bridge: `QuietOperationIsCurrent`, `OneFlash`,
  `NoTaskLeft`. Scaffolds: `LateAnswersAreDropped`, `FailedIsClosed`, `CutIsRefused`, `FailureIsKept`.
- Devices (MCDevices). Observability: `FlushedOnce`, `UsageIsLive`, `HealthIsShown` (`worstHealth()` compares
  with `<`, so a report is always healthy; `DiagnosticSession` compares with `>`), `FailuresAreCounted` (operations of a
  device that disconnects are failed but not in the total). Virtual device: `NoOverrun`
  (`erasePartition()` writes past the store), `ReadIsWhole` (a short read is a success). SDK:
  `PreReleasesAgree` (`checkSDKVersion` ranks 1.2.3-rc.1 above 1.2.3), `RemovedIsSeen`
  (`compareVersions` finds no class, so everything is compatible).

Observations without a formula. Boot pipeline: `maxStageRetries` is unused; retry counts survive `retry()`;
`lastError` keeps an earlier error after Ready; a handler registered for Ready
never runs, but after a rollback to Ready; a cancel during the last handler yields Ready with the flag left set.
Jobs: `FlashJob::rollback` only logs; `enqueueWithDependencies` ignores the
dependencies; `RecoveryPolicy::evaluate` is never called; a job the worker has
popped can be lost by pause, resume, pause. Workflow: `rollback()`
leaves `completed` and the current step, so a later run does not repeat the steps
it has undone; `clear()` of the builder keeps the context, and a second `build()` has a no-op for a step whose
body the first one moved out; the steps of the factory's workflows do nothing and succeed; `uploadLoader()` of the executor
uploads nothing and `restore()` writes an empty buffer; progress shows 100 % after the first of two steps and
falls back. `RetryForever` retries a cancelled job and a negative `maxRetries` has no limit; `JobHistory::find` returns the
oldest matches; callbacks of the aggregator can arrive out of order. Diagnostics: `runCategory()` drops a
check that fails. Faults: a `Once` fault without a limit can be injected by two threads. Stress: a `cancel()` between the test of the state
and the store of Running is lost. Firehose: an answer that does not parse counts as success;
after `reset()` the adapter cannot be opened before it is closed; the data of
`peek` is always empty. GPT: `recoverFromBackup()` does nothing when both
headers are valid although one array may not match; a manager constructed before
the device is open keeps a writer with an empty layout; `sizeInBytes()` counts
512 bytes a sector. Transport: USB reads ignore `minBytes`; a serial cancel's `tcflush` drops
bytes; datagrams are cut to the buffer; a failed read drops what it had. DSP: the default
version 1.0.0 means "none", "no bound" or 1.0.0 depending on the reader; `update()` never updates;
`verify(Full)` always fails; the builder drops dependencies. Firmware: the hash is an XOR sum;
dependencies are never read; a failed plan leaves its jobs in the pipeline. Loaders: the
matcher's criteria stick; `validateHash` only tests for emptiness. Chunk engine: `cancel()` sticks until
`reset()`, and a `reset()` during a stream undoes it. Scaffolds: a payload size is
cast to 16 bits; UNISOC's probe accepts any answer that begins with 0. SDK: unresolved dependencies leave the report
valid. Virtual device: `disconnectOnErase` is never honoured and `m_cancelled` never reset.

## What is not modelled

`PROJECT.json` lists every part with its reason. In short: the operating system's side of
transports, platform and plugins (pure I/O); cryptography (third party); widgets (no operation depends on their state); enumeration of ports and USB devices; value types and conversions
to text; the text formats of manifests, exports and reports.

Inside the modelled parts: job states, timers and progress numbers; the insertion
and removal of workflow steps; the GUIDs and names of a GPT and the contents of
partitions; progress callbacks, statistics other than the runtime's connections, and line settings of
serial ports and sockets, `flush()` and `sendZLP()`. The in-memory virtual transports and `reconnect()` of a vendor
session are left out.

## Plan

1. Theorems next: the vendor part of `ServicesAreSound`.
2. The cover lemma of the sector mapping.
3. Composition of `Transport` with Sahara and Firehose in place of their external link, and of
   `Runtime` with `DeviceManager`.
