---------------------------- MODULE JobScheduler ----------------------------
(***************************************************************************)
(* JobScheduler (lib/src/job/JobScheduler.cpp): client threads, a worker   *)
(* thread and the pipeline of module JobPipeline that the worker drives    *)
(* with one job at a time.                                                 *)
(*                                                                         *)
(* m_state is an atomic that every call and the worker read and write      *)
(* without the mutex, so each access is a step of its own; m_mutex only    *)
(* guards the queue.                                                       *)
(***************************************************************************)
EXTENDS JobPipeline

CONSTANT Clients   \* the threads that call the scheduler

VARIABLES
    state,      \* m_state
    queue,      \* m_queue
    wpc,        \* where the worker thread is, "none" before the first start()
    held,       \* the job the worker has popped
    worker,     \* m_worker: "null", "joinable" or "joined"
    cpc,        \* cpc[c]: the next step of client c's call, "idle" between calls
    totals,     \* m_totalCompleted, m_totalFailed, m_totalCancelled
    crash,      \* the process died: "terminate", or a data race on m_jobs
    ran,        \* history: the jobs the worker started, in order
    order,      \* history: the jobs in the order they were enqueued
    asked       \* history: what the clients last asked for: "run", "pause", "stop"

svars == <<state, queue, wpc, held, worker, cpc, totals, crash, ran, order, asked>>
vars  == <<pvars, svars>>

Init ==
    /\ PInit
    /\ state = "Idle" /\ queue = <<>>
    /\ wpc = "none" /\ held = None /\ worker = "null"
    /\ cpc = [c \in Clients |-> "idle"]
    /\ totals = [completed |-> 0, failed |-> 0, cancelled |-> 0]
    /\ crash = None
    /\ ran = <<>> /\ order = <<>> /\ asked = "stop"

------------------------------------------------------------------------------
(* The worker thread: processQueue().                                      *)

Work(from, to) == wpc = from /\ wpc' = to /\ crash = None

wTop ==
    /\ Work("top", IF state = "Running" THEN "lock" ELSE "exit")
    /\ UNCHANGED <<pvars, state, queue, held, worker, cpc, totals, crash, ran, order, asked>>

\* wait_for ends with the queue still empty: by time-out, or because the
\* state changed; the worker starts over.
wEmpty ==
    /\ queue = <<>>
    /\ Work("lock", "top")
    /\ UNCHANGED <<pvars, state, queue, held, worker, cpc, totals, crash, ran, order, asked>>

\* Mutant: the job is run but stays at the head of the queue.
wPopKeepsHead ==
    /\ queue # <<>>
    /\ IF state # "Running"
       THEN Work("lock", "exit") /\ UNCHANGED <<queue, held>>
       ELSE Work("lock", "held") /\ held' = Head(queue) /\ UNCHANGED queue
    /\ UNCHANGED <<pvars, state, worker, cpc, totals, crash, ran, order, asked>>

wPop ==
    /\ queue # <<>>
    /\ IF state # "Running"
       THEN Work("lock", "exit") /\ UNCHANGED <<queue, held>>
       ELSE Work("lock", "held") /\ held' = Head(queue) /\ queue' = Tail(queue)
    /\ UNCHANGED <<pvars, state, worker, cpc, totals, crash, ran, order, asked>>

\* With a job in its hands the worker waits while the scheduler is paused,
\* then looks at the state once more and may drop the job.
wHeld ==
    /\ \/ Work("held", IF state = "Paused" THEN "wait" ELSE "load")
       \/ state # "Paused" /\ Work("wait", "recheck")
       \/ Work("recheck", IF state = "Running" THEN "load" ELSE "exit")
    /\ UNCHANGED <<pvars, state, queue, held, worker, cpc, totals, crash, ran, order, asked>>

iterating == \E c \in Clients : cpc[c] \in {"iterate", "stopIterate"}

\* clearJobs() and addJob() change m_jobs; a client that iterates over it in
\* cancel() at the same time may find freed memory.
wLoad ==
    /\ Work("load", "run")
    /\ jobs' = <<held>> /\ completed' = 0 /\ failed' = 0 /\ i' = 1
    /\ \/ UNCHANGED crash
       \/ iterating /\ crash' = "race"
    /\ UNCHANGED <<ppc, rb, running, result, flags, device, history, calls,
                   state, queue, held, worker, cpc, totals, ran, order, asked>>

wRun ==
    /\ Work("run", "pipeline")
    /\ beginRun
    /\ ran' = Append(ran, held)
    /\ UNCHANGED <<calls, state, queue, held, worker, cpc, totals, crash, order, asked>>

wPipeline ==
    /\ crash = None /\ wpc = "pipeline"
    /\ Runner
    /\ UNCHANGED svars

\* Mutant: the job that is being counted is taken off the pipeline's count.
wCountMinusOne ==
    /\ ppc = "idle"
    /\ Work("pipeline", "top")
    /\ totals' = [completed |-> completed - 1, failed |-> failed, cancelled |-> totals.cancelled]
    /\ UNCHANGED <<pvars, state, queue, held, worker, cpc, crash, ran, order, asked>>

\* The result is counted, then updateCounters() overwrites two of the totals
\* with the counts of this one run.
wCount ==
    /\ ppc = "idle"
    /\ Work("pipeline", "top")
    /\ totals' = [completed |-> completed, failed |-> failed,
                  cancelled |-> totals.cancelled + (IF result = "Cancelled" THEN 1 ELSE 0)]
    /\ UNCHANGED <<pvars, state, queue, held, worker, cpc, crash, ran, order, asked>>

wExit ==
    /\ Work("exit", "done")
    /\ state' = "Idle"
    /\ UNCHANGED <<pvars, queue, held, worker, cpc, totals, crash, ran, order, asked>>

Worker == wTop \/ wEmpty \/ wPop \/ wHeld \/ wLoad \/ wRun \/ wPipeline \/ wCount \/ wExit

------------------------------------------------------------------------------
(* The calls of a client.                                                  *)

Begin(c) == crash = None /\ cpc[c] = "idle" /\ Call
At(c, from, to) == crash = None /\ cpc[c] = from /\ cpc' = [cpc EXCEPT ![c] = to]
Goto(c, to) == cpc' = [cpc EXCEPT ![c] = to]

pipelineAlone == UNCHANGED <<run_, jobs, flags, device, history>>

\* enqueue() and enqueueWithDependencies(), which keeps the dependencies and
\* never looks at them.
enqueue(c, j) ==
    /\ crash = None /\ cpc[c] = "idle"
    /\ j \notin ToSet(order)
    /\ queue' = Append(queue, j) /\ order' = Append(order, j)
    /\ UNCHANGED <<pvars, state, wpc, held, worker, cpc, totals, crash, ran, asked>>

start_(c) ==
    /\ Begin(c)
    /\ IF state = "Idle"
       THEN state' = "Running" /\ Goto(c, "spawn") /\ asked' = "run"
       ELSE UNCHANGED <<state, cpc, asked>>
    /\ pipelineAlone
    /\ UNCHANGED <<queue, wpc, held, worker, totals, crash, ran, order>>

\* The new thread replaces the old one in m_worker; destroying a thread that
\* is still joinable calls std::terminate.
spawn(c) ==
    /\ At(c, "spawn", "idle")
    /\ IF worker = "joinable"
       THEN crash' = "terminate" /\ UNCHANGED <<worker, wpc>>
       ELSE worker' = "joinable" /\ wpc' = "top" /\ UNCHANGED crash
    /\ UNCHANGED <<pvars, state, queue, held, totals, ran, order, asked>>

stop(c) ==
    /\ Begin(c)
    /\ state' = "Shutdown"
    /\ Goto(c, "stopPipeline")
    /\ pipelineAlone
    /\ asked' = "stop"
    /\ UNCHANGED <<queue, wpc, held, worker, totals, crash, ran, order>>

\* Mutant: m_cancelled is not set, only the jobs are told.
cancelFlagMissing(c, from, to) ==
    /\ At(c, from, to)
    /\ UNCHANGED <<pvars, state, queue, wpc, held, worker, totals, crash, ran, order, asked>>

\* m_pipeline.cancel(): the flag, then an unlocked walk over m_jobs.
cancelFlag(c, from, to) ==
    /\ At(c, from, to)
    /\ cancelled' = TRUE
    /\ UNCHANGED <<paused, jcancel, telling, run_, jobs, device, history, calls>>
    /\ UNCHANGED <<state, queue, wpc, held, worker, totals, crash, ran, order, asked>>

cancelJobs(c, from, to) ==
    /\ At(c, from, to)
    /\ jcancel' = jcancel \cup Loaded
    /\ UNCHANGED <<paused, cancelled, telling, run_, jobs, device, history, calls>>
    /\ UNCHANGED <<state, queue, wpc, held, worker, totals, crash, ran, order, asked>>

stopQueue(c) ==
    /\ At(c, "stopQueue", "join")
    /\ queue' = <<>>
    /\ UNCHANGED <<pvars, state, wpc, held, worker, totals, crash, ran, order, asked>>

\* Mutant: stop() returns without waiting for the worker.
joinWorkerSkipped(c) ==
    /\ At(c, "join", "idle")
    /\ UNCHANGED <<worker, pvars, state, queue, wpc, held, totals, crash, ran, order, asked>>

joinWorker(c) ==
    /\ worker = "joinable" => wpc = "done"
    /\ At(c, "join", "idle")
    /\ worker' = IF worker = "joinable" THEN "joined" ELSE worker
    /\ UNCHANGED <<pvars, state, queue, wpc, held, totals, crash, ran, order, asked>>

pause_(c) ==
    /\ Begin(c)
    /\ state' = "Paused"
    /\ Goto(c, "pausePipeline")
    /\ pipelineAlone
    /\ asked' = IF asked = "run" THEN "pause" ELSE asked
    /\ UNCHANGED <<queue, wpc, held, worker, totals, crash, ran, order>>

resume_(c) ==
    /\ Begin(c)
    /\ IF state = "Paused"
       THEN state' = "Running" /\ Goto(c, "resumePipeline")
       ELSE UNCHANGED <<state, cpc>>
    /\ pipelineAlone
    /\ asked' = IF asked = "pause" THEN "run" ELSE asked
    /\ UNCHANGED <<queue, wpc, held, worker, totals, crash, ran, order>>

setPipelinePaused(c) ==
    /\ \/ At(c, "pausePipeline", "idle") /\ setPaused(TRUE)
       \/ At(c, "resumePipeline", "idle") /\ setPaused(FALSE)
    /\ UNCHANGED <<calls, state, queue, wpc, held, worker, totals, crash, ran, order, asked>>

\* cancel(jobId) ignores the id.
cancel_(c) ==
    /\ Begin(c)
    /\ Goto(c, "cancelPipeline")
    /\ pipelineAlone
    /\ UNCHANGED <<state, queue, wpc, held, worker, totals, crash, ran, order, asked>>

Step(c) ==
    \/ spawn(c) \/ stopQueue(c) \/ joinWorker(c) \/ setPipelinePaused(c)
    \/ cancelFlag(c, "stopPipeline", "stopIterate") \/ cancelJobs(c, "stopIterate", "stopQueue")
    \/ cancelFlag(c, "cancelPipeline", "iterate") \/ cancelJobs(c, "iterate", "idle")

Client(c) ==
    \/ \E j \in Jobs : enqueue(c, j)
    \/ start_(c) \/ stop(c) \/ pause_(c) \/ resume_(c) \/ cancel_(c)
    \/ Step(c)

Next == Worker \/ \E c \in Clients : Client(c)

Spec == Init /\ [][Next]_vars

\* The worker and a client inside a call keep running; a job's device
\* operation and wait_for return in bounded time.  No client need ever call.
FairSpec == Spec /\ WF_vars(Worker) /\ \A c \in Clients : WF_vars(Step(c))

------------------------------------------------------------------------------
(* Properties.                                                             *)

\* Every variable has its type.
STypeOK ==
    /\ PTypeOK
    /\ state \in {"Idle", "Running", "Paused", "Shutdown"}
    /\ ToSet(queue) \subseteq Jobs /\ ToSet(ran) \subseteq Jobs /\ ToSet(order) \subseteq Jobs
    /\ wpc \in {"none", "top", "lock", "held", "wait", "recheck", "load", "run", "pipeline", "exit", "done"}
    /\ held \in Jobs \cup {None}
    /\ worker \in {"null", "joinable", "joined"}
    /\ \A c \in Clients : cpc[c] \in {"idle", "spawn", "stopPipeline", "stopIterate", "stopQueue",
                                     "join", "pausePipeline", "resumePipeline", "cancelPipeline", "iterate"}
    /\ totals \in [{"completed", "failed", "cancelled"} -> Nat]
    /\ crash \in {None, "terminate", "race"}

place(j) == CHOOSE k \in DOMAIN order : order[k] = j

\* The worker runs jobs in the order they were enqueued and none twice,
\* whatever stops, restarts, pauses and cancels come between.
RunsInOrder == \A a, b \in DOMAIN ran : a < b => place(ran[a]) < place(ran[b])

\* Between the return of stop() and the next start() no thread of the
\* scheduler is alive: nothing touches the device any more.
StopIsFinal ==
    (asked = "stop" /\ crash = None /\ \A c \in Clients : cpc[c] = "idle") => wpc \in {"none", "done"}

\* The queue is worked off in order, and by nobody once stop() has returned.
QueueIsHonoured == RunsInOrder /\ StopIsFinal

\* A cancelled run returns, also while it is paused, whether a client drives the
\* pipeline or the worker does; but for a process that has died.
CancelEndsEveryRun == (ppc # "idle" /\ cancelled) ~> (ppc = "idle" \/ crash # None)

\* stop() returns: the worker it joins leaves its loops, also from a pause.
StopReturns ==
    \A c \in Clients : cpc[c] = "stopPipeline" ~> (cpc[c] = "idle" \/ crash # None)

\* tests/job/JobEngineTest.cpp:1589, testSchedulerPauseResume waits, after
\* start(), pause() and resume(), "while (scheduler.stats().totalCompleted < 1":
\* a resumed scheduler goes on with the queue.
ResumeContinues ==
    (asked = "run" /\ queue # <<>>) ~> (queue = <<>> \/ asked # "run" \/ crash # None)

\* tests/job/JobEngineTest.cpp:1618, testSchedulerStats: once totalCompleted
\* has been seen at 1, after stop() still "stats.totalCompleted >= std::size_t(1)".
TotalsNeverShrink == [][totals'.completed >= totals.completed]_vars

\* docs/developer/ThreadSafety.md:11 and :40, JobScheduler: "All operations
\* safe from any thread without external synchronization": no sequence of
\* calls ends the process.
NeverTerminates == crash # "terminate"

\* The same statement: no two threads are in m_jobs at once.
JobListIsSafe == ~(wpc = "load" /\ iterating)
==============================================================================
