------------------------------- MODULE Runtime -------------------------------
(***************************************************************************)
(* The facade of the library: Runtime (runtime/Runtime.cpp) with its       *)
(* services, called by several threads.                                    *)
(*                                                                         *)
(* A call is cut where the code tests or sets one of the atomics of        *)
(* RuntimeState, takes or leaves opMutex, picks up the active session or   *)
(* enters the device.  Most calls run without opMutex (LockMode::None);    *)
(* the four Locked ones and the life-cycle calls hold it.  The bodies of   *)
(* discovery, jobs, plugins and firmware are modules of their own and only *)
(* answer here; sessions are reduced to being owned and being open.        *)
(***************************************************************************)
EXTENDS Integers, FiniteSets

CONSTANTS
    Callers,      \* threads that use the runtime
    NoOne,        \* no thread, no session
    Links,        \* the session objects that may come to be
    Calls,        \* the calls clients make
    Watchers,     \* observers
    Disciplined,  \* clients let no life-cycle call overlap another call and
                  \* run one workflow at a time
    MaxRuns       \* bound on the calls of all threads

Locked   == {"connect", "reconnect", "flashPackage", "workflowType"}
Unlocked == {"discover", "memory", "backup", "restore", "flashPath", "loadPackage", "runJob", "workflow"}
Controls == {"cancel", "pause", "resume", "disconnect", "reset", "initialize", "shutdown"}
Watching == {"addObserver", "removeObserver"}

ASSUME RuntimeAssumption ==
    /\ Calls \subseteq Locked \cup Unlocked \cup Controls \cup Watching
    /\ Disciplined \in BOOLEAN /\ MaxRuns \in Nat /\ NoOne \notin Callers \cup Links
    /\ IsFiniteSet(Callers)

VARIABLES
    initialized, connected, cancelled, paused,   \* RuntimeState
    opMutex,      \* the thread that holds it
    services,     \* m_services is there
    active,       \* DeviceService::m_activeSession
    owned, opened,  \* the sessions of the DeviceManager; those with an open device
    workflow,     \* WorkflowService::m_currentWorkflow: the thread it runs on
    wfStop,       \* it was cancelled
    observers,    \* ObserverManager::m_observers
    th,           \* th[t]: the call thread t is in: its next step (pc), the session pointer it
                  \* works on (link), its result so far, the observers still to be notified
    stats,        \* RuntimeStatistics: connects, disconnects
    dropped,      \* history: connections shutdown() has forgotten
    runs

state == <<initialized, connected, cancelled, paused>>
dev   == <<active, owned, opened>>
wf    == <<workflow, wfStop>>
rvars == <<state, opMutex, services, dev, wf, observers, th, stats, dropped, runs>>

Quiet == [pc |-> "idle", call |-> "none", link |-> NoOne, res |-> "ok", copied |-> {}]

RInit ==
    /\ initialized = FALSE /\ connected = FALSE /\ cancelled = FALSE /\ paused = FALSE
    /\ opMutex = NoOne /\ services = FALSE
    /\ active = NoOne /\ owned = {} /\ opened = {}
    /\ workflow = NoOne /\ wfStop = FALSE
    /\ observers = {} /\ th = [t \in Callers |-> Quiet]
    /\ stats = [conn |-> 0, disc |-> 0] /\ dropped = 0 /\ runs = 0

\* OperationOptions and the LockMode every call passes on.
ModeAll(c) == "Exclusive"
Mode(c) == IF c \in Locked THEN "Exclusive" ELSE "None"

\* Calls whose outcome orchestrate() reports to the hooks.
Orchestrated == {"connect", "workflow", "loadPackage", "runJob"}
\* Calls that run a workflow through Runtime::executeWorkflow(), which is orchestrated itself.
Nesting   == {"flashPackage", "flashPath", "backup", "restore"}
Flashing  == Nesting \cup {"workflow", "workflowType"}
LifeCycle == {"initialize", "shutdown", "reset"}

At(t, p)   == th[t].pc = p
In(t, cs)  == th[t].call \in cs
Busy(t)    == ~ At(t, "idle")
unlock(t)  == opMutex' = IF opMutex = t THEN NoOne ELSE opMutex

\* Thread t goes on at p with result r and session pointer l.
to(t, p, r, l) == th' = [th EXCEPT ![t] = IF p = "idle" THEN Quiet
                                          ELSE [@ EXCEPT !.pc = p, !.res = r, !.link = l]]
goto(t, p)     == to(t, p, th[t].res, th[t].link)
answer(t, p, r) == to(t, p, r, th[t].link)

\* The call returns: OperationContext's lock goes, and orchestrate() reports.
leave(t, r) == unlock(t) /\ to(t, IF In(t, Orchestrated) THEN "hooks" ELSE "idle", r, NoOne)

Rest == UNCHANGED <<observers, stats, dropped, runs>>

------------------------------------------------------------------------------
(* Entry                                                                   *)

\* A client calls.  Every operation tests `initialized' before it takes the mutex;
\* the life-cycle calls and disconnect() go for the mutex, cancel(), pause(), resume()
\* and reset() for the atomics, of a runtime that is not initialized too.
enter(t) ==
    \E c \in Calls :
        /\ ~ Busy(t) /\ runs < MaxRuns
        /\ Disciplined =>
              /\ c \in LifeCycle => \A u \in Callers : ~ Busy(u)
              /\ \A u \in Callers : ~ In(u, LifeCycle)
              /\ c \in Flashing => \A u \in Callers : ~ In(u, Flashing)
        /\ runs' = runs + 1
        /\ LET p == IF c \in Watching \cup Controls THEN c
                    ELSE IF c = "workflow" THEN "exec"
                    ELSE IF ~ initialized THEN (IF c \in Orchestrated THEN "hooks" ELSE "idle")
                    ELSE IF Mode(c) = "Exclusive" THEN "lock" ELSE "test"
               r == IF c \in Locked \cup Unlocked /\ ~ initialized THEN "error" ELSE "ok"
           IN th' = [th EXCEPT ![t] = IF p = "idle" THEN @ ELSE [Quiet EXCEPT !.pc = p, !.call = c, !.res = r]]
        /\ UNCHANGED <<state, opMutex, services, dev, wf, observers, stats, dropped>>

\* std::unique_lock on opMutex.
lock(t) ==
    /\ At(t, "lock") /\ opMutex = NoOne
    /\ opMutex' = t /\ goto(t, "test")
    /\ UNCHANGED <<state, services, dev, wf>> /\ Rest

\* A cancelled runtime starts nothing.
test(t) ==
    /\ At(t, "test")
    /\ IF cancelled THEN leave(t, "cancelled") ELSE goto(t, "body") /\ UNCHANGED opMutex
    /\ UNCHANGED <<state, services, dev, wf>> /\ Rest

------------------------------------------------------------------------------
(* Bodies                                                                  *)

\* DeviceService::connect: a session of its own, which stays with the manager when
\* connecting it fails.
connect(t) ==
    /\ At(t, "body") /\ In(t, {"connect"})
    /\ \/ leave(t, "error") /\ UNCHANGED owned
       \/ \E s \in Links \ owned :
            ~ connected /\ owned' = owned \cup {s} /\ to(t, "opening", "ok", s) /\ UNCHANGED opMutex
    /\ UNCHANGED <<state, services, active, opened, wf>> /\ Rest

\* session->connect() returns; only then is the session the active one.
connectEnd(t) ==
    /\ At(t, "opening")
    /\ \/ /\ active' = th[t].link /\ opened' = opened \cup {th[t].link} /\ connected' = TRUE
          /\ leave(t, "ok")
       \/ leave(t, "error") /\ UNCHANGED <<active, opened, connected>>
    /\ UNCHANGED <<initialized, cancelled, paused, services, owned, wf>> /\ Rest

\* DeviceService::reconnect: close, and open again if the device is there.
reconnect(t) ==
    /\ At(t, "body") /\ In(t, {"reconnect"})
    /\ \/ active = NoOne /\ leave(t, "error") /\ UNCHANGED opened
       \/ active # NoOne /\ leave(t, "ok") /\ opened' = opened \cup {active}
       \/ active # NoOne /\ leave(t, "error") /\ opened' = opened \ {active}
    /\ UNCHANGED <<state, services, active, owned, wf>> /\ Rest

\* The bodies that other modules detail only answer here.
answers(t, c) ==
    /\ At(t, "body") /\ In(t, {c})
    /\ \E r \in {"ok", "error"} : leave(t, r)
    /\ UNCHANGED <<state, services, dev, wf>> /\ Rest

discover(t)            == answers(t, "discover")      \* and probe
loadFirmwarePackage(t) == answers(t, "loadPackage")
runJob(t)              == answers(t, "runJob")        \* runJobs, installPlugin, registerVendor

\* A call of FirmwareService picks up the active session and goes on at p with it, unless
\* there is none; `may' tells whether something before that can fail.
fetch(t, p, fit, may) ==
    /\ At(t, "body")
    /\ \/ (active = NoOne \/ ~ fit \/ may) /\ leave(t, "error")
       \/ active # NoOne /\ fit /\ to(t, p, "ok", active) /\ UNCHANGED opMutex
    /\ UNCHANGED <<state, services, dev, wf>> /\ Rest

\* read, write, erase, verify and the calls on one partition.
memory(t) == In(t, {"memory"}) /\ fetch(t, "use", TRUE, FALSE)

\* flash(package) tests `connected'; flash(path) does not, and loads the package first.
flash(t) == \/ In(t, {"flashPackage"}) /\ fetch(t, "exec", connected, FALSE)
            \/ In(t, {"flashPath"})    /\ fetch(t, "exec", TRUE, TRUE)

\* backup() runs its workflow first, restore() after it has written the partition.
backup(t)  == In(t, {"backup"})  /\ fetch(t, "exec", TRUE, FALSE)
restore(t) == In(t, {"restore"}) /\ fetch(t, "exec", TRUE, TRUE)

\* executeWorkflow(type): a type that does not exist is an error too.
executeWorkflowType(t) == In(t, {"workflowType"}) /\ fetch(t, "prepare", connected, TRUE)

\* The device answers.
use(t) ==
    /\ At(t, "use")
    /\ \E r \in {"ok", "error"} : leave(t, r)
    /\ UNCHANGED <<state, services, dev, wf>> /\ Rest

------------------------------------------------------------------------------
(* Workflows                                                               *)

\* Runtime::executeWorkflow(workflow), called by a client or by FirmwareService, in a
\* second OperationContext.
exec(t) ==
    /\ At(t, "exec")
    /\ Mode("workflow") = "Exclusive" => opMutex = NoOne
    /\ opMutex' = IF Mode("workflow") = "Exclusive" THEN t ELSE opMutex
    /\ IF ~ initialized THEN answer(t, "hooks", "error")
       ELSE IF cancelled THEN answer(t, "hooks", "cancelled")
       ELSE goto(t, "prepare")
    /\ UNCHANGED <<state, services, dev, wf>> /\ Rest

\* executeWorkflow(type) passes the outcome on without any hook.
ended(t, r) ==
    IF In(t, {"workflowType"}) THEN leave(t, r) ELSE answer(t, "hooks", r) /\ UNCHANGED opMutex

\* WorkflowService::executeWorkflow: the workflow replaces the one before; one that cannot
\* be prepared stays the current one.
prepare(t) ==
    /\ At(t, "prepare") /\ workflow' = t /\ wfStop' = FALSE
    /\ (goto(t, "running") /\ UNCHANGED opMutex) \/ ended(t, "error")
    /\ UNCHANGED <<state, services, dev>> /\ Rest

\* run() ends: done, failed, or stopped by cancel().
finish(t) ==
    /\ At(t, "running") /\ workflow' = NoOne /\ wfStop' = FALSE
    /\ \E r \in {"ok", "error"} \cup (IF wfStop THEN {"cancelled"} ELSE {}) : ended(t, r)
    /\ UNCHANGED <<state, services, dev>> /\ Rest

\* OperationHooks: the statistics, then the observers, of whom a copy is made.
hooks(t) ==
    /\ At(t, "hooks")
    /\ stats' = [stats EXCEPT !.conn = @ + IF In(t, {"connect"}) /\ th[t].res = "ok" THEN 1 ELSE 0,
                              !.disc = @ + IF In(t, {"disconnect", "reset"}) THEN 1 ELSE 0]
    /\ th' = [th EXCEPT ![t].pc = "notify", ![t].copied = observers]
    /\ UNCHANGED <<state, opMutex, services, dev, wf, observers, dropped, runs>>

\* One observer after the other; then a backup reads the partition its workflow has seen,
\* and reset() goes on.
notify(t) ==
    /\ At(t, "notify")
    /\ IF th[t].copied # {}
       THEN (\E w \in th[t].copied : th' = [th EXCEPT ![t].copied = @ \ {w}]) /\ UNCHANGED opMutex
       ELSE IF In(t, {"backup"}) /\ th[t].res = "ok" THEN goto(t, "use") /\ UNCHANGED opMutex
       ELSE IF In(t, {"reset"}) THEN goto(t, "resetWf") /\ UNCHANGED opMutex
       ELSE goto(t, "idle") /\ unlock(t)
    /\ UNCHANGED <<state, services, dev, wf>> /\ Rest

------------------------------------------------------------------------------
(* Life cycle and control                                                  *)

\* The services and what they own, each unless it is there already.
createDefaultComponents == services' = TRUE

\* initialize(): components are made once and survive a shutdown(), and an error of the
\* plugin service, which leaves the runtime uninitialized; a second call is refused.
initialize(t) ==
    /\ At(t, "initialize") /\ opMutex = NoOne /\ goto(t, "idle")
    /\ IF initialized THEN UNCHANGED <<initialized, services>>
       ELSE createDefaultComponents /\ initialized' \in BOOLEAN
    /\ UNCHANGED <<connected, cancelled, paused, opMutex, dev, wf>> /\ Rest

\* shutdown(): the flags go under the mutex, if the runtime is initialized; the device
\* service is left as it is.
shutdown(t) ==
    /\ At(t, "shutdown") /\ opMutex = NoOne
    /\ IF initialized
       THEN /\ initialized' = FALSE /\ connected' = FALSE /\ cancelled' = FALSE
            /\ dropped' = dropped + (IF connected THEN 1 ELSE 0)
            /\ goto(t, "stop")
       ELSE goto(t, "idle") /\ UNCHANGED <<initialized, connected, cancelled, dropped>>
    /\ UNCHANGED <<paused, opMutex, services, dev, wf, stats, observers, runs>>

\* Plugins and vendors are shut down, then m_services goes.
shutdownEnd(t) ==
    /\ At(t, "stop") /\ services' = FALSE /\ goto(t, "idle")
    /\ UNCHANGED <<state, opMutex, dev, wf>> /\ Rest

\* disconnect() closes the active session and removes them all.
closeAllAlways(t) ==
    /\ active' = NoOne /\ owned' = {} /\ opened' = {} /\ connected' = FALSE
    /\ answer(t, "hooks", "ok")

closeAll(t) ==
    IF connected
    THEN /\ active' = NoOne /\ owned' = {} /\ opened' = {} /\ connected' = FALSE
         /\ answer(t, "hooks", "ok")
    ELSE goto(t, IF In(t, {"reset"}) THEN "resetWf" ELSE "idle") /\ UNCHANGED <<dev, connected>>

disconnectAnyTime(t) ==
    /\ At(t, "disconnect") \/ At(t, "resetDev")
    /\ closeAll(t)
    /\ UNCHANGED <<initialized, cancelled, paused, opMutex, services, wf>> /\ Rest

disconnect(t) ==
    /\ At(t, "disconnect") \/ At(t, "resetDev")
    /\ opMutex = NoOne /\ closeAll(t)
    /\ UNCHANGED <<initialized, cancelled, paused, opMutex, services, wf>> /\ Rest

\* reset(): the flags first, then disconnect(), then the workflow service.
reset(t) ==
    /\ At(t, "reset") /\ cancelled' = FALSE /\ paused' = FALSE /\ goto(t, "resetDev")
    /\ UNCHANGED <<initialized, connected, opMutex, services, dev, wf>> /\ Rest

\* WorkflowService::reset destroys the current workflow.
resetWorkflow(t) ==
    /\ At(t, "resetWf") /\ workflow' = NoOne /\ wfStop' = FALSE /\ goto(t, "idle")
    /\ UNCHANGED <<state, opMutex, services, dev>> /\ Rest

\* cancel(): the flag and the session, then the workflow service.  No mutex.
cancel(t) ==
    /\ At(t, "cancel") /\ cancelled' = TRUE /\ goto(t, "cancelWf")
    /\ UNCHANGED <<initialized, connected, paused, opMutex, services, dev, wf>> /\ Rest

cancelWorkflow(t) ==
    /\ At(t, "cancelWf") /\ wfStop' = (wfStop \/ workflow # NoOne) /\ goto(t, "idle")
    /\ UNCHANGED <<state, opMutex, services, dev, workflow>> /\ Rest

pauseResume(t) ==
    /\ At(t, "pause") \/ At(t, "resume")
    /\ paused' = At(t, "pause") /\ goto(t, "idle")
    /\ UNCHANGED <<initialized, connected, cancelled, opMutex, services, dev, wf>> /\ Rest

\* ObserverManager: an observer is a bare pointer, listed once.
watch(t) ==
    /\ In(t, Watching) /\ goto(t, "idle")
    /\ \E w \in Watchers : observers' = IF In(t, {"addObserver"}) THEN observers \cup {w} ELSE observers \ {w}
    /\ UNCHANGED <<state, opMutex, services, dev, wf, stats, dropped, runs>>

Step(t) ==
    \/ lock(t) \/ test(t)
    \/ connect(t) \/ connectEnd(t) \/ reconnect(t) \/ discover(t) \/ loadFirmwarePackage(t) \/ runJob(t)
    \/ memory(t) \/ flash(t) \/ backup(t) \/ restore(t) \/ executeWorkflowType(t) \/ use(t)
    \/ exec(t) \/ prepare(t) \/ finish(t) \/ hooks(t) \/ notify(t)
    \/ initialize(t) \/ shutdown(t) \/ shutdownEnd(t) \/ disconnect(t) \/ reset(t)
    \/ resetWorkflow(t) \/ cancel(t) \/ cancelWorkflow(t) \/ pauseResume(t) \/ watch(t)

RNext == \E t \in Callers : enter(t) \/ Step(t)

\* A thread inside a call goes on, and gets the mutex in its turn.
RFairness == \A t \in Callers : WF_rvars(Step(t))

RSpec == RInit /\ [][RNext]_rvars /\ RFairness

------------------------------------------------------------------------------
\* What the mutex is for: "connected" means there is an active session that the manager
\* owns, and a thread that holds the mutex works on a session that is not destroyed
\* under it, whatever the other threads call (Runtime::connect, flash, disconnect).
ConnectionIsOwned ==
    /\ connected => active \in owned
    /\ \A t \in Callers : opMutex = t /\ th[t].link # NoOne => th[t].link \in owned

\* The statistics add up: when no thread is inside a call, every connection that was
\* counted is still there, was counted as disconnected, or was forgotten by shutdown()
\* (OperationHooks::updateStat, which runs after the mutex is released).
ConnectionsAddUp ==
    (\A t \in Callers : ~ Busy(t)) => stats.conn = stats.disc + dropped + (IF connected THEN 1 ELSE 0)

\* The active session is owned and not destroyed under its user, and the
\* connections that were counted add up.
ConnectionsAreSound == ConnectionIsOwned /\ ConnectionsAddUp

\* Every call returns: flash(), backup() and restore() run executeWorkflow() inside their
\* own call, with or without the mutex, and nobody waits for a mutex that stays taken.
CallsFinish == \A t \in Callers : Busy(t) ~> ~ Busy(t)

\* The wider claim of docs/developer/ThreadSafety.md ("Runtime: internal std::mutex on all
\* public methods"): no call works on a session that another one has destroyed.  It fails
\* for the calls of LockMode::None.
NoDanglingSession == \A t \in Callers : th[t].pc \in {"use", "running"} /\ th[t].link # NoOne => th[t].link \in owned

\* shutdown() leaves no device open.  It fails: DeviceService is not told.
ShutdownCloses == ~ initialized /\ (\A t \in Callers : ~ Busy(t)) => opened = {}

\* A notification reaches nobody who has been removed.  It fails: the list is a copy.
NoLateNotification == \A t \in Callers : th[t].copied \subseteq observers
=============================================================================
