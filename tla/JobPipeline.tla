----------------------------- MODULE JobPipeline -----------------------------
(***************************************************************************)
(* One JobPipeline (lib/src/job/JobPipeline.cpp) and the jobs it runs      *)
(* (GenericJobs.cpp) on a flash device.  A run is cut where it reads a     *)
(* flag another thread may write (m_cancelled, m_paused, a job's own       *)
(* m_cancelled) and at every operation of the device.                      *)
(*                                                                         *)
(* The device is external: a failed write or erase leaves the partition as *)
(* it was or torn.  Job states, progress and history are left out.         *)
(***************************************************************************)
EXTENDS Integers, Sequences, SequencesExt

CONSTANTS
    Jobs,      \* the job objects the client owns
    Parts,     \* partitions of the device
    Kind,      \* Kind[j]: the class of job j
    Part,      \* Part[j]: the partition it works on
    Data,      \* Data[j]: what it writes (Blank for an erase), or what a verify expects
    Rollback,  \* Rollback[j]: its recovery policy's canRollback()
    MaxCalls   \* bound on the client's calls

\* The job classes: does execute() change the partition, does it keep what
\* the partition held for rollback(), does it compare the partition first?
FlashJob   == [writes |-> TRUE, saves |-> FALSE, checks |-> FALSE]
BackupJob  == [writes |-> FALSE, saves |-> FALSE, checks |-> FALSE]
RestoreJob == [writes |-> TRUE, saves |-> TRUE, checks |-> FALSE]
ReadJob    == [writes |-> FALSE, saves |-> FALSE, checks |-> FALSE]
EraseJob   == [writes |-> TRUE, saves |-> TRUE, checks |-> FALSE]
VerifyJob  == [writes |-> FALSE, saves |-> FALSE, checks |-> TRUE]
GPTUpdateJob        == [writes |-> FALSE, saves |-> TRUE, checks |-> FALSE]
ProgrammerUploadJob == [writes |-> FALSE, saves |-> FALSE, checks |-> FALSE]

Classes == {FlashJob, BackupJob, RestoreJob, ReadJob, EraseJob, VerifyJob,
            GPTUpdateJob, ProgrammerUploadJob}

Original == "original"   \* what a partition holds before the first run
Blank    == "blank"      \* erased
Torn     == "torn"       \* left by a write that failed half way
None     == "none"

Contents == {Original, Blank, Torn} \cup {Data[j] : j \in Jobs}

ASSUME JobAssumption ==
    /\ Kind \in [Jobs -> Classes] /\ Part \in [Jobs -> Parts]
    /\ Rollback \in [Jobs -> BOOLEAN]
    /\ MaxCalls \in Nat
    /\ \A j \in Jobs : Data[j] # None /\ Data[j] # Torn

VARIABLES
    ppc,        \* where run() is: "idle", "loop", "exec", "io", "rollback"
    jobs,       \* m_jobs
    i,          \* m_currentIndex + 1, one past the end after the loop
    rb,         \* the loop index of rollbackAll()
    running, paused, cancelled,   \* m_running, m_paused, m_cancelled
    completed, failed,            \* m_completedCount, m_failedCount
    result,     \* what the last run() returned
    jcancel,    \* the jobs whose own m_cancelled is set; nothing clears it
    telling,    \* the job cancel() of another thread tells next, 0 if none is under way
    saved,      \* m_originalData of each job
    flash,      \* the device's partitions
    start,      \* history: flash when the run began
    mishap,     \* history: a save or a rollback write of this run failed
    stopped,    \* history: jobs that were loaded when a cancel() returned
    excused,    \* history: the job that was past its check when cancel() returned
    late,       \* history: another stopped job worked on the device afterwards
    calls

run_   == <<ppc, i, rb, running, completed, failed, result>>
flags  == <<paused, cancelled, jcancel, telling>>
device == <<saved, flash, mishap>>
history == <<start, stopped, excused, late>>
pvars  == <<run_, jobs, flags, device, history, calls>>

PInit ==
    /\ ppc = "idle" /\ jobs = <<>> /\ i = 1 /\ rb = 0
    /\ running = FALSE /\ paused = FALSE /\ cancelled = FALSE
    /\ completed = 0 /\ failed = 0 /\ result = None
    /\ jcancel = {} /\ telling = 0
    /\ saved = [j \in Jobs |-> None]
    /\ flash = [p \in Parts |-> Original]
    /\ start = flash /\ mishap = FALSE
    /\ stopped = {} /\ excused = {} /\ late = FALSE
    /\ calls = 0

Loaded == ToSet(jobs)
quiet == ppc = "idle" /\ telling = 0
Call == calls < MaxCalls /\ calls' = calls + 1

------------------------------------------------------------------------------
(* Building the job list; JobPipeline is externally synchronized, so only  *)
(* between runs and while no other thread walks it in cancel().            *)

addJob(j) ==
    /\ quiet /\ j \notin Loaded
    /\ jobs' = Append(jobs, j)
    /\ UNCHANGED <<run_, flags, device, history, calls>>

insertJob(k, j) ==
    /\ quiet /\ j \notin Loaded
    /\ Call
    /\ jobs' = InsertAt(jobs, IF k > Len(jobs) THEN Len(jobs) + 1 ELSE k + 1, j)
    /\ UNCHANGED <<run_, flags, device, history>>

\* No two loaded jobs share an id, so at most one is removed.
removeJob(j) ==
    /\ quiet
    /\ Call
    /\ \/ j \notin Loaded /\ UNCHANGED jobs
       \/ \E k \in DOMAIN jobs : jobs[k] = j /\ jobs' = RemoveAt(jobs, k)
    /\ UNCHANGED <<run_, flags, device, history>>

clearJobs ==
    /\ quiet
    /\ Call
    /\ jobs' = <<>> /\ completed' = 0 /\ failed' = 0 /\ i' = 1
    /\ UNCHANGED <<ppc, rb, running, result, flags, device, history>>

------------------------------------------------------------------------------
(* run().                                                                  *)

beginRun ==
    /\ ppc = "idle"
    /\ ~running                    \* JobAlreadyRunning otherwise
    /\ running' = TRUE /\ paused' = FALSE /\ cancelled' = FALSE
    /\ completed' = 0 /\ failed' = 0
    /\ ppc' = "loop" /\ i' = 1
    /\ start' = flash /\ mishap' = FALSE
    /\ UNCHANGED <<rb, result, jobs, jcancel, telling, saved, flash, stopped, excused, late>>

run == beginRun /\ Call

endRun(r) == ppc' = "idle" /\ running' = FALSE /\ result' = r

\* Mutant: the pause loop does not look at m_cancelled.
loopIgnoresCancelWhilePaused ==
    /\ ppc = "loop"
    /\ \/ /\ i > Len(jobs) \/ (cancelled /\ ~paused)
          /\ endRun("ok")
       \/ /\ i <= Len(jobs) /\ ~cancelled /\ ~paused
          /\ ppc' = "exec"
          /\ UNCHANGED <<running, result>>
    /\ UNCHANGED <<i, rb, completed, failed, jobs, flags, device, history, calls>>

\* The head of the loop: a cancelled run leaves it and returns success, a
\* paused one waits in it.
loop ==
    /\ ppc = "loop"
    /\ \/ /\ i > Len(jobs) \/ cancelled
          /\ endRun("ok")
       \/ /\ i <= Len(jobs) /\ ~cancelled /\ ~paused
          /\ ppc' = "exec"
          /\ UNCHANGED <<running, result>>
    /\ UNCHANGED <<i, rb, completed, failed, jobs, flags, device, history, calls>>

\* A job failed: roll the earlier ones back if this one's policy allows it.
jobFailed(j) ==
    IF Rollback[j]
    THEN ppc' = "rollback" /\ rb' = i - 1 /\ UNCHANGED <<running, failed, result>>
    ELSE endRun("failed") /\ failed' = failed + 1 /\ UNCHANGED rb

\* A job that returns Cancelled ends the run; nothing is rolled back.
jobCancelled == endRun("Cancelled") /\ failed' = failed + 1 /\ UNCHANGED rb

\* executeJob: prepare(), then the check for a cancel at the top of execute().
exec ==
    /\ ppc = "exec"
    /\ LET j == jobs[i] IN
       \/ jobFailed(j)                                \* prepare() fails
       \/ j \in jcancel /\ jobCancelled
       \/ /\ j \notin jcancel
          /\ ppc' = "io"
          /\ UNCHANGED <<rb, running, failed, result>>
    /\ UNCHANGED <<i, completed, jobs, flags, device, history, calls>>

\* What a failed write or erase may leave of a partition.
damaged(p) == {flash, [flash EXCEPT ![p] = Torn]}

\* Mutant: nothing is moved out of the read result, an empty buffer is kept.
saveEmpty(j) ==
    \/ /\ Kind[j].saves
       /\ saved' = [saved EXCEPT ![j] = "empty"]
       /\ UNCHANGED mishap
    \/ /\ mishap' = (mishap \/ Kind[j].saves)
       /\ UNCHANGED saved

\* RestoreJob, EraseJob and GPTUpdateJob read what rollback() will write back;
\* a read that fails is ignored and leaves what an earlier run had saved.
save(j) ==
    \/ /\ Kind[j].saves
       /\ saved' = [saved EXCEPT ![j] = flash[Part[j]]]
       /\ UNCHANGED mishap
    \/ /\ mishap' = (mishap \/ Kind[j].saves)
       /\ UNCHANGED saved

jobDone == completed' = completed + 1 /\ i' = i + 1 /\ ppc' = "loop"

\* Job j works on the device, which a cancel() that has returned forbids to
\* all but the job it found past its check, and to that one for this once.
atWork(j) ==
    /\ late' = (late \/ j \in stopped \ excused)
    /\ excused' = {}
    /\ UNCHANGED <<start, stopped>>

\* Mutant: the result of the device operation is not looked at.
ioIgnoresErrors ==
    /\ ppc = "io"
    /\ LET j == jobs[i]
           p == Part[j]
       IN  /\ save(j)
           /\ jobDone /\ UNCHANGED <<rb, running, failed, result>>
           /\ IF Kind[j].writes
              THEN flash' \in damaged(p) \cup {[flash EXCEPT ![p] = Data[j]]}
              ELSE UNCHANGED flash
           /\ atWork(j)
    /\ UNCHANGED <<jobs, flags, calls>>

\* The device operation of execute(): what it does on success, and failure,
\* where the device may have been cancelled and say so.
io ==
    /\ ppc = "io"
    /\ LET j == jobs[i]
           p == Part[j]
       IN  /\ save(j)
           /\ \/ /\ Kind[j].checks => flash[p] = Data[j]
                 /\ flash' = IF Kind[j].writes THEN [flash EXCEPT ![p] = Data[j]] ELSE flash
                 /\ jobDone
                 /\ UNCHANGED <<rb, running, failed, result>>
              \/ /\ flash' \in IF Kind[j].writes THEN damaged(p) ELSE {flash}
                 /\ jobFailed(j) \/ jobCancelled
                 /\ UNCHANGED <<i, completed>>
           /\ atWork(j)
    /\ UNCHANGED <<jobs, flags, calls>>

\* rollback() of one job: FlashJob's changes nothing.
undo(j) ==
    IF Rollback[j] /\ Kind[j].saves /\ saved[j] # None
    THEN \/ flash' = [flash EXCEPT ![Part[j]] = saved[j]] /\ UNCHANGED mishap
         \/ flash' \in damaged(Part[j]) /\ mishap' = TRUE
    ELSE UNCHANGED <<flash, mishap>>

\* Mutant: the jobs are undone in the order they ran.
rollbackAllForward ==
    /\ ppc = "rollback"
    /\ IF rb > 0
       THEN /\ undo(jobs[i - rb]) /\ rb' = rb - 1
            /\ UNCHANGED <<ppc, running, failed, result>>
       ELSE endRun("failed") /\ failed' = failed + 1 /\ UNCHANGED <<rb, flash, mishap>>
    /\ UNCHANGED <<i, completed, saved, jobs, flags, history, calls>>

\* rollbackAll(): the jobs before the failed one, last one first.
rollbackAll ==
    /\ ppc = "rollback"
    /\ IF rb > 0
       THEN /\ undo(jobs[rb]) /\ rb' = rb - 1
            /\ UNCHANGED <<ppc, running, failed, result>>
       ELSE endRun("failed") /\ failed' = failed + 1 /\ UNCHANGED <<rb, flash, mishap>>
    /\ UNCHANGED <<i, completed, saved, jobs, flags, history, calls>>

Runner == loop \/ exec \/ io \/ rollbackAll

------------------------------------------------------------------------------
(* Calls of other threads.                                                 *)

\* cancel(): m_cancelled first, then every job of the list by its own.
cancel ==
    /\ telling = 0
    /\ Call
    /\ cancelled' = TRUE /\ telling' = 1
    /\ UNCHANGED <<paused, jcancel, run_, jobs, device, history>>

\* Mutant: a job that is at work already is passed over.
tellJobSkipsCurrent ==
    /\ telling \in DOMAIN jobs
    /\ telling' = telling + 1
    /\ jcancel' = IF telling = i THEN jcancel ELSE jcancel \cup {jobs[telling]}
    /\ UNCHANGED <<paused, cancelled, run_, jobs, device, history, calls>>

tellJob ==
    /\ telling \in DOMAIN jobs
    /\ telling' = telling + 1
    /\ jcancel' = jcancel \cup {jobs[telling]}
    /\ UNCHANGED <<paused, cancelled, run_, jobs, device, history, calls>>

cancelReturns ==
    /\ telling > Len(jobs)
    /\ telling' = 0
    /\ stopped' = stopped \cup Loaded
    /\ excused' = IF ppc = "io" THEN {jobs[i]} ELSE {}
    /\ UNCHANGED <<paused, cancelled, jcancel, run_, jobs, device, start, late, calls>>

setPaused(b) ==
    /\ paused' = b
    /\ UNCHANGED <<cancelled, jcancel, telling, run_, jobs, device, history>>

pause  == Call /\ setPaused(TRUE)
resume == Call /\ setPaused(FALSE)

PNext ==
    \/ \E j \in Jobs : addJob(j) \/ removeJob(j) \/ \E k \in 0..Len(jobs) : insertJob(k, j)
    \/ clearJobs \/ run \/ Runner \/ cancel \/ tellJob \/ cancelReturns \/ pause \/ resume

PSpec == PInit /\ [][PNext]_pvars

\* The thread in run() keeps running; the device answers or times out.
PFairSpec == PSpec /\ WF_pvars(Runner)

------------------------------------------------------------------------------
(* Properties.                                                             *)

\* Every variable has its type.
PTypeOK ==
    /\ ppc \in {"idle", "loop", "exec", "io", "rollback"}
    /\ Loaded \subseteq Jobs
    /\ i \in 1..(Len(jobs) + 1) \/ ppc = "idle"
    /\ rb \in Nat /\ (ppc = "rollback" => rb < i)
    /\ {running, paused, cancelled, mishap, late} \subseteq BOOLEAN
    /\ completed \in Nat /\ failed \in 0..1
    /\ result \in {None, "ok", "failed", "Cancelled"}
    /\ jcancel \subseteq Jobs /\ stopped \subseteq Jobs /\ excused \subseteq Jobs /\ telling \in Nat
    /\ saved \in [Jobs -> Contents \cup {None}]
    /\ flash \in [Parts -> Contents] /\ start \in [Parts -> Contents]

writersOf(p, n) == {k \in 1..n : Part[jobs[k]] = p /\ Kind[jobs[k]].writes}
justRan == ppc = "idle" /\ ~running

\* A partition whose every change before the failed job can be undone: its
\* writers saved it and may roll back, and if the failed job wrote it too,
\* one of them did before.
undoable(p) ==
    /\ writersOf(p, i) # {}
    /\ \A k \in writersOf(p, i - 1) : Kind[jobs[k]].saves /\ Rollback[jobs[k]]
    /\ i \in writersOf(p, i) => writersOf(p, i - 1) # {}

\* After a failed job and a rollback in which the device did not fail, every
\* such partition holds what it held before the run, also when several jobs
\* changed it: rollbackAll() undoes them last to first.
RollbackIsExact ==
    (ppc = "rollback" /\ rb = 0 /\ ~mishap) =>
        \A p \in Parts : undoable(p) => flash[p] = start[p]

\* A run that finished all its jobs left in every partition what the last
\* job that wrote it wrote: no failed write is hidden behind a success.
SuccessMeansWritten ==
    (ppc = "loop" /\ i = Len(jobs) + 1) =>
        \A p \in Parts :
            writersOf(p, Len(jobs)) # {} =>
                LET last == CHOOSE k \in writersOf(p, Len(jobs)) : \A m \in writersOf(p, Len(jobs)) : m <= k
                IN  flash[p] = Data[jobs[last]]

\* Once cancel() has returned, no job that was loaded then works on the
\* device any more, not even in a later run(), which clears m_cancelled.  The
\* one exception is a job that had passed its check and not yet called the
\* device: it may still do so, once.
NoWorkAfterCancel == ~late

\* Without the exception.  Fails: nothing lies between a job's check and its
\* call of the device, however long that takes.
CancelStopsTheDevice == ~late /\ excused = {}

\* tests/job/JobEngineTest.cpp:1187, testPipelineCancel: after cancel() the
\* run's result must satisfy "result.isOk() == pipeline.isRunning()", that is,
\* not be a success: a run stopped by a cancel does not report one.
CancelledRunIsNotOk ==
    [][ppc = "loop" /\ i <= Len(jobs) /\ ppc' = "idle" => result' # "ok"]_pvars
==============================================================================
