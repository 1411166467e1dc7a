--------------------------- MODULE WorkflowEngine ---------------------------
(***************************************************************************)
(* WorkflowEngine (lib/src/workflow/WorkflowEngine.cpp) with the recovery  *)
(* decisions of WorkflowRecovery.cpp: one thread in run(), another that    *)
(* calls pause, resume, cancel, rollback and reset.                        *)
(*                                                                         *)
(* run() is cut wherever it reads or writes m_state, m_cancelled or        *)
(* m_paused; a step's execute() is external and succeeds, fails or reports *)
(* a cancel of its own.  Progress, history and most statistics are left    *)
(* out.  Steps are numbered from 1: m_currentStepIndex is cur - 1.         *)
(***************************************************************************)
EXTENDS Integers, FiniteSets

CONSTANTS
    Types,       \* Types[k]: the WorkflowStepType of step k
    Custom,      \* Custom[t]: the action of a strategy the client may set for type t
    MaxRetries,  \* m_options.retryCount, at least 1
    Joined,      \* the client lets run() return before rollback() and reset()
    MaxCalls     \* bound on calls

N == Cardinality(DOMAIN Types)

Actions == {"Retry", "Rollback", "Skip", "Abort"}

ASSUME WorkflowAssumption ==
    /\ N \in Nat /\ DOMAIN Types = 1..N
    /\ MaxRetries \in Nat \ {0} /\ MaxCalls \in Nat /\ Joined \in BOOLEAN
    /\ \A t \in DOMAIN Custom : Custom[t] \in Actions

VARIABLES
    st,         \* m_state
    cancelled,  \* m_cancelled
    paused,     \* m_paused
    cont,       \* m_options.continueOnWarning
    custom,     \* m_recovery holds the custom strategies
    n,          \* m_steps.size()
    cur,        \* m_currentStepIndex + 1
    completed,  \* the steps whose entry.completed is set
    warnings,   \* m_stats.warnings > 0
    success,    \* m_result.success
    rpc,        \* where run() is, "idle" outside
    i, tries,   \* its loop index, and retryCount of executeStep()
    cpc,        \* where the other thread's call is, "idle" between calls
    effect,     \* history: the steps executed and not rolled back
    undone,     \* history: a rollback has undone steps
    asked,      \* history: "auto" when recovery decided on a rollback of the running workflow
    known,      \* history: cancel() was called in the loop of this run
    dropped,    \* history: a cancel() called during this run is no longer known to it
    calls

config == <<cont, custom, n>>
run_   == <<rpc, i, tries, cur, completed, warnings, success>>
hist   == <<effect, undone, asked, known, dropped>>
vars   == <<st, cancelled, paused, config, run_, cpc, hist, calls>>

Init ==
    /\ st = "Created" /\ cancelled = FALSE /\ paused = FALSE
    /\ cont \in BOOLEAN /\ custom \in BOOLEAN /\ n = 0 /\ cur = 1
    /\ completed = {} /\ warnings = FALSE /\ success = FALSE
    /\ rpc = "idle" /\ i = 1 /\ tries = 0 /\ cpc = "idle"
    /\ effect = {} /\ undone = FALSE /\ asked = "none" /\ known = FALSE /\ dropped = FALSE
    /\ calls = 0

Call == calls < MaxCalls /\ calls' = calls + 1

------------------------------------------------------------------------------
(* WorkflowRecovery.                                                       *)

\* DefaultRecoveryStrategy::decide
default(type, retryCount) ==
    IF type = "Verify" THEN "Abort"
    ELSE IF type \in {"Reboot", "Disconnect"} THEN "Skip"
    ELSE IF retryCount < 3 THEN "Retry"
    ELSE IF type \in {"Connect", "Detect", "Negotiate", "UploadLoader"} THEN "Retry"
    ELSE IF type \in {"Flash", "GPT", "Backup", "Restore"} /\ retryCount < 5 THEN "Rollback"
    ELSE "Abort"

\* Every strategy is asked as if it were the first failure.
decide(k) == IF custom /\ Types[k] \in DOMAIN Custom THEN Custom[Types[k]] ELSE default(Types[k], 0)

------------------------------------------------------------------------------
(* Building the workflow.                                                  *)

\* The list is changed between runs only.  A step added to a completed
\* workflow would never run, since run() refuses Completed.
addStep ==
    /\ st # "Completed" /\ rpc = "idle" /\ cpc = "idle" /\ n < N
    /\ n' = n + 1
    /\ UNCHANGED <<st, cancelled, paused, cont, custom, run_, cpc, hist, calls>>

clearSteps ==
    /\ rpc = "idle" /\ cpc = "idle" /\ Call
    /\ n' = 0 /\ cur' = 1 /\ completed' = {} /\ effect' = {}
    /\ UNCHANGED <<st, cancelled, paused, cont, custom, rpc, i, tries, warnings, success, cpc,
                   undone, asked, known, dropped>>

\* prepare(): every step's prepare(); one may fail.
prepare ==
    /\ st = "Created"
    /\ \/ st' = "Ready" /\ UNCHANGED success
       \/ n > 0 /\ st' = "Failed" /\ success' = FALSE

callPrepare ==
    /\ rpc = "idle" /\ cpc = "idle" /\ Call
    /\ prepare
    /\ UNCHANGED <<cancelled, paused, config, rpc, i, tries, cur, completed, warnings, cpc, hist>>

------------------------------------------------------------------------------
(* run().                                                                  *)

Run(from, to) == rpc = from /\ rpc' = to

callRun ==
    /\ Call
    /\ \/ st = "Created" /\ prepare /\ Run("idle", IF st' = "Ready" THEN "check" ELSE "idle")
       \/ st # "Created" /\ Run("idle", "check") /\ UNCHANGED <<st, success>>
    /\ known' = FALSE /\ dropped' = FALSE
    /\ UNCHANGED <<cancelled, paused, config, i, tries, cur, completed, warnings, cpc,
                   effect, undone, asked>>

checkState ==
    /\ IF st \notin {"Ready", "Paused"}
       THEN Run("check", "idle") /\ UNCHANGED <<st, success>>             \* InvalidState
       ELSE IF n = 0
       THEN Run("check", "idle") /\ st' = "Completed" /\ success' = TRUE
       ELSE Run("check", "entry") /\ UNCHANGED <<st, success>>
    /\ UNCHANGED <<cancelled, paused, config, i, tries, cur, completed, warnings, cpc, hist, calls>>

\* m_cancelled and m_paused are cleared, whoever set them since the check.
clearFlags ==
    /\ Run("entry", "begin")
    /\ cancelled' = FALSE /\ paused' = FALSE
    /\ dropped' = (dropped \/ st = "Cancelled")
    /\ UNCHANGED <<st, config, i, tries, cur, completed, warnings, success, cpc,
                   effect, undone, asked, known, calls>>

\* Mutant: a run goes on behind the step the last one stood at.
beginAfterCurrent ==
    /\ Run("begin", "top")
    /\ st' = "Running"
    /\ i' = IF cur < n THEN cur + 1 ELSE cur
    /\ UNCHANGED <<cancelled, paused, config, tries, cur, completed, warnings, success, cpc, hist, calls>>

begin ==
    /\ Run("begin", "top")
    /\ st' = "Running"
    /\ i' = cur
    /\ UNCHANGED <<cancelled, paused, config, tries, cur, completed, warnings, success, cpc, hist, calls>>

\* Mutant: the warnings of a workflow that went on are not looked at.
finishIgnoresWarnings ==
    /\ rpc = "top" /\ i > n
    /\ Run("top", "idle")
    /\ st' = "Completed" /\ success' = TRUE
    /\ UNCHANGED <<cancelled, paused, config, i, tries, cur, completed, warnings, cpc, hist, calls>>

finish ==
    /\ rpc = "top" /\ i > n
    /\ Run("top", "idle")
    /\ success' = ~(warnings /\ cont)
    /\ st' = IF success' THEN "Completed" ELSE "Failed"
    /\ UNCHANGED <<cancelled, paused, config, i, tries, cur, completed, warnings, cpc, hist, calls>>

\* Mutant: retryCount survives from one step to the next and is only tested
\* after a try.
loopHeadKeepsTries ==
    /\ rpc = "top" /\ i <= n
    /\ \/ cancelled /\ Run("top", "idle") /\ st' = "Cancelled" /\ success' = FALSE /\ UNCHANGED cur
       \/ ~cancelled /\ paused /\ Run("top", "paused") /\ st' = "Paused" /\ UNCHANGED <<cur, success>>
       \/ ~cancelled /\ ~paused /\ Run("top", "exec") /\ cur' = i /\ UNCHANGED <<st, success>>
    /\ UNCHANGED <<cancelled, paused, config, i, tries, completed, warnings, cpc, hist, calls>>

\* The head of the loop: cancelled, paused, or on to step i.
loopHead ==
    /\ rpc = "top" /\ i <= n
    /\ \/ /\ cancelled
          /\ Run("top", "idle") /\ st' = "Cancelled" /\ success' = FALSE
          /\ UNCHANGED <<cur, tries>>
       \/ /\ ~cancelled /\ paused
          /\ Run("top", "paused") /\ st' = "Paused"
          /\ UNCHANGED <<cur, tries, success>>
       \/ /\ ~cancelled /\ ~paused
          /\ Run("top", "step") /\ cur' = i /\ tries' = 0
          /\ UNCHANGED <<st, success>>
    /\ UNCHANGED <<cancelled, paused, config, i, completed, warnings, cpc, hist, calls>>

\* Mutant: the pause loop only waits for m_paused.
pauseLoopIgnoresCancel ==
    /\ ~paused
    /\ Run("paused", "step") /\ st' = "Running" /\ cur' = i /\ tries' = 0 /\ UNCHANGED success
    /\ UNCHANGED <<cancelled, paused, config, i, completed, warnings, cpc, hist, calls>>

pauseLoop ==
    /\ \/ /\ cancelled
          /\ Run("paused", "idle") /\ st' = "Cancelled" /\ success' = FALSE
          /\ UNCHANGED <<cur, tries>>
       \/ /\ ~cancelled /\ ~paused
          /\ Run("paused", "step") /\ st' = "Running" /\ cur' = i /\ tries' = 0
          /\ UNCHANGED success
    /\ UNCHANGED <<cancelled, paused, config, i, completed, warnings, cpc, hist, calls>>

\* executeStep() returned Cancelled, success, or another error.
stepCancelled == rpc' = "idle" /\ st' = "Cancelled" /\ UNCHANGED <<i, warnings>>
stepDone      == rpc' = "top" /\ i' = i + 1 /\ UNCHANGED st
stepFailed ==
    IF cont THEN rpc' = "top" /\ i' = i + 1 /\ warnings' = TRUE /\ UNCHANGED st
    ELSE rpc' = "idle" /\ st' = "Failed" /\ UNCHANGED <<i, warnings>>

\* Mutant: the retry loop looks for a cancel only before the first try.
tryStepChecksOnce ==
    /\ rpc = "step"
    /\ \/ /\ tries >= MaxRetries
          /\ stepFailed
       \/ /\ tries < MaxRetries /\ cancelled /\ tries = 0
          /\ stepCancelled
       \/ /\ tries < MaxRetries /\ (~cancelled \/ tries > 0)
          /\ rpc' = "exec" /\ UNCHANGED <<st, i, warnings>>
    /\ UNCHANGED <<cancelled, paused, config, tries, cur, completed, success, cpc,
                   hist, calls>>

\* The head of executeStep()'s retry loop.
tryStep ==
    /\ rpc = "step"
    /\ \/ /\ tries >= MaxRetries
          /\ stepFailed
       \/ /\ tries < MaxRetries /\ cancelled
          /\ stepCancelled
       \/ /\ tries < MaxRetries /\ ~cancelled
          /\ rpc' = "exec" /\ UNCHANGED <<st, i, warnings>>
    /\ UNCHANGED <<cancelled, paused, config, tries, cur, completed, success, cpc,
                   hist, calls>>

\* The step's execute() succeeds.
execOk ==
    /\ rpc = "exec"
    /\ stepDone
    /\ completed' = completed \cup {i} /\ effect' = effect \cup {i}
    /\ UNCHANGED <<cancelled, paused, config, tries, cur, warnings, success, cpc,
                   undone, asked, known, dropped, calls>>

\* The step itself reports a cancel.
execCancelled ==
    /\ rpc = "exec"
    /\ stepCancelled
    /\ UNCHANGED <<cancelled, paused, config, tries, cur, completed, success, cpc, hist, calls>>

\* Mutant: the last step rolled back is the second one.
toRollBackFromSecond == (2..(cur - 1)) \cap completed

\* The steps rollback() visits; the rollbacks of some of them may fail.
toRollBack == (1..(cur - 1)) \cap completed

\* The step fails and recovery decides.  rollback() is only allowed in Failed
\* or Cancelled: it runs when a cancel() has changed the state meanwhile and
\* returns InvalidState in the ordinary case.
execFails ==
    /\ rpc = "exec"
    /\ tries' = tries + 1
    /\ \/ /\ decide(i) = "Retry"
          /\ rpc' = "step"
          /\ UNCHANGED <<st, i, completed, warnings, success, effect, undone, asked>>
       \/ /\ decide(i) = "Skip"
          /\ stepDone
          /\ completed' = completed \cup {i} /\ warnings' = TRUE
          /\ UNCHANGED <<success, effect, undone, asked>>
       \/ /\ decide(i) = "Abort"
          /\ stepFailed
          /\ UNCHANGED <<completed, success, effect, undone, asked>>
       \/ /\ decide(i) = "Rollback"
          /\ asked' = "auto"
          /\ IF st \in {"Failed", "Cancelled"}
             THEN \E fails \in SUBSET toRollBack :
                     /\ effect' = effect \ (toRollBack \ fails) /\ undone' = TRUE
                     /\ success' = (success /\ fails = {})
                     /\ IF cont THEN /\ rpc' = "top" /\ i' = i + 1 /\ warnings' = TRUE
                                     /\ st' = IF fails = {} THEN "Ready" ELSE "RollingBack"
                                ELSE stepFailed
             ELSE stepFailed /\ UNCHANGED <<success, effect, undone>>
          /\ UNCHANGED completed
    /\ UNCHANGED <<cancelled, paused, config, cur, cpc, known, dropped, calls>>

Runner == checkState \/ clearFlags \/ begin \/ finish \/ loopHead \/ pauseLoop
          \/ tryStep \/ execOk \/ execCancelled \/ execFails

------------------------------------------------------------------------------
(* The other thread.                                                       *)

Other(from, to) == cpc = from /\ cpc' = to

\* pause() and resume() test the state, then store the flag, then the state.
pause ==
    /\ st = "Running"
    /\ Other("idle", "pause") /\ Call
    /\ UNCHANGED <<st, cancelled, paused, config, run_, hist>>

resume ==
    /\ st = "Paused"
    /\ Other("idle", "resume") /\ Call
    /\ UNCHANGED <<st, cancelled, paused, config, run_, hist>>

setPaused ==
    /\ \/ Other("pause", "Paused") /\ paused' = TRUE
       \/ Other("resume", "Running") /\ paused' = FALSE
    /\ UNCHANGED <<st, cancelled, config, run_, hist, calls>>

\* cancel() tests nothing: it stores the flag ...
cancel ==
    /\ Other("idle", "Cancelled") /\ Call
    /\ cancelled' = TRUE
    /\ known' = (rpc \in {"top", "paused", "step", "exec"})
    /\ UNCHANGED <<st, paused, config, run_, effect, undone, asked, dropped>>

\* ... and all three end with setState(), whatever the run did in between.
setState ==
    /\ cpc \in {"Paused", "Running", "Cancelled"}
    /\ st' = cpc /\ cpc' = "idle"
    /\ UNCHANGED <<cancelled, paused, config, run_, hist, calls>>

rollback ==
    /\ Joined => rpc = "idle"
    /\ st \in {"Failed", "Cancelled"}
    /\ Other("idle", "rollback") /\ Call
    /\ st' = "RollingBack"
    /\ UNCHANGED <<cancelled, paused, config, run_, hist>>

\* A step whose rollback fails leaves the engine in RollingBack.
endRollback ==
    /\ Other("rollback", "idle")
    /\ \E fails \in SUBSET toRollBack :
          /\ effect' = effect \ (toRollBack \ fails)
          /\ IF fails = {} THEN st' = "Ready" /\ UNCHANGED success
                           ELSE success' = FALSE /\ UNCHANGED st
    /\ undone' = TRUE
    /\ UNCHANGED <<cancelled, paused, config, rpc, i, tries, cur, completed, warnings,
                   asked, known, dropped, calls>>

reset ==
    /\ rpc = "idle"
    /\ Other("idle", "idle") /\ Call
    /\ n' = 0 /\ cur' = 1 /\ completed' = {} /\ warnings' = FALSE /\ success' = FALSE
    /\ cancelled' = FALSE /\ paused' = FALSE /\ st' = "Created"
    /\ custom' = FALSE
    /\ effect' = {} /\ undone' = FALSE /\ asked' = "none"
    /\ UNCHANGED <<cont, rpc, i, tries, known, dropped>>

Next ==
    \/ addStep \/ clearSteps \/ callPrepare \/ callRun \/ Runner
    \/ pause \/ resume \/ setPaused \/ cancel \/ setState \/ rollback \/ endRollback \/ reset

Spec == Init /\ [][Next]_vars

\* The thread in run() and a call that has begun keep running; execute()
\* returns.  No call need ever be made.
FairSpec == Spec /\ WF_vars(Runner) /\ WF_vars(setPaused \/ setState \/ endRollback)

------------------------------------------------------------------------------
(* Properties.                                                             *)

\* Every variable has its type.
TypeOK ==
    /\ st \in {"Created", "Ready", "Running", "Paused", "Cancelled", "Completed", "Failed", "RollingBack"}
    /\ {cancelled, paused, cont, custom, warnings, success, undone, known, dropped} \subseteq BOOLEAN
    /\ n \in 0..N /\ cur \in 1..(N + 1) /\ i \in 1..(N + 1)
    /\ completed \subseteq 1..n /\ effect \subseteq 1..n
    /\ rpc \in {"idle", "check", "entry", "begin", "top", "paused", "step", "exec"}
    /\ tries \in 0..MaxRetries
    /\ cpc \in {"idle", "pause", "resume", "Paused", "Running", "Cancelled", "rollback"}
    /\ asked \in {"none", "auto"}

\* run() reports success only when every step took effect or was skipped by
\* its recovery strategy, in whatever order pauses, cancels, failures and
\* repeated runs come, as long as nothing was rolled back.
SuccessMeansAllSteps ==
    (success /\ st = "Completed" /\ ~undone) =>
        \A k \in 1..n : k \in effect \/ decide(k) = "Skip"

\* A step is only ever executed when each step before it has been: nothing
\* is written to a device before the steps that prepare it.
StepsInOrder ==
    (rpc = "exec" /\ ~cont) => \A k \in 1..(i - 1) : k \in completed

\* Over several runs, the loop index, the completed steps and the success that
\* is reported agree.
StepsAreWhole == SuccessMeansAllSteps /\ StepsInOrder

\* After a rollback() without errors nothing that ran before the step the
\* workflow stands at is still in effect.
RollbackUndoes ==
    (st = "Ready" /\ undone /\ rpc = "idle" /\ cpc = "idle") => effect \cap 1..(cur - 1) = {}

\* After a cancel() in the loop of run() no step is executed any more by that
\* run, not even the next try of the same step, whatever pauses and resumes
\* come between.
NoStepAfterCancel == [][rpc # "exec" /\ rpc' = "exec" => ~known]_vars

\* A cancelled run returns, also from the pause loop and the retry loop.
CancelEndsRun ==
    (rpc \in {"top", "paused", "step", "exec"} /\ cancelled) ~> (rpc = "idle" \/ ~cancelled)

\* docs/developer/ThreadSafety.md:31, WorkflowEngine, with :11: "All operations
\* safe from any thread without external synchronization": a cancel() during
\* run() is not forgotten by it.
CancelIsNotLost == ~dropped

\* The same statement: no rollback while a step is executing.
RollbackExcludesSteps == ~(cpc = "rollback" /\ rpc = "exec")

\* WorkflowRecovery.cpp:67, the decision "Storage operation failed, rolling
\* back": when recovery decides on a rollback, the earlier steps are undone.
AutoRollbackUndoes ==
    (asked = "auto" /\ rpc = "idle" /\ st = "Failed") => undone
==============================================================================
