---------------------------- MODULE BootPipeline ----------------------------
(***************************************************************************)
(* The boot pipeline orchestrator: lib/src/core/pipeline/BootPipeline.cpp  *)
(* with the recovery rules of pipeline/RecoveryStrategy.hpp.               *)
(*                                                                         *)
(* One owner thread calls run(), retry(), reset() and the setters; any     *)
(* other thread may call cancel() at any moment.  run() is cut at every    *)
(* access to the atomic flag m_cancelled and around every stage handler,   *)
(* the places where the two threads can interleave.                        *)
(***************************************************************************)
EXTENDS Integers, FiniteSets

CONSTANTS
    N,            \* number of working stages, Connected .. FirehoseConfiguration (11 in the code)
    MaxRecovery,  \* kMaxRecoveryAttempts (5 in the code)
    Configs,      \* the configurations the owner may install
    MaxCalls      \* bound on the owner's calls, to keep the model finite

Disconnected == 0
Working      == 1..N
Ready        == N + 1
Error        == N + 2
Cancelled    == N + 3
Stages       == 0..(N + 3)
Terminal     == {Ready, Error, Cancelled}

\* Stages executeStage() can be at: setRollbackTarget() and setHandler() take
\* any, so a rollback may lead back to Disconnected or ahead to Cancelled.
RunStages == Stages

Actions == {"Retry", "Rollback", "RestartStage", "Abort"}
Errors  == {"Success", "Failed", "Cancelled"}

Rule == [kind : {"custom", "rule", "none"}, maxRetries : Nat, onExhausted : Actions]

\* What setConfig, setHandler, setRecoveryStrategy and the setters of
\* RecoveryStrategy install.
ConfigType ==
    [handlers       : SUBSET RunStages,
     enableRecovery : BOOLEAN,
     hasStrategy    : BOOLEAN,
     rules          : [RunStages -> Rule],
     defaultAction  : Actions,
     rollbackMap    : UNION {[D -> RunStages] : D \in SUBSET RunStages}]

ASSUME SizeAssumption == N \in Nat \ {0} /\ MaxRecovery \in Nat /\ MaxCalls \in Nat
ASSUME ConfigAssumption == Configs \subseteq ConfigType

VARIABLES
    pc,          \* where the owner thread is: "idle", "called", "entered", "loop", "handler"
    stage,       \* m_context.currentStage
    prev,        \* m_context.previousStage
    lastError,   \* m_context.lastError
    cancelled,   \* m_cancelled
    running,     \* m_running
    attempts,    \* m_recoveryAttempts
    retries,     \* m_stageRetryCounts
    config,      \* m_config, m_handlers and *m_recoveryStrategy
    result,      \* what the last run() or retry() returned
    calls,       \* calls of the owner so far
    fresh,       \* history: handlers that succeeded in this run, none of an earlier stage since
    invoked      \* history: handler invocations of this run

vars == <<pc, stage, prev, lastError, cancelled, running, attempts, retries,
          config, result, calls, fresh, invoked>>

\* A run invokes at most this many handlers (see InvocationsBounded).
InvocationBound == (MaxRecovery + 1) * (N + 1) - 1

------------------------------------------------------------------------------
nextStage(s) == IF s < Ready THEN s + 1 ELSE IF s = Ready THEN Ready ELSE Error

rollbackTarget(s, levels) ==
    IF s \in DOMAIN config.rollbackMap
    THEN config.rollbackMap[s]
    ELSE IF s > levels THEN s - levels ELSE 0

\* The actions RecoveryStrategy::decide can return for a stage that failed
\* `count` times before; a custom decision is the client's function.
decide(s, count) ==
    LET rule == config.rules[s]
    IN  CASE rule.kind = "custom" -> Actions
          [] rule.kind = "rule"   -> {IF count >= rule.maxRetries THEN rule.onExhausted ELSE "Retry"}
          [] OTHER                -> {IF count >= 2 THEN config.defaultAction ELSE "Retry"}

Init ==
    /\ pc = "idle"
    /\ stage = Disconnected
    /\ prev = Disconnected
    /\ lastError = "Success"
    /\ cancelled = FALSE
    /\ running = FALSE
    /\ attempts = 0
    /\ retries = [s \in RunStages |-> 0]
    /\ config \in Configs
    /\ result = "none"
    /\ calls = 0
    /\ fresh = {}
    /\ invoked = 0

\* The owner's program between two calls: setConfig, setHandler, ...
Configure ==
    /\ pc = "idle"
    /\ calls < MaxCalls
    /\ calls' = calls + 1
    /\ config' \in Configs \ {config}
    /\ UNCHANGED <<pc, stage, prev, lastError, cancelled, running, attempts,
                   retries, result, fresh, invoked>>

cancel ==
    /\ cancelled' = TRUE
    /\ UNCHANGED <<pc, stage, prev, lastError, running, attempts, retries,
                   config, result, calls, fresh, invoked>>

callRun ==
    /\ pc = "idle"
    /\ calls < MaxCalls
    /\ calls' = calls + 1
    /\ pc' = "called"
    /\ UNCHANGED <<stage, prev, lastError, cancelled, running, attempts,
                   retries, config, result, fresh, invoked>>

retry ==
    /\ pc = "idle"
    /\ calls < MaxCalls
    /\ calls' = calls + 1
    /\ IF stage \in Terminal
       THEN /\ stage' = IF stage = Error THEN Disconnected ELSE stage
            /\ cancelled' = FALSE
            /\ pc' = "called"
            /\ UNCHANGED result
       ELSE /\ result' = "InvalidArgument"
            /\ UNCHANGED <<pc, stage, cancelled>>
    /\ UNCHANGED <<prev, lastError, running, attempts, retries, config, fresh, invoked>>

reset ==
    /\ pc = "idle"
    /\ calls < MaxCalls
    /\ calls' = calls + 1
    /\ stage' = Disconnected
    /\ prev' = Disconnected
    /\ lastError' = "Success"
    /\ retries' = [s \in RunStages |-> 0]
    /\ cancelled' = FALSE
    /\ running' = FALSE
    /\ attempts' = 0
    /\ UNCHANGED <<pc, config, result, fresh, invoked>>

\* Mutant of Return: an early return leaves m_running set.
ReturnStaysRunning(s, err, res) ==
    /\ pc' = "idle"
    /\ running' = (running /\ err = "Cancelled")
    /\ stage' = s
    /\ lastError' = err
    /\ result' = res

\* Every return of run(): m_running is cleared and the stage is terminal.
Return(s, err, res) ==
    /\ pc' = "idle"
    /\ running' = FALSE
    /\ stage' = s
    /\ lastError' = err
    /\ result' = res

\* run(), lines 17 to 28: the two tests at its head.
runEnter ==
    /\ pc = "called"
    /\ IF running
       THEN /\ pc' = "idle"
            /\ result' = "AlreadyExists"
            /\ UNCHANGED <<stage, lastError, running>>
       ELSE IF cancelled
            THEN Return(Cancelled, "Cancelled", "Cancelled")
            ELSE pc' = "entered" /\ UNCHANGED <<stage, lastError, running, result>>
    /\ UNCHANGED <<prev, cancelled, attempts, retries, config, calls, fresh, invoked>>

\* run(), lines 30 to 36, and the head of executeStage(Connected).
runStart ==
    /\ pc = "entered"
    /\ pc' = "loop"
    /\ running' = TRUE
    /\ cancelled' = FALSE
    /\ attempts' = 0
    /\ stage' = 1
    /\ lastError' = "Success"
    /\ fresh' = {}
    /\ invoked' = 0
    /\ UNCHANGED <<prev, retries, config, result, calls>>

\* executeStage() moves on from `stage`: to Ready at the end, else to the next stage.
advance ==
    IF nextStage(stage) \in {Ready, Error}
    THEN Return(Ready, lastError, "ok")
    ELSE /\ pc' = "loop"
         /\ stage' = nextStage(stage)
         /\ UNCHANGED <<running, lastError, result>>

\* Head of the loop of executeStage(): the flag, then the handler table.
loopCancelled ==
    /\ pc = "loop"
    /\ cancelled
    /\ Return(Cancelled, "Cancelled", "Cancelled")
    /\ UNCHANGED <<prev, cancelled, attempts, retries, config, calls, fresh, invoked>>

skipStage ==
    /\ pc = "loop"
    /\ ~cancelled
    /\ stage \notin config.handlers
    /\ advance
    /\ UNCHANGED <<prev, cancelled, attempts, retries, config, calls, fresh, invoked>>

invokeHandler ==
    /\ pc = "loop"
    /\ ~cancelled
    /\ stage \in config.handlers
    /\ pc' = "handler"
    /\ invoked' = IF invoked > InvocationBound THEN invoked ELSE invoked + 1
    /\ UNCHANGED <<stage, prev, lastError, cancelled, running, attempts,
                   retries, config, result, calls, fresh>>

handlerOk ==
    /\ pc = "handler"
    /\ prev' = stage
    /\ fresh' = {t \in fresh : t < stage} \cup {stage}
    /\ advance
    /\ UNCHANGED <<cancelled, attempts, retries, config, calls, invoked>>

------------------------------------------------------------------------------
(* handleStageFailure and performRecovery.                                 *)

\* The run fails for good with the handler's error.
abort(err) == Return(Error, err, err)

\* Mutant of recover: the loop resumes one stage too far.
recoverSkipsStage(err, a) ==
    /\ attempts' = attempts + 1
    /\ stage' = IF a = "Rollback" THEN rollbackTarget(stage, 2)
                ELSE IF stage = N THEN stage ELSE stage + 1
    /\ pc' = "loop"
    /\ lastError' = err
    /\ UNCHANGED <<running, result>>

\* Mutant of recover: RestartStage is not counted as an attempt.
recoverUncounted(err, a) ==
    /\ attempts' = IF a = "RestartStage" THEN attempts ELSE attempts + 1
    /\ stage' = IF a = "Rollback" THEN rollbackTarget(stage, 2) ELSE stage
    /\ pc' = "loop"
    /\ lastError' = err
    /\ UNCHANGED <<running, result>>

\* performRecovery after decide() returned a: where the loop resumes.
recover(err, a) ==
    /\ attempts' = attempts + 1
    /\ stage' = IF a = "Rollback" THEN rollbackTarget(stage, 2) ELSE stage
    /\ pc' = "loop"
    /\ lastError' = err
    /\ UNCHANGED <<running, result>>

\* Mutant of performRecovery: the budget is tested with > instead of >=.
performRecoveryOffByOne(err, a, count) ==
    IF ~config.hasStrategy \/ attempts > MaxRecovery \/ a = "Abort"
    THEN /\ abort(err)
         /\ retries' = [retries EXCEPT ![stage] = count + 1]
         /\ UNCHANGED attempts
    ELSE /\ recover(err, a)
         /\ retries' = [retries EXCEPT ![stage] = IF a = "RestartStage" THEN 0 ELSE count + 1]

\* performRecovery: abort when there is no strategy, when the budget of the
\* run is spent or when the strategy says so; otherwise resume the loop.
performRecovery(err, a, count) ==
    IF ~config.hasStrategy \/ attempts >= MaxRecovery \/ a = "Abort"
    THEN /\ abort(err)
         /\ retries' = [retries EXCEPT ![stage] = count + 1]
         /\ UNCHANGED attempts
    ELSE /\ recover(err, a)
         /\ retries' = [retries EXCEPT ![stage] = IF a = "RestartStage" THEN 0 ELSE count + 1]

\* The handler's error is Cancelled: no recovery.
handlerCancelled ==
    /\ pc = "handler"
    /\ prev' = stage
    /\ Return(Cancelled, "Cancelled", "Cancelled")
    /\ UNCHANGED <<cancelled, attempts, retries, config, calls, fresh, invoked>>

handleStageFailure ==
    /\ pc = "handler"
    /\ prev' = stage
    /\ IF ~config.enableRecovery
       THEN abort("Failed") /\ UNCHANGED <<attempts, retries>>
       ELSE \E a \in decide(stage, retries[stage]) : performRecovery("Failed", a, retries[stage])
    /\ UNCHANGED <<cancelled, config, calls, fresh, invoked>>

------------------------------------------------------------------------------
Owner == Configure \/ callRun \/ retry \/ reset

\* What a thread inside run() does; every stage handler returns.
Runner == runEnter \/ runStart \/ loopCancelled \/ skipStage \/ invokeHandler
          \/ handlerOk \/ handlerCancelled \/ handleStageFailure

Next == Owner \/ Runner \/ cancel

Spec == Init /\ [][Next]_vars

\* The thread inside run() is scheduled and its handlers return; nothing is
\* assumed of the owner's calls or of cancel().
FairSpec == Spec /\ WF_vars(Runner)

------------------------------------------------------------------------------
(* Properties.                                                             *)

FlagsOK == cancelled \in BOOLEAN /\ running \in BOOLEAN

StateOK ==
    /\ pc \in {"idle", "called", "entered", "loop", "handler"}
    /\ stage \in Stages
    /\ prev \in RunStages
    /\ lastError \in Errors
    /\ attempts \in 0..MaxRecovery
    /\ retries \in [RunStages -> Nat]
    /\ config \in Configs
    /\ result \in {"none", "ok", "Failed", "Cancelled", "InvalidArgument", "AlreadyExists"}
    /\ calls \in 0..MaxCalls
    /\ fresh \subseteq RunStages
    /\ invoked \in 0..(InvocationBound + 1)

\* Every variable has its type; attempts never exceeds kMaxRecoveryAttempts.
TypeOK == FlagsOK /\ StateOK

\* No target given to setRollbackTarget() lies ahead of the failed stage.
RollsBack == \A s \in DOMAIN config.rollbackMap : config.rollbackMap[s] <= s

\* executeStage() returns success only when every working stage that has a
\* handler succeeded in this very run, each after all the stages before it:
\* a retry, a restart or a rollback never leaves behind a stage that ran
\* against a state an earlier stage has since rebuilt.  The rollback targets
\* must lie behind: setRollbackTarget() does not look (RollbackIsBack).
ReadyMeansBooted ==
    [][(pc # "idle" /\ pc' = "idle" /\ stage' = Ready /\ RollsBack)
           => config.handlers \cap Working \subseteq fresh']_vars

\* Whatever the rules and custom decisions answer, kMaxRecoveryAttempts
\* bounds the handler invocations of one run, rollbacks included.
InvocationsBounded == invoked <= InvocationBound

\* m_running is TRUE exactly while a thread is inside executeStage().
RunningMeansInLoop == running <=> pc \in {"loop", "handler"}

\* run() returns: no recovery rule, not even one that always restarts or
\* rolls back, keeps executeStage() looping for ever.
RunTerminates == pc # "idle" ~> pc = "idle"

\* tests/pipeline/BootPipelineTest.cpp, testCancelBeforeRun: a cancel() that
\* precedes the first stage makes run() end in Cancelled.  run() must then
\* not start the stages while the flag is set.
CancelBeforeStagesHonoured == [][(pc = "entered" /\ pc' = "loop") => ~cancelled]_vars

\* A rollback leads back, as its name says: violated, RecoveryStrategy.hpp:101
\* stores any target, and a run that "rolls back" ahead reports Ready although
\* the stages in between never ran.
RollbackIsBack ==
    [][(pc # "idle" /\ pc' = "idle" /\ stage' = Ready)
           => config.handlers \cap Working \subseteq fresh']_vars

==============================================================================
