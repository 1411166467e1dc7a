------------------------- MODULE BootPipelineProofs -------------------------
(***************************************************************************)
(* Proofs about BootPipeline for every number of stages, every recovery    *)
(* budget and every set of configurations.                                 *)
(***************************************************************************)
EXTENDS BootPipeline, TLAPS

\* Inside the loop the current stage is one that can have a handler.
AtRunStage == pc \in {"loop", "handler"} => stage \in RunStages

\* Each recovery pays for one more pass over the N + 1 stages a run can be
\* at: what the run has invoked is covered by the passes paid for and the
\* stage it has reached in the current one.  A pass that a rollback started
\* behind the last working stage is one invocation long.
Reached == IF stage <= N THEN stage ELSE N

Budget ==
    /\ pc = "loop" => invoked + 1 <= attempts * (N + 1) + Reached
    /\ pc = "handler" => invoked <= attempts * (N + 1) + Reached
    /\ invoked <= InvocationBound

\* Inside the loop every handled stage behind the current one has succeeded
\* since anything before it ran, unless a rollback target lies ahead.
FreshPrefix ==
    pc \in {"loop", "handler"} /\ RollsBack =>
        \A t \in config.handlers \cap Working : t < stage => t \in fresh

\* The inductive invariant; the Boolean flags are kept apart from the part
\* that needs arithmetic.
Flags == FlagsOK /\ (running <=> pc \in {"loop", "handler"})
Core  == StateOK /\ AtRunStage /\ Budget /\ FreshPrefix
Inv   == Flags /\ Core

------------------------------------------------------------------------------
\* Adding one pass to a product of passes.
LEMMA OneMorePass == \A a, k \in Nat : (a + 1) * k = a * k + k
  BY SMT

\* A product of passes is monotone in the number of passes.
LEMMA PassesMonotone == \A a, b, k \in Nat : a <= b => a * k <= b * k
  <1>1. SUFFICES ASSUME NEW a \in Nat, NEW b \in Nat, NEW k \in Nat, a <= b
                 PROVE  a * k <= b * k
    OBVIOUS
  <1>2. PICK c \in Nat : b = a + c
    <2>1. b - a \in Nat /\ b = a + (b - a)
      BY <1>1, SMT
    <2> QED BY <2>1
  <1>3. b * k = a * k + c * k
    BY <1>2, SMT
  <1>4. c * k \in Nat /\ a * k \in Nat
    BY SMT
  <1> QED BY <1>3, <1>4, SMT

\* RecoveryStrategy::rollbackTarget is a stage, and never one ahead of the
\* failed stage when no target was set ahead.
LEMMA RollbackBack ==
  ASSUME config \in Configs, NEW s \in RunStages
  PROVE  rollbackTarget(s, 2) \in RunStages /\ (RollsBack => rollbackTarget(s, 2) <= s)
  <1>1. config \in ConfigType
    BY ConfigAssumption
  <1>2. CASE s \in DOMAIN config.rollbackMap
    <2>1. config.rollbackMap[s] \in RunStages
      BY <1>1, <1>2 DEF ConfigType
    <2> QED BY <1>2, <2>1 DEF rollbackTarget, RollsBack
  <1>3. CASE s \notin DOMAIN config.rollbackMap
    BY <1>3, SizeAssumption DEF rollbackTarget, RunStages, Stages
  <1> QED BY <1>2, <1>3

\* The bound on invocations is a natural number.
LEMMA BoundIsNat == InvocationBound \in Nat /\ InvocationBound = MaxRecovery * (N + 1) + N
  <1>1. /\ MaxRecovery \in Nat /\ N \in Nat /\ N + 1 \in Nat
        /\ (MaxRecovery + 1) * (N + 1) = MaxRecovery * (N + 1) + (N + 1)
        /\ MaxRecovery * (N + 1) \in Nat
    BY SizeAssumption, OneMorePass
  <1> QED BY <1>1 DEF InvocationBound

\* The passes a run has paid for fit below the bound.
LEMMA Arithmetic ==
  ASSUME StateOK
  PROVE  /\ 0 * (N + 1) = 0
         /\ attempts * (N + 1) \in Nat
         /\ attempts * (N + 1) + N <= InvocationBound
         /\ (attempts + 1) * (N + 1) = attempts * (N + 1) + N + 1
  <1>1. MaxRecovery \in Nat /\ N \in Nat /\ N + 1 \in Nat
    BY SizeAssumption
  <1>2. attempts \in Nat /\ attempts <= MaxRecovery
    BY <1>1 DEF StateOK
  <1>3. (attempts + 1) * (N + 1) = attempts * (N + 1) + (N + 1)
    BY <1>1, <1>2, OneMorePass
  <1>4. attempts * (N + 1) <= MaxRecovery * (N + 1)
    BY <1>1, <1>2, PassesMonotone
  <1>5. attempts * (N + 1) \in Nat /\ MaxRecovery * (N + 1) \in Nat /\ 0 * (N + 1) = 0
    BY <1>1, <1>2
  <1> QED BY <1>1, <1>3, <1>4, <1>5, BoundIsNat

------------------------------------------------------------------------------
\* The initial state satisfies the inductive invariant.
LEMMA InitInv == Init => Inv
  <1> SUFFICES ASSUME Init PROVE Inv
    OBVIOUS
  <1>2. InvocationBound \in Nat
    BY BoundIsNat
  <1>3. Flags
    BY DEF Init, Flags, FlagsOK
  <1>4. Core
    BY <1>2, SizeAssumption
    DEF Init, Core, StateOK, AtRunStage, Budget, FreshPrefix,
        Stages, RunStages, Errors, Disconnected
  <1> QED BY <1>3, <1>4 DEF Inv

\* No step of any thread gives a flag a value that is not Boolean.
LEMMA StepFlags == Flags /\ [Next]_vars => Flags'
  <1> SUFFICES ASSUME Flags, [Next]_vars PROVE Flags'
    OBVIOUS
  <1> USE DEF Flags, FlagsOK
  <1>1. CASE Owner
    <2>1. /\ cancelled' \in BOOLEAN
          /\ running' \in BOOLEAN
      BY <1>1 DEF Owner, Configure, callRun, retry, reset
    <2>2. ~running /\ ~running'
      BY <1>1 DEF Owner, Configure, callRun, retry, reset
    <2>3. pc' \notin {"loop", "handler"}
      BY <1>1 DEF Owner, Configure, callRun, retry, reset
    <2> QED BY <2>1, <2>2, <2>3
  <1>2. CASE cancel \/ UNCHANGED vars
    <2>1. pc' = pc /\ running' = running /\ cancelled' \in BOOLEAN
      BY <1>2 DEF cancel, vars
    <2> QED BY <2>1
  <1>3. CASE runEnter \/ runStart
    BY <1>3 DEF runEnter, runStart, Return
  <1>4. CASE loopCancelled \/ invokeHandler \/ handlerCancelled
    BY <1>4 DEF loopCancelled, invokeHandler, handlerCancelled, Return
  <1>5. CASE skipStage \/ handlerOk
    BY <1>5 DEF skipStage, handlerOk, advance, Return
  <1>6. CASE handleStageFailure
    BY <1>6 DEF handleStageFailure, performRecovery, abort, recover, Return
  <1> QED BY <1>1, <1>2, <1>3, <1>4, <1>5, <1>6 DEF Next, Runner

------------------------------------------------------------------------------
\* How executeStage() moves on from a stage.
LEMMA AdvanceStep ==
  ASSUME stage \in RunStages, advance
  PROVE  /\ lastError' = lastError
         /\ \/ pc' = "idle" /\ stage >= N /\ stage' = N + 1 /\ result' = "ok"
            \/ pc' = "loop" /\ stage < N /\ stage' = stage + 1 /\ result' = result
  BY SizeAssumption DEF advance, Return, nextStage, Ready, Error, RunStages, Stages

\* A failed stage either ends the run or resumes the loop, at or before it when
\* no rollback target lies ahead, and resuming costs one of the MaxRecovery
\* attempts.
LEMMA FailureStep ==
  ASSUME StateOK, stage \in RunStages, handleStageFailure
  PROVE  /\ pc = "handler"
         /\ prev' = stage
         /\ lastError' = "Failed"
         /\ retries' \in [RunStages -> Nat]
         /\ UNCHANGED <<config, calls, fresh, invoked>>
         /\ \/ pc' = "idle" /\ stage' = Error /\ result' = "Failed" /\ attempts' = attempts
            \/ /\ pc' = "loop" /\ stage' \in RunStages /\ result' = result
               /\ RollsBack => stage' <= stage
               /\ attempts' = attempts + 1 /\ attempts < MaxRecovery
  <1>1. retries[stage] \in Nat /\ retries \in [RunStages -> Nat] /\ config \in Configs
        /\ attempts \in Nat /\ MaxRecovery \in Nat
    BY SizeAssumption DEF StateOK
  <1>2. CASE ~config.enableRecovery
    BY <1>1, <1>2 DEF handleStageFailure, abort, Return
  <1>3. CASE config.enableRecovery
    <2>1. PICK a \in decide(stage, retries[stage]) :
              performRecovery("Failed", a, retries[stage])
      BY <1>3 DEF handleStageFailure
    <2>2. CASE ~config.hasStrategy \/ attempts >= MaxRecovery \/ a = "Abort"
      BY <1>1, <2>1, <2>2 DEF handleStageFailure, performRecovery, abort, Return
    <2>3. CASE ~(~config.hasStrategy \/ attempts >= MaxRecovery \/ a = "Abort")
      <3>1. rollbackTarget(stage, 2) \in RunStages /\ (RollsBack => rollbackTarget(stage, 2) <= stage)
        BY <1>1, RollbackBack
      <3>2. stage <= stage
        BY SizeAssumption DEF RunStages, Stages
      <3>3. stage' \in RunStages /\ (RollsBack => stage' <= stage)
        BY <2>1, <2>3, <3>1, <3>2 DEF performRecovery, recover
      <3>4. retries' \in [RunStages -> Nat]
        BY <1>1, <2>1, <2>3 DEF performRecovery
      <3> QED BY <1>1, <2>1, <2>3, <3>3, <3>4 DEF handleStageFailure, performRecovery, recover
    <2> QED BY <2>2, <2>3
  <1> QED BY <1>2, <1>3

\* No step breaks the types or moves the loop to a stage outside RunStages.
LEMMA StepState == StateOK /\ AtRunStage /\ [Next]_vars => StateOK' /\ AtRunStage'
  <1> SUFFICES ASSUME StateOK, AtRunStage, [Next]_vars PROVE StateOK' /\ AtRunStage'
    OBVIOUS
  <1>a. N \in Nat \ {0} /\ MaxRecovery \in Nat /\ MaxCalls \in Nat
    BY SizeAssumption
  <1>b. InvocationBound \in Nat /\ InvocationBound' = InvocationBound
    BY <1>a, BoundIsNat DEF InvocationBound
  <1> USE DEF AtRunStage, StateOK, Stages, RunStages, Errors, Disconnected, Ready, Error, Cancelled
  <1>1. CASE Configure
    BY <1>1, <1>a, <1>b DEF Configure
  <1>2. CASE callRun
    BY <1>2, <1>a, <1>b DEF callRun
  <1>3. CASE retry
    BY <1>3, <1>a, <1>b DEF retry
  <1>4. CASE reset
    BY <1>4, <1>a, <1>b DEF reset
  <1>5. CASE cancel
    BY <1>5, <1>a, <1>b DEF cancel
  <1>6. CASE runEnter
    BY <1>6, <1>a, <1>b DEF runEnter, Return
  <1>7. CASE runStart
    BY <1>7, <1>a, <1>b DEF runStart
  <1>8. CASE loopCancelled
    BY <1>8, <1>a, <1>b DEF loopCancelled, Return
  <1>9. CASE skipStage
    <2>1. stage \in RunStages
      BY <1>9 DEF skipStage
    <2> QED BY <1>9, <1>a, <1>b, <2>1, AdvanceStep DEF skipStage
  <1>10. CASE invokeHandler
    BY <1>10, <1>a, <1>b DEF invokeHandler
  <1>11. CASE handlerOk
    <2>1. stage \in RunStages
      BY <1>11 DEF handlerOk
    <2>2. /\ prev' = stage /\ fresh' = {t \in fresh : t < stage} \cup {stage}
          /\ UNCHANGED <<attempts, retries, config, calls, invoked>>
      BY <1>11 DEF handlerOk
    <2>3. fresh' \subseteq RunStages
      BY <2>1, <2>2
    <2>4. /\ lastError' = lastError
          /\ \/ pc' = "idle" /\ stage' = N + 1 /\ result' = "ok"
             \/ pc' = "loop" /\ stage' \in 0..N /\ result' = result
      BY <1>11, <1>a, <2>1, AdvanceStep DEF handlerOk
    <2> QED BY <1>a, <1>b, <2>1, <2>2, <2>3, <2>4
  <1>12. CASE handlerCancelled
    BY <1>12, <1>a, <1>b DEF handlerCancelled, Return
  <1>13. CASE handleStageFailure
    <2>1. stage \in RunStages
      BY <1>13 DEF handleStageFailure
    <2>2. /\ prev' = stage /\ lastError' = "Failed" /\ retries' \in [RunStages -> Nat]
          /\ UNCHANGED <<config, calls, fresh, invoked>>
          /\ \/ pc' = "idle" /\ stage' = N + 2 /\ result' = "Failed" /\ attempts' = attempts
             \/ /\ pc' = "loop" /\ stage' \in 0..(N + 3) /\ result' = result
                /\ attempts' = attempts + 1 /\ attempts < MaxRecovery
      BY <1>13, <2>1, FailureStep
    <2>3. stage' \in 0..(N + 3) /\ attempts' \in 0..MaxRecovery
      <3>1. attempts \in 0..MaxRecovery
        OBVIOUS
      <3>2. attempts' \in 0..MaxRecovery
        BY <1>a, <2>2, <3>1
      <3> HIDE DEF StateOK
      <3>3. stage' \in 0..(N + 3)
        BY <1>a, <2>2
      <3> QED BY <3>2, <3>3
    <2> QED BY <1>a, <1>b, <2>1, <2>2, <2>3
  <1>14. CASE UNCHANGED vars
    BY <1>14, <1>a, <1>b DEF vars
  <1> QED
    BY <1>1, <1>2, <1>3, <1>4, <1>5, <1>6, <1>7, <1>8, <1>9, <1>10, <1>11, <1>12, <1>13, <1>14
    DEF Next, Owner, Runner

\* No step overdraws the handler invocations the recoveries have paid for.
LEMMA StepBudget == StateOK /\ AtRunStage /\ Budget /\ [Next]_vars => Budget'
  <1> SUFFICES ASSUME StateOK, AtRunStage, Budget, [Next]_vars PROVE Budget'
    OBVIOUS
  <1> DEFINE paid(a) == a * (N + 1)
  <1>a. /\ N \in Nat /\ attempts \in Nat /\ invoked \in Nat
        /\ InvocationBound \in Nat /\ InvocationBound' = InvocationBound
    BY SizeAssumption, BoundIsNat DEF StateOK, InvocationBound
  <1>b. /\ paid(0) = 0 /\ paid(attempts) \in Nat
        /\ paid(attempts) + N <= InvocationBound
        /\ paid(attempts + 1) = paid(attempts) + N + 1
    BY Arithmetic
  <1>c. /\ pc = "loop" => invoked + 1 <= paid(attempts) + Reached
        /\ pc = "handler" => invoked <= paid(attempts) + Reached
        /\ invoked <= InvocationBound
        /\ pc \in {"loop", "handler"} => stage \in 0..(N + 3)
    BY DEF Budget, AtRunStage, RunStages, Stages
  <1>d. SUFFICES /\ pc' = "loop" => invoked' + 1 <= paid(attempts') + Reached'
                 /\ pc' = "handler" => invoked' <= paid(attempts') + Reached'
                 /\ invoked' <= InvocationBound
    BY <1>a DEF Budget
  <1> HIDE DEF paid
  <1> USE DEF Reached
  <1>1. CASE Owner \/ cancel \/ runEnter \/ loopCancelled \/ handlerCancelled \/ UNCHANGED vars
    <2>1. invoked' = invoked
      BY <1>1 DEF Owner, Configure, callRun, retry, reset, cancel, runEnter, loopCancelled,
                  handlerCancelled, vars
    <2>2. (pc' \notin {"loop", "handler"}) \/ (pc' = pc /\ attempts' = attempts /\ stage' = stage)
      BY <1>1 DEF Owner, Configure, callRun, retry, reset, cancel, runEnter, loopCancelled,
                  handlerCancelled, Return, vars
    <2> QED BY <1>c, <2>1, <2>2
  <1>2. CASE runStart
    BY <1>2, <1>a, <1>b, SizeAssumption DEF runStart
  <1>3. CASE invokeHandler
    BY <1>3, <1>a, <1>b, <1>c DEF invokeHandler
  <1>4. CASE skipStage \/ handlerOk
    <2>1. /\ stage \in 0..(N + 3) /\ invoked <= paid(attempts) + Reached
          /\ invoked' = invoked /\ attempts' = attempts /\ advance
          /\ pc = "loop" => invoked + 1 <= paid(attempts) + Reached
      BY <1>4, <1>a, <1>b, <1>c DEF skipStage, handlerOk
    <2> QED BY <1>a, <1>b, <1>c, <2>1, AdvanceStep DEF RunStages, Stages
  <1>5. CASE handleStageFailure
    <2>1. stage \in 0..(N + 3) /\ invoked <= paid(attempts) + Reached
      BY <1>5, <1>c DEF handleStageFailure
    <2>2. /\ invoked' = invoked
          /\ \/ pc' = "idle"
             \/ pc' = "loop" /\ stage' \in 0..(N + 3) /\ attempts' = attempts + 1
      BY <1>5, <2>1, FailureStep DEF RunStages, Stages
    <2>3. CASE pc' = "idle"
      BY <1>c, <2>2, <2>3
    <2>4. CASE pc' = "loop" /\ stage' \in 0..(N + 3) /\ attempts' = attempts + 1
      <3>1. Reached <= N /\ Reached \in Nat /\ Reached' \in Nat
        BY <1>a, <2>1, <2>4
      <3>2. paid(attempts') = paid(attempts) + N + 1
        BY <1>b, <2>4
      <3> HIDE DEF Reached
      <3> QED BY <1>a, <1>b, <1>c, <2>1, <2>2, <2>4, <3>1, <3>2
    <2> QED BY <2>2, <2>3, <2>4
  <1> QED BY <1>1, <1>2, <1>3, <1>4, <1>5 DEF Next, Runner

\* No step leaves a handled stage behind the current one that is not fresh.
LEMMA StepFresh == StateOK /\ AtRunStage /\ FreshPrefix /\ [Next]_vars => FreshPrefix'
  <1> SUFFICES ASSUME StateOK, AtRunStage, FreshPrefix, [Next]_vars PROVE FreshPrefix'
    OBVIOUS
  <1>a. N \in Nat
    BY SizeAssumption
  <1>b. pc \in {"loop", "handler"} => stage \in 0..(N + 3)
    BY DEF AtRunStage, RunStages, Stages
  <1> USE DEF FreshPrefix, Working, RollsBack
  <1>1. CASE Owner \/ cancel \/ runEnter \/ loopCancelled \/ handlerCancelled \/ UNCHANGED vars
    <2>1. (pc' \notin {"loop", "handler"})
          \/ (pc' = pc /\ fresh' = fresh /\ stage' = stage /\ config' = config)
      BY <1>1 DEF Owner, Configure, callRun, retry, reset, cancel, runEnter, loopCancelled,
                  handlerCancelled, Return, vars
    <2> QED BY <2>1
  <1>2. CASE runStart
    BY <1>2, <1>a DEF runStart
  <1>3. CASE invokeHandler
    BY <1>3 DEF invokeHandler
  <1>4. CASE skipStage
    BY <1>4, <1>a, <1>b, AdvanceStep DEF skipStage, RunStages, Stages
  <1>5. CASE handlerOk
    BY <1>5, <1>a, <1>b, AdvanceStep DEF handlerOk, RunStages, Stages
  <1>6. CASE handleStageFailure
    <2>1. stage \in 0..(N + 3)
      BY <1>6, <1>b DEF handleStageFailure
    <2> QED BY <1>6, <1>a, <2>1, FailureStep DEF RunStages, Stages
  <1> QED BY <1>1, <1>2, <1>3, <1>4, <1>5, <1>6 DEF Next, Runner

\* The inductive invariant holds in every reachable state.
THEOREM Invariance == Spec => []Inv
  <1>1. Inv /\ [Next]_vars => Inv'
    BY StepFlags, StepState, StepBudget, StepFresh DEF Inv, Core
  <1> QED BY InitInv, <1>1, PTL DEF Spec

\* Every variable of the pipeline keeps its type and m_recoveryAttempts stays
\* within kMaxRecoveryAttempts, for every N and every configuration.
THEOREM TypeCorrect == Spec => []TypeOK
  <1>1. Inv => TypeOK
    BY DEF Inv, Flags, Core, TypeOK
  <1> QED BY Invariance, <1>1, PTL

\* One run() invokes at most InvocationBound handlers, whatever the recovery
\* rules and the custom decisions answer.
THEOREM BoundedInvocations == Spec => []InvocationsBounded
  <1>1. Inv => InvocationsBounded
    BY DEF Inv, Core, Budget, InvocationsBounded
  <1> QED BY Invariance, <1>1, PTL

\* m_running says whether a thread is inside executeStage().
THEOREM RunningIsExact == Spec => []RunningMeansInLoop
  <1>1. Inv => RunningMeansInLoop
    BY DEF Inv, Flags, Core, AtRunStage, RunningMeansInLoop
  <1> QED BY Invariance, <1>1, PTL

\* A run that ends in Ready executed every handler of its table with
\* success, in pipeline order, after the last rollback that crossed it, when
\* no rollback target of its configuration lies ahead.
THEOREM ReadyIsBooted == Spec => ReadyMeansBooted
  <1>1. Inv /\ [Next]_vars
            => [(pc # "idle" /\ pc' = "idle" /\ stage' = Ready /\ RollsBack)
                    => config.handlers \cap Working \subseteq fresh']_vars
    <2> SUFFICES ASSUME Flags, Core, Next, pc # "idle", pc' = "idle", stage' = Ready, RollsBack
                 PROVE  config.handlers \cap Working \subseteq fresh'
      BY DEF Inv, vars
    <2> USE DEF Core, AtRunStage, FreshPrefix, Stages, RunStages, Disconnected,
                Working, Ready, Error, Cancelled, Terminal
    <2>1. N \in Nat \ {0}
      BY SizeAssumption
    <2>2. CASE skipStage
      BY <2>1, <2>2 DEF skipStage, advance, Return, nextStage, StateOK
    <2>3. CASE handlerOk
      BY <2>1, <2>3 DEF handlerOk, advance, Return, nextStage, StateOK
    <2>4. CASE runEnter
      <3>1. ~running
        BY <2>4 DEF Flags, runEnter
      <3> QED BY <2>1, <2>4, <3>1 DEF runEnter, Return, StateOK
    <2>5. CASE Owner \/ cancel \/ runStart \/ loopCancelled \/ invokeHandler \/ handlerCancelled
      BY <2>1, <2>5 DEF Owner, Configure, callRun, retry, reset, cancel, runStart,
                        loopCancelled, invokeHandler, handlerCancelled, Return
    <2>6. CASE handleStageFailure
      BY <2>1, <2>6 DEF handleStageFailure, performRecovery, abort, recover, Return
    <2> QED BY <2>2, <2>3, <2>4, <2>5, <2>6 DEF Next, Runner
  <1> QED BY Invariance, <1>1, PTL DEF Spec, ReadyMeansBooted

==============================================================================
