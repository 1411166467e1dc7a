--------------------------- MODULE WorkflowProofs ---------------------------
(***************************************************************************)
(* Proofs about WorkflowEngine, for every list of steps, every strategy of *)
(* the client, every retry count and any number of calls, from a client    *)
(* that may also call rollback() while run() is executing.  The inductive  *)
(* invariant WInv has one part for each theorem, beside the types.         *)
(***************************************************************************)
EXTENDS WorkflowEngine, TLAPS

\* The places of run() in its loop over the steps.
InLoop == {"top", "paused", "step", "exec"}

\* A run that has gone on to a step is at one that exists, and tries it no
\* more often than it may.
AtStep ==
    /\ rpc \in {"paused", "step", "exec"} => i <= n
    /\ rpc = "exec" => tries < MaxRetries

\* A cancel() of this run has its flag still set, and there was none before
\* the loop.
CancelIsKnown ==
    /\ rpc \in {"check", "entry", "begin"} => ~known
    /\ rpc \in InLoop /\ known => cancelled

\* What is before step j is executed.
DoneBefore(j) == ~cont => \A k \in 1..(j - 1) : k \in completed

\* What is before step j took effect or was skipped, but for warnings that let
\* the workflow fail in the end, and rollbacks.
EffectBefore(j) ==
    (~undone /\ ~(warnings /\ cont)) => \A k \in 1..(j - 1) : k \in effect \/ decide(k) = "Skip"

Progress ==
    /\ DoneBefore(cur) /\ EffectBefore(cur)
    /\ rpc \in InLoop => DoneBefore(i) /\ EffectBefore(i)

\* Only executed steps have effects, nothing is undone in a workflow that has
\* not been prepared yet, and nothing else leads to Ready while a rollback is
\* under way, also one that a run goes on beside.
Undoing ==
    /\ effect \subseteq completed
    /\ st = "Created" => ~undone
    /\ cpc = "rollback" =>
          /\ st \notin {"Created", "Ready"}
          /\ rpc \in InLoop \cup {"entry", "begin"} => st \notin {"Failed", "Cancelled"}

\* TypeOK without the flags.
Others ==
    /\ st \in {"Created", "Ready", "Running", "Paused", "Cancelled", "Completed", "Failed", "RollingBack"}
    /\ n \in 0..N /\ cur \in 1..(N + 1) /\ i \in 1..(N + 1)
    /\ completed \subseteq 1..n /\ effect \subseteq 1..n
    /\ rpc \in {"idle", "check", "entry", "begin", "top", "paused", "step", "exec"}
    /\ tries \in 0..MaxRetries
    /\ cpc \in {"idle", "pause", "resume", "Paused", "Running", "Cancelled", "rollback"}
    /\ asked \in {"none", "auto"}

\* Every flag is a Boolean.
Flags ==
    /\ cancelled \in BOOLEAN /\ paused \in BOOLEAN /\ cont \in BOOLEAN /\ custom \in BOOLEAN /\ warnings \in BOOLEAN
    /\ success \in BOOLEAN /\ undone \in BOOLEAN /\ known \in BOOLEAN /\ dropped \in BOOLEAN

\* The inductive invariant of the engine.
WInv == TypeOK /\ AtStep /\ CancelIsKnown /\ Progress /\ Undoing /\ StepsAreWhole /\ RollbackUndoes

-----------------------------------------------------------------------------
(* Each part is kept by every step.                                        *)

\* A cancel() stays known to the run it was made in until that run returns.
LEMMA StepKnown ==
    ASSUME CancelIsKnown, [Next]_vars
    PROVE  CancelIsKnown'
<1> USE WorkflowAssumption DEF CancelIsKnown, InLoop
<1>1. CASE addStep
  BY <1>1 DEF addStep, config, run_, hist
<1>2. CASE clearSteps
  BY <1>2 DEF clearSteps, Call
<1>3. CASE callPrepare
  BY <1>3 DEF callPrepare, prepare, Call, config, hist
<1>4. CASE callRun
  BY <1>4 DEF callRun, prepare, Call, Run, config, hist
<1>5. CASE checkState
  BY <1>5 DEF checkState, Run, config, hist
<1>6. CASE clearFlags
  BY <1>6 DEF clearFlags, Run, config, hist
<1>7. CASE begin
  BY <1>7 DEF begin, Run, config, hist
<1>8. CASE finish
  BY <1>8 DEF finish, Run, config, hist
<1>9. CASE loopHead
  BY <1>9 DEF loopHead, Run, config, hist
<1>10. CASE pauseLoop
  BY <1>10 DEF pauseLoop, Run, config, hist
<1>11. CASE tryStep
  BY <1>11 DEF tryStep, stepFailed, stepCancelled, config, hist
<1>12. CASE execOk
  BY <1>12 DEF execOk, stepDone, config, hist
<1>13. CASE execCancelled
  BY <1>13 DEF execCancelled, stepCancelled, config, hist
<1>14. CASE execFails
  BY <1>14 DEF execFails, stepDone, stepFailed, config, hist
<1>15. CASE pause
  BY <1>15 DEF pause, Other, Call, config, run_, hist
<1>16. CASE resume
  BY <1>16 DEF resume, Other, Call, config, run_, hist
<1>17. CASE setPaused
  BY <1>17 DEF setPaused, Other, config, run_, hist
<1>17s. CASE setState
  BY <1>17s DEF setState, config, run_, hist
<1>18. CASE cancel
  BY <1>18 DEF cancel, Other, Call, config, run_, hist
<1>19. CASE rollback
  BY <1>19 DEF rollback, Other, Call, config, run_, hist
<1>20. CASE endRollback
  BY <1>20 DEF endRollback, Other, config
<1>21. CASE reset
  BY <1>21 DEF reset, Other, Call
<1>22. CASE UNCHANGED vars
  BY <1>22 DEF vars, config, run_, hist
<1>23. QED
  BY <1>1, <1>2, <1>3, <1>4, <1>5, <1>6, <1>7, <1>8, <1>9, <1>10, <1>11, <1>12, <1>13, <1>14, <1>15, <1>16, <1>17, <1>17s, <1>18, <1>19, <1>20, <1>21, <1>22 DEF Next, Runner

\* Effects come with completion and go with it.
LEMMA StepUndoing ==
    ASSUME Undoing, [Next]_vars
    PROVE  Undoing'
<1> USE WorkflowAssumption DEF Undoing, InLoop
<1>1. CASE addStep
  BY <1>1 DEF addStep, config, run_, hist
<1>2. CASE clearSteps
  BY <1>2 DEF clearSteps, Call
<1>3. CASE callPrepare
  BY <1>3 DEF callPrepare, prepare, Call, config, hist
<1>4. CASE callRun
  BY <1>4 DEF callRun, prepare, Call, Run, config, hist
<1>5. CASE checkState
  BY <1>5 DEF checkState, Run, config, hist
<1>6. CASE clearFlags
  BY <1>6 DEF clearFlags, Run, config, hist
<1>7. CASE begin
  BY <1>7 DEF begin, Run, config, hist
<1>8. CASE finish
  BY <1>8 DEF finish, Run, config, hist
<1>9. CASE loopHead
  BY <1>9 DEF loopHead, Run, config, hist
<1>10. CASE pauseLoop
  BY <1>10 DEF pauseLoop, Run, config, hist
<1>11. CASE tryStep
  BY <1>11 DEF tryStep, stepFailed, stepCancelled, config, hist
<1>12. CASE execOk
  BY <1>12 DEF execOk, stepDone, config, hist
<1>13. CASE execCancelled
  BY <1>13 DEF execCancelled, stepCancelled, config, hist
<1>14. CASE execFails
  BY <1>14 DEF execFails, stepDone, stepFailed, config, hist, toRollBack
<1>15. CASE pause
  BY <1>15 DEF pause, Other, Call, config, run_, hist
<1>16. CASE resume
  BY <1>16 DEF resume, Other, Call, config, run_, hist
<1>17. CASE setPaused
  BY <1>17 DEF setPaused, Other, config, run_, hist
<1>17s. CASE setState
  BY <1>17s DEF setState, config, run_, hist
<1>18. CASE cancel
  BY <1>18 DEF cancel, Other, Call, config, run_, hist
<1>19. CASE rollback
  BY <1>19 DEF rollback, Other, Call, config, run_, hist
<1>20. CASE endRollback
  BY <1>20 DEF endRollback, Other, config, toRollBack
<1>21. CASE reset
  BY <1>21 DEF reset, Other, Call
<1>22. CASE UNCHANGED vars
  BY <1>22 DEF vars, config, run_, hist
<1>23. QED
  BY <1>1, <1>2, <1>3, <1>4, <1>5, <1>6, <1>7, <1>8, <1>9, <1>10, <1>11, <1>12, <1>13, <1>14, <1>15, <1>16, <1>17, <1>17s, <1>18, <1>19, <1>20, <1>21, <1>22 DEF Next, Runner

\* The loop index of a step in progress and its tries stay in range.
LEMMA StepAt ==
    ASSUME TypeOK, AtStep, [Next]_vars
    PROVE  AtStep'
<1> USE WorkflowAssumption DEF TypeOK, AtStep
<1>1. CASE addStep
  BY <1>1 DEF addStep, config, run_, hist
<1>2. CASE clearSteps
  BY <1>2 DEF clearSteps, Call
<1>3. CASE callPrepare
  BY <1>3 DEF callPrepare, prepare, Call, config, hist
<1>4. CASE callRun
  BY <1>4 DEF callRun, prepare, Call, Run, config, hist
<1>5. CASE checkState
  BY <1>5 DEF checkState, Run, config, hist
<1>6. CASE clearFlags
  BY <1>6 DEF clearFlags, Run, config, hist
<1>7. CASE begin
  BY <1>7 DEF begin, Run, config, hist
<1>8. CASE finish
  BY <1>8 DEF finish, Run, config, hist
<1>9. CASE loopHead
  BY <1>9 DEF loopHead, Run, config, hist
<1>10. CASE pauseLoop
  BY <1>10 DEF pauseLoop, Run, config, hist
<1>11. CASE tryStep
  BY <1>11 DEF tryStep, stepFailed, stepCancelled, config, hist
<1>12. CASE execOk
  BY <1>12 DEF execOk, stepDone, config, hist
<1>13. CASE execCancelled
  BY <1>13 DEF execCancelled, stepCancelled, config, hist
<1>14. CASE execFails
  BY <1>14 DEF execFails, stepDone, stepFailed, config, hist
<1>15. CASE pause
  BY <1>15 DEF pause, Other, Call, config, run_, hist
<1>16. CASE resume
  BY <1>16 DEF resume, Other, Call, config, run_, hist
<1>17. CASE setPaused
  BY <1>17 DEF setPaused, Other, config, run_, hist
<1>17s. CASE setState
  BY <1>17s DEF setState, config, run_, hist
<1>18. CASE cancel
  BY <1>18 DEF cancel, Other, Call, config, run_, hist
<1>19. CASE rollback
  BY <1>19 DEF rollback, Other, Call, config, run_, hist
<1>20. CASE endRollback
  BY <1>20 DEF endRollback, Other, config
<1>21. CASE reset
  BY <1>21 DEF reset, Other, Call
<1>22. CASE UNCHANGED vars
  BY <1>22 DEF vars, config, run_, hist
<1>23. QED
  BY <1>1, <1>2, <1>3, <1>4, <1>5, <1>6, <1>7, <1>8, <1>9, <1>10, <1>11, <1>12, <1>13, <1>14, <1>15, <1>16, <1>17, <1>17s, <1>18, <1>19, <1>20, <1>21, <1>22 DEF Next, Runner

\* What is before the step the workflow stands at stays done and in effect.
LEMMA StepProgress ==
    ASSUME TypeOK, CancelIsKnown, Progress, [Next]_vars
    PROVE  Progress'
<1> USE WorkflowAssumption DEF TypeOK, Progress, DoneBefore, EffectBefore, InLoop, decide
<1>1. CASE addStep
  BY <1>1 DEF addStep, config, run_, hist
<1>2. CASE clearSteps
  BY <1>2 DEF clearSteps, Call
<1>3. CASE callPrepare
  BY <1>3 DEF callPrepare, prepare, Call, config, hist
<1>4. CASE callRun
  BY <1>4 DEF callRun, prepare, Call, Run, config, hist
<1>5. CASE checkState
  BY <1>5 DEF checkState, Run, config, hist
<1>6. CASE clearFlags
  BY <1>6 DEF clearFlags, Run, config, hist
<1>7. CASE begin
  BY <1>7 DEF begin, Run, config, hist
<1>8. CASE finish
  BY <1>8 DEF finish, Run, config, hist
<1>9. CASE loopHead
  BY <1>9 DEF loopHead, Run, config, hist
<1>10. CASE pauseLoop
  BY <1>10 DEF pauseLoop, Run, config, hist
<1>11. CASE tryStep
  BY <1>11 DEF tryStep, stepFailed, stepCancelled, config, hist
<1>12. CASE execOk
  BY <1>12 DEF execOk, stepDone, config, hist
<1>13. CASE execCancelled
  BY <1>13 DEF execCancelled, stepCancelled, config, hist
<1>14. CASE execFails
  BY <1>14 DEF execFails, stepDone, stepFailed, config, hist
<1>15. CASE pause
  BY <1>15 DEF pause, Other, Call, config, run_, hist
<1>16. CASE resume
  BY <1>16 DEF resume, Other, Call, config, run_, hist
<1>17. CASE setPaused
  BY <1>17 DEF setPaused, Other, config, run_, hist
<1>17s. CASE setState
  BY <1>17s DEF setState, config, run_, hist
<1>18. CASE cancel
  BY <1>18 DEF cancel, Other, Call, config, run_, hist
<1>19. CASE rollback
  BY <1>19 DEF rollback, Other, Call, config, run_, hist
<1>20. CASE endRollback
  BY <1>20 DEF endRollback, Other, config
<1>21. CASE reset
  BY <1>21 DEF reset, Other, Call
<1>22. CASE UNCHANGED vars
  BY <1>22 DEF vars, config, run_, hist
<1>23. QED
  BY <1>1, <1>2, <1>3, <1>4, <1>5, <1>6, <1>7, <1>8, <1>9, <1>10, <1>11, <1>12, <1>13, <1>14, <1>15, <1>16, <1>17, <1>17s, <1>18, <1>19, <1>20, <1>21, <1>22 DEF Next, Runner

\* Success is reported behind the last step only, and holds until a reset.
LEMMA StepSuccess ==
    ASSUME TypeOK, Progress, SuccessMeansAllSteps, [Next]_vars
    PROVE  SuccessMeansAllSteps'
<1> USE WorkflowAssumption DEF TypeOK, Progress, EffectBefore, InLoop, SuccessMeansAllSteps, decide
<1>1. CASE addStep
  BY <1>1 DEF addStep, config, run_, hist
<1>2. CASE clearSteps
  BY <1>2 DEF clearSteps, Call
<1>3. CASE callPrepare
  BY <1>3 DEF callPrepare, prepare, Call, config, hist
<1>4. CASE callRun
  BY <1>4 DEF callRun, prepare, Call, Run, config, hist
<1>5. CASE checkState
  <2>1. UNCHANGED <<n, effect, undone, custom>>
    BY <1>5 DEF checkState, config, hist
  <2>2. CASE n = 0
    BY <2>1, <2>2
  <2>3. CASE n # 0
    BY <1>5, <2>1, <2>3 DEF checkState, Run
  <2>4. QED
    BY <2>2, <2>3
<1>6. CASE clearFlags
  BY <1>6 DEF clearFlags, Run, config, hist
<1>7. CASE begin
  BY <1>7 DEF begin, Run, config, hist
<1>8. CASE finish
  BY <1>8 DEF finish, Run, config, hist
<1>9. CASE loopHead
  BY <1>9 DEF loopHead, Run, config, hist
<1>10. CASE pauseLoop
  BY <1>10 DEF pauseLoop, Run, config, hist
<1>11. CASE tryStep
  BY <1>11 DEF tryStep, stepFailed, stepCancelled, config, hist
<1>12. CASE execOk
  BY <1>12 DEF execOk, stepDone, config, hist
<1>13. CASE execCancelled
  BY <1>13 DEF execCancelled, stepCancelled, config, hist
<1>14. CASE execFails
  BY <1>14 DEF execFails, stepDone, stepFailed, config, hist
<1>15. CASE pause
  BY <1>15 DEF pause, Other, Call, config, run_, hist
<1>16. CASE resume
  BY <1>16 DEF resume, Other, Call, config, run_, hist
<1>17. CASE setPaused
  BY <1>17 DEF setPaused, Other, config, run_, hist
<1>17s. CASE setState
  BY <1>17s DEF setState, config, run_, hist
<1>18. CASE cancel
  BY <1>18 DEF cancel, Other, Call, config, run_, hist
<1>19. CASE rollback
  BY <1>19 DEF rollback, Other, Call, config, run_, hist
<1>20. CASE endRollback
  BY <1>20 DEF endRollback, Other, config
<1>21. CASE reset
  BY <1>21 DEF reset, Other, Call
<1>22. CASE UNCHANGED vars
  BY <1>22 DEF vars, config, run_, hist
<1>23. QED
  BY <1>1, <1>2, <1>3, <1>4, <1>5, <1>6, <1>7, <1>8, <1>9, <1>10, <1>11, <1>12, <1>13, <1>14, <1>15, <1>16, <1>17, <1>17s, <1>18, <1>19, <1>20, <1>21, <1>22 DEF Next, Runner

\* A run leaves Ready, and only a rollback without errors leads back to it.
LEMMA StepRollback ==
    ASSUME TypeOK, Undoing, RollbackUndoes, [Next]_vars
    PROVE  RollbackUndoes'
<1> USE WorkflowAssumption DEF TypeOK, Undoing, RollbackUndoes
<1>1. CASE addStep
  BY <1>1 DEF addStep, config, run_, hist
<1>2. CASE clearSteps
  BY <1>2 DEF clearSteps, Call
<1>3. CASE callPrepare
  BY <1>3 DEF callPrepare, prepare, Call, config, hist
<1>4. CASE callRun
  BY <1>4 DEF callRun, prepare, Call, Run, config, hist
<1>5. CASE checkState
  BY <1>5 DEF checkState, Run, config, hist
<1>6. CASE clearFlags
  BY <1>6 DEF clearFlags, Run, config, hist
<1>7. CASE begin
  BY <1>7 DEF begin, Run, config, hist
<1>8. CASE finish
  BY <1>8 DEF finish, Run, config, hist
<1>9. CASE loopHead
  BY <1>9 DEF loopHead, Run, config, hist
<1>10. CASE pauseLoop
  BY <1>10 DEF pauseLoop, Run, config, hist
<1>11. CASE tryStep
  BY <1>11 DEF tryStep, stepFailed, stepCancelled, config, hist
<1>12. CASE execOk
  BY <1>12 DEF execOk, stepDone, config, hist
<1>13. CASE execCancelled
  BY <1>13 DEF execCancelled, stepCancelled, config, hist
<1>14. CASE execFails
  BY <1>14 DEF execFails, stepDone, stepFailed, config, hist
<1>15. CASE pause
  BY <1>15 DEF pause, Other, Call, config, run_, hist
<1>16. CASE resume
  BY <1>16 DEF resume, Other, Call, config, run_, hist
<1>17. CASE setPaused
  BY <1>17 DEF setPaused, Other, config, run_, hist
<1>17s. CASE setState
  BY <1>17s DEF setState, config, run_, hist
<1>18. CASE cancel
  BY <1>18 DEF cancel, Other, Call, config, run_, hist
<1>19. CASE rollback
  BY <1>19 DEF rollback, Other, Call, config, run_, hist
<1>20. CASE endRollback
  <2>1. PICK fails \in SUBSET toRollBack :
             /\ effect' = effect \ (toRollBack \ fails)
             /\ fails = {} \/ st' = st
    BY <1>20 DEF endRollback
  <2>2. CASE fails = {}
    BY <1>20, <2>1, <2>2 DEF endRollback, toRollBack
  <2>3. CASE st' = st
    BY <1>20, <2>3 DEF endRollback, Other
  <2>4. QED
    BY <2>1, <2>2, <2>3
<1>21. CASE reset
  BY <1>21 DEF reset, Other, Call
<1>22. CASE UNCHANGED vars
  BY <1>22 DEF vars, config, run_, hist
<1>23. QED
  BY <1>1, <1>2, <1>3, <1>4, <1>5, <1>6, <1>7, <1>8, <1>9, <1>10, <1>11, <1>12, <1>13, <1>14, <1>15, <1>16, <1>17, <1>17s, <1>18, <1>19, <1>20, <1>21, <1>22 DEF Next, Runner

\* Flags are set to TRUE and FALSE, and to tests.
LEMMA StepFlags ==
    ASSUME Flags, [Next]_vars
    PROVE  Flags'
<1> USE WorkflowAssumption DEF Flags
<1>1. CASE addStep
  BY <1>1 DEF addStep, config, run_, hist
<1>2. CASE clearSteps
  BY <1>2 DEF clearSteps, Call
<1>3. CASE callPrepare
  BY <1>3 DEF callPrepare, prepare, Call, config, hist
<1>4. CASE callRun
  BY <1>4 DEF callRun, prepare, Call, Run, config, hist
<1>5. CASE checkState
  BY <1>5 DEF checkState, Run, config, hist
<1>6. CASE clearFlags
  BY <1>6 DEF clearFlags, Run, config, hist
<1>7. CASE begin
  BY <1>7 DEF begin, Run, config, hist
<1>8. CASE finish
  BY <1>8 DEF finish, Run, config, hist
<1>9. CASE loopHead
  BY <1>9 DEF loopHead, Run, config, hist
<1>10. CASE pauseLoop
  BY <1>10 DEF pauseLoop, Run, config, hist
<1>11. CASE tryStep
  BY <1>11 DEF tryStep, stepFailed, stepCancelled, config, hist
<1>12. CASE execOk
  BY <1>12 DEF execOk, stepDone, config, hist
<1>13. CASE execCancelled
  BY <1>13 DEF execCancelled, stepCancelled, config, hist
<1>14. CASE execFails
  BY <1>14 DEF execFails, stepDone, stepFailed, config, hist
<1>15. CASE pause
  BY <1>15 DEF pause, Other, Call, config, run_, hist
<1>16. CASE resume
  BY <1>16 DEF resume, Other, Call, config, run_, hist
<1>17. CASE setPaused
  BY <1>17 DEF setPaused, Other, config, run_, hist
<1>17s. CASE setState
  BY <1>17s DEF setState, config, run_, hist
<1>18. CASE cancel
  BY <1>18 DEF cancel, Other, Call, config, run_, hist
<1>19. CASE rollback
  BY <1>19 DEF rollback, Other, Call, config, run_, hist
<1>20. CASE endRollback
  BY <1>20 DEF endRollback, Other, config
<1>21. CASE reset
  BY <1>21 DEF reset, Other, Call
<1>22. CASE UNCHANGED vars
  BY <1>22 DEF vars, config, run_, hist
<1>23. QED
  BY <1>1, <1>2, <1>3, <1>4, <1>5, <1>6, <1>7, <1>8, <1>9, <1>10, <1>11, <1>12, <1>13, <1>14, <1>15, <1>16, <1>17, <1>17s, <1>18, <1>19, <1>20, <1>21, <1>22 DEF Next, Runner

\* Indices, sets of steps and places stay in their types.
LEMMA StepNumbers ==
    ASSUME TypeOK, AtStep, [Next]_vars
    PROVE  Others'
<1> USE WorkflowAssumption DEF TypeOK, AtStep, Others
<1>1. CASE addStep
  BY <1>1 DEF addStep, config, run_, hist
<1>2. CASE clearSteps
  BY <1>2 DEF clearSteps, Call
<1>3. CASE callPrepare
  BY <1>3 DEF callPrepare, prepare, Call, config, hist
<1>4. CASE callRun
  BY <1>4 DEF callRun, prepare, Call, Run, config, hist
<1>5. CASE checkState
  BY <1>5 DEF checkState, Run, config, hist
<1>6. CASE clearFlags
  BY <1>6 DEF clearFlags, Run, config, hist
<1>7. CASE begin
  BY <1>7 DEF begin, Run, config, hist
<1>8. CASE finish
  BY <1>8 DEF finish, Run, config, hist
<1>9. CASE loopHead
  BY <1>9 DEF loopHead, Run, config, hist
<1>10. CASE pauseLoop
  BY <1>10 DEF pauseLoop, Run, config, hist
<1>11. CASE tryStep
  BY <1>11 DEF tryStep, stepFailed, stepCancelled, config, hist
<1>12. CASE execOk
  BY <1>12 DEF execOk, stepDone, config, hist
<1>13. CASE execCancelled
  BY <1>13 DEF execCancelled, stepCancelled, config, hist
<1>14. CASE execFails
  <2>1. /\ i \in 1..n /\ tries < MaxRetries
        /\ n' = n /\ cur' = cur /\ cpc' = cpc /\ tries' = tries + 1
    BY <1>14 DEF execFails, config
  <2>2. asked' \in {"none", "auto"} /\ effect' \subseteq effect
    BY <1>14 DEF execFails
  <2>3. completed' \subseteq completed \cup {i}
    BY <1>14 DEF execFails
  <2>4. i' \in {i, i + 1} /\ rpc' \in {"step", "top", "idle"}
    BY <1>14 DEF execFails, stepDone, stepFailed
  <2>5. st' \in {st, "Failed", "Ready", "RollingBack"}
    BY <1>14 DEF execFails, stepDone, stepFailed
  <2>6. QED
    BY <2>1, <2>2, <2>3, <2>4, <2>5
<1>15. CASE pause
  BY <1>15 DEF pause, Other, Call, config, run_, hist
<1>16. CASE resume
  BY <1>16 DEF resume, Other, Call, config, run_, hist
<1>17. CASE setPaused
  BY <1>17 DEF setPaused, Other, config, run_, hist
<1>17s. CASE setState
  BY <1>17s DEF setState, config, run_, hist
<1>18. CASE cancel
  BY <1>18 DEF cancel, Other, Call, config, run_, hist
<1>19. CASE rollback
  BY <1>19 DEF rollback, Other, Call, config, run_, hist
<1>20. CASE endRollback
  BY <1>20 DEF endRollback, Other, config
<1>21. CASE reset
  BY <1>21 DEF reset, Other, Call
<1>22. CASE UNCHANGED vars
  BY <1>22 DEF vars, config, run_, hist
<1>23. QED
  BY <1>1, <1>2, <1>3, <1>4, <1>5, <1>6, <1>7, <1>8, <1>9, <1>10, <1>11, <1>12, <1>13, <1>14, <1>15, <1>16, <1>17, <1>17s, <1>18, <1>19, <1>20, <1>21, <1>22 DEF Next, Runner

\* The typing invariant in its two parts.
LEMMA TypesApart == TypeOK <=> Flags /\ Others
<1>1. TypeOK <=> Flags /\ Others
  <2>1. {cancelled, paused, cont, custom, warnings, success, undone, known, dropped} \subseteq BOOLEAN <=> Flags
    BY Zenon DEF Flags
  <2>2. QED
    BY <2>1 DEF TypeOK, Others
<1>2. QED
  BY <1>1

\* An executing step is in the loop, so that its predecessors are done.
LEMMA InOrder == Progress => StepsInOrder
BY DEF Progress, DoneBefore, StepsInOrder, InLoop

\* WInv holds of a new engine.
LEMMA InitWInv == Init => WInv
<1> SUFFICES ASSUME Init PROVE WInv
  OBVIOUS
<1> USE WorkflowAssumption DEF Init
<1>1. Flags /\ Others
  <2>1. Flags
    BY DEF Flags
  <2>2. Others
    BY DEF Others
  <2>3. QED
    BY <2>1, <2>2
<1>2. AtStep /\ CancelIsKnown
  BY DEF AtStep, CancelIsKnown
<1>3. Progress /\ Undoing
  BY DEF Progress, DoneBefore, EffectBefore, InLoop, Undoing
<1>4. SuccessMeansAllSteps /\ RollbackUndoes
  BY DEF SuccessMeansAllSteps, RollbackUndoes
<1>5. QED
  BY <1>1, <1>2, <1>3, <1>4, TypesApart, InOrder DEF WInv, StepsAreWhole

\* Every step keeps WInv.
LEMMA StepWInv == WInv /\ [Next]_vars => WInv'
<1> SUFFICES ASSUME WInv, [Next]_vars PROVE WInv'
  OBVIOUS
<1> USE DEF WInv
<1>1. Flags /\ Others
  BY TypesApart
<1>2. Flags'
  BY <1>1, StepFlags
<1>3. Others'
  BY StepNumbers
<1>4. TypeOK'
  <2>1. {cancelled', paused', cont', custom', warnings', success', undone', known', dropped'} \subseteq BOOLEAN
    BY <1>2, Zenon DEF Flags
  <2>2. QED
    BY <1>3, <2>1 DEF TypeOK, Others
<1>5. AtStep'
  BY StepAt
<1>6. CancelIsKnown' /\ Progress' /\ Undoing'
  BY StepKnown, StepProgress, StepUndoing
<1>7. StepsInOrder'
  BY <1>6 DEF Progress, DoneBefore, StepsInOrder, InLoop
<1>8. SuccessMeansAllSteps' /\ RollbackUndoes'
  BY StepSuccess, StepRollback DEF StepsAreWhole
<1>9. QED
  BY <1>4, <1>5, <1>6, <1>7, <1>8 DEF StepsAreWhole

-----------------------------------------------------------------------------
(* The theorems.                                                           *)

\* WInv is an invariant of the engine.
THEOREM WorkflowInvariant == Spec => []WInv
<1>1. QED
  BY InitWInv, StepWInv, PTL DEF Spec

\* Every variable has its type: no index leaves the list of steps, and no step
\* is tried more often than MaxRetries.
THEOREM WorkflowTypes == Spec => []TypeOK
<1>1. WInv => TypeOK
  BY DEF WInv
<1>2. QED
  BY <1>1, WorkflowInvariant, PTL

\* Success means that every step took effect or was skipped, and no step is
\* executed before the ones it builds on (WorkflowEngine.cpp, run()).
THEOREM StepsWhole == Spec => []StepsAreWhole
<1>1. WInv => StepsAreWhole
  BY DEF WInv
<1>2. QED
  BY <1>1, WorkflowInvariant, PTL

\* After a rollback() without errors nothing before the current step is in
\* effect, also when it ran beside run() (WorkflowEngine.cpp, rollback()).
THEOREM RollbackIsWhole == Spec => []RollbackUndoes
<1>1. WInv => RollbackUndoes
  BY DEF WInv
<1>2. QED
  BY <1>1, WorkflowInvariant, PTL

\* A cancel() in the loop is the end of executing: no step and no further try of
\* a step begins in that run (executeStep() and the loop of run()).
THEOREM CancelIsFinal == Spec => NoStepAfterCancel
<1>1. CancelIsKnown /\ [Next]_vars => [rpc # "exec" /\ rpc' = "exec" => ~known]_vars
  <2> SUFFICES ASSUME CancelIsKnown, Next, rpc # "exec", rpc' = "exec" PROVE ~known
    BY DEF vars
  <2>1. CASE tryStep
    BY <2>1 DEF tryStep, CancelIsKnown, InLoop, stepFailed, stepCancelled
  <2>2. CASE UNCHANGED rpc
    BY <2>2
  <2>3. ~UNCHANGED rpc => tryStep
    BY DEF Next, Runner, addStep, clearSteps, callPrepare, callRun, checkState, clearFlags, begin, finish,
           loopHead, pauseLoop, execOk, execCancelled, execFails, pause, resume, setPaused, setState, cancel,
           rollback, endRollback, reset, Run, stepDone, stepFailed, stepCancelled, run_
  <2>4. QED
    BY <2>1, <2>2, <2>3
<1>2. WInv => CancelIsKnown
  BY DEF WInv
<1>3. QED
  BY <1>1, <1>2, WorkflowInvariant, PTL DEF Spec, NoStepAfterCancel
=============================================================================
