---------------------------- MODULE WorkflowParts ----------------------------
(***************************************************************************)
(* What stands around the engines of lib/src/workflow and lib/src/job: the *)
(* builder and the factory of workflows, the bodies WorkflowExecutor gives *)
(* the steps, the steps of VirtualWorkflowRuntime, the progress engine,    *)
(* both histories, the aggregated progress of the jobs and the recovery    *)
(* policies.  They share no state, so a behaviour is of one of them.       *)
(*                                                                         *)
(* Names, texts, times and the export of a history are left out.           *)
(***************************************************************************)
EXTENDS Integers, Sequences, SequencesExt, FiniteSets, FiniteSetsExt, TLC

CONSTANTS
    NoValue,      \* a null pointer or an empty value
    StepChoices,  \* the step types a client of the builder adds
    JobIds, Threads, Policies, Contexts, Filters,
    HistoryMax,   \* kMaxEntries, and the largest bound of JobHistory
    MaxOps        \* bound on calls

ASSUME PartsAssumption == HistoryMax \in Nat \ {0} /\ MaxOps \in Nat /\ JobIds # {} /\ Threads # {}

VARIABLES
    part,  \* the part this behaviour is of, "none" when all of them rest
    bld,   \* a WorkflowBuilder; engines: the engines built; given: the custom steps handed in
    prg,   \* a WorkflowProgressEngine; told: the last report
    his,   \* a JobHistory or a WorkflowHistory; all: what was added since clear(); fresh: an addition used max
    agg,   \* a ProgressAggregator; thr: the threads in report(); shown: the reports since the last update
    pol,   \* a RecoveryPolicy and the job it is asked about; undone: the rollbacks it decided on
    exe,   \* a WorkflowExecutor; oks, errs: the results it returned; did: what the last call did
    vrt,   \* a VirtualWorkflowRuntime; eng: the steps of the engine it fills; added: those of the last build
    ops

wvars == <<part, bld, prg, his, agg, pol, exe, vrt, ops>>

Op == ops < MaxOps /\ ops' = ops + 1

------------------------------------------------------------------------------
(* WorkflowBuilder and WorkflowFactory.                                    *)

NewBuilder == [steps |-> <<>>, options |-> "default", session |-> NoValue, props |-> NoValue]

\* A NamedStep does nothing in prepare(), execute() and rollback().
NamedStep(type) == [type |-> type, own |-> NoValue]

\* connect() ... disconnect(): each pushes an entry of its type.
withStep(b, type) == [b EXCEPT !.steps = Append(@, NamedStep(type))]

withSteps(b, types) == FoldLeft(withStep, b, types)

customStep(b, step) == [b EXCEPT !.steps = Append(@, [type |-> "Custom", own |-> step])]

setOptions(b, o) == [b EXCEPT !.options = o]

setContext(b, s, p) == [b EXCEPT !.session = s, !.props = p]

\* The engine build() returns: a custom step is moved into it, the context is
\* taken over when it has a session or properties.
engineOf(b) ==
    [steps   |-> [k \in DOMAIN b.steps |->
                    IF b.steps[k].type = "Custom" /\ b.steps[k].own # NoValue THEN b.steps[k]
                    ELSE NamedStep(b.steps[k].type)],
     options |-> b.options, session |-> b.session, props |-> b.props]

\* Mutant: the builder keeps the custom steps it gave to the engine.
keepsCustom(b) == [b EXCEPT !.props = NoValue]

\* What build() leaves in the builder: a moved context keeps its raw pointers.
moved(b) == [b EXCEPT !.steps = [k \in DOMAIN @ |-> NamedStep(@[k].type)], !.props = NoValue]

\* clear() leaves the context alone.
clearBuilder(b) == [b EXCEPT !.steps = <<>>, !.options = "default"]

createFlashWorkflow(s) ==
    engineOf(setContext(withSteps(NewBuilder,
        <<"Connect", "Detect", "Negotiate", "UploadLoader", "Flash", "Verify", "Reboot">>), s, NoValue))

createBackupWorkflow(s) ==
    engineOf(setContext(withSteps(NewBuilder, <<"Connect", "Detect", "Backup">>), s, NoValue))

createRestoreWorkflow(s) ==
    engineOf(setContext(withSteps(NewBuilder, <<"Connect", "Detect", "Restore">>), s, NoValue))

createVerificationWorkflow(s) ==
    engineOf(setContext(withSteps(NewBuilder, <<"Connect", "Detect", "Verify">>), s, NoValue))

createRecoveryWorkflow(s) ==
    engineOf(setContext(withSteps(NewBuilder, <<"Connect", "Detect", "Negotiate", "UploadLoader">>), s, NoValue))

\* The client's context is replaced by one with the session only.
createCustomWorkflow(b, s) == engineOf(setContext(b, s, NoValue))

Built(e, rest) == bld' = [bld EXCEPT !.b = rest, !.engines = Append(@, e)]

BuilderNext ==
    \/ \E t \in StepChoices : bld' = [bld EXCEPT !.b = withStep(@, t)]
    \/ bld' = [bld EXCEPT !.b = customStep(@, bld.given + 1), !.given = @ + 1]
    \/ bld' = [bld EXCEPT !.b = setOptions(@, "set")]
    \/ \E p \in {NoValue, ops} : bld' = [bld EXCEPT !.b = setContext(@, "session", p)]
    \/ Built(engineOf(bld.b), moved(bld.b))
    \/ bld' = [bld EXCEPT !.b = clearBuilder(@)]
    \/ \E e \in {createFlashWorkflow("session"), createBackupWorkflow("session"), createRestoreWorkflow("session"),
                 createVerificationWorkflow("session"), createRecoveryWorkflow("session")} : Built(e, bld.b)
    \/ Built(createCustomWorkflow(bld.b, "session"), [moved(bld.b) EXCEPT !.steps = <<>>])

\* No custom step and no properties are in two engines, what an engine has is
\* gone from the builder, and every other step of an engine is one that does
\* nothing.
BuilderIsExact ==
    LET owned(s) == {s[k].own : k \in DOMAIN s} \ {NoValue}
    IN /\ \A x, y \in DOMAIN bld.engines : x # y =>
             /\ owned(bld.engines[x].steps) \cap owned(bld.engines[y].steps) = {}
             /\ bld.engines[x].props = bld.engines[y].props => bld.engines[x].props = NoValue
       /\ \A x \in DOMAIN bld.engines :
             /\ owned(bld.engines[x].steps) \cap owned(bld.b.steps) = {}
             /\ \A k \in DOMAIN bld.engines[x].steps :
                   bld.engines[x].steps[k].own # NoValue => bld.engines[x].steps[k].type = "Custom"

------------------------------------------------------------------------------
(* WorkflowProgressEngine, in whole percents.                              *)

NewProgress == [total |-> 0, completed |-> 0, failed |-> 0, current |-> 0, told |-> 0]

\* Mutant: the steps counted again by a second run are not cut off.
overallUncut(p) == IF p.total = 0 THEN 0 ELSE (p.completed * 100 + p.current) \div p.total

overallPercentage(p) ==
    IF p.total = 0 THEN 0
    ELSE IF p.completed < p.total THEN (p.completed * 100 + p.current) \div p.total
    ELSE 100

notify(p) == [p EXCEPT !.told = overallPercentage(p)]

\* Neither of these two reports.
resetProgress == NewProgress
setTotalSteps(p, count) == [p EXCEPT !.total = count]

setCurrentStep(p) == notify([p EXCEPT !.current = 0])

updateStepProgress(p, progress) == notify([p EXCEPT !.current = progress])

markStepCompleted(p) == notify([p EXCEPT !.completed = @ + 1, !.current = 100])

markStepFailed(p) == notify([p EXCEPT !.failed = @ + 1, !.current = 0])

markCancelled(p) == notify([p EXCEPT !.current = 0])

ProgressNext ==
    \/ prg' = resetProgress
    \/ \E count \in 0..2 : prg' = setTotalSteps(prg, count)
    \/ prg' = setCurrentStep(prg)
    \/ \E progress \in {50, 100} : prg' = updateStepProgress(prg, progress)
    \/ prg' = markStepCompleted(prg)
    \/ prg' = markStepFailed(prg)
    \/ prg' = markCancelled(prg)

\* Whatever steps a workflow repeats, the percentage stays between that of the
\* completed steps and that of one more, and a report is never above 100.
ProgressIsBounded ==
    LET steps(k) == IF k >= prg.total THEN 100 ELSE (k * 100) \div prg.total
    IN /\ prg.told \in 0..100
       /\ prg.total > 0 => overallPercentage(prg) \in steps(prg.completed)..steps(prg.completed + 1)

------------------------------------------------------------------------------
(* JobHistory and WorkflowHistory.                                         *)

\* A JobHistory (job) keeps max entries, a WorkflowHistory the same number for good.
NewHistory(job) == [entries |-> <<>>, all |-> <<>>, fresh |-> TRUE, max |-> HistoryMax, job |-> job]

LastOf(s, k) == SubSeq(s, Len(s) - Min({k, Len(s)}) + 1, Len(s))

\* Mutant: one entry is dropped, however far the bound was lowered.
addEntryDropsOne(h, e) ==
    [h EXCEPT !.entries = IF @ # <<>> /\ Len(@) >= h.max THEN Append(Tail(@), e) ELSE Append(@, e), !.all = Append(@, e), !.fresh = TRUE]

\* JobHistory::addEntry() drops the oldest entries above m_maxEntries.
addEntry(h, e) == [h EXCEPT !.entries = LastOf(Append(@, e), h.max), !.all = Append(@, e), !.fresh = TRUE]

\* WorkflowHistory::addEntry(), bounded by kMaxEntries.
addWorkflowEntry(h, e) == [h EXCEPT !.entries = LastOf(Append(@, e), HistoryMax), !.all = Append(@, e), !.fresh = TRUE]

clearHistory(h) == [h EXCEPT !.entries = <<>>, !.all = <<>>]

\* The entries stay until the next one is added.
setMaxEntries(h, m) == [h EXCEPT !.max = m, !.fresh = FALSE]

\* JobHistory::recent(): a negative count is a very large one.
recent(h, count) == IF count < 0 \/ Len(h.entries) <= count THEN h.entries ELSE LastOf(h.entries, count)

\* WorkflowHistory::recent()
recentWorkflows(h, count) == IF count >= Len(h.entries) THEN h.entries ELSE LastOf(h.entries, count)

\* JobHistory::find(): the oldest maxResults entries that pass every filter set.
find(h, f) ==
    LET passes(e) == /\ f.success # {} => e.success \in f.success
                     /\ f.types # {} => e.type \in f.types
                     /\ f.from > 0 => e.start >= f.from
                     /\ f.to > 0 => e.start <= f.to
                     /\ f.id # NoValue => e.id = f.id
        hits == SelectSeq(h.entries, passes)
    IN IF f.maxResults > 0 THEN SubSeq(hits, 1, Min({f.maxResults, Len(hits)})) ELSE hits

\* completed() and failed() of JobHistory
withOutcome(h, ok) == SelectSeq(h.entries, LAMBDA e : e.success = ok)

\* successCount() and failureCount() of JobHistory
outcomeCount(h, ok) == Cardinality({k \in DOMAIN h.entries : h.entries[k].success = ok})

\* filter(), filterByVendor() and filterByProtocol() of WorkflowHistory
filterBy(h, field, v) == SelectSeq(h.entries, LAMBDA e : e[field] = v)

\* successCount() and failureCount() of WorkflowHistory
workflowCount(h, ok) == Len(filterBy(h, "success", ok))

HistoryNext ==
    \/ \E ok \in BOOLEAN, t \in {"Flash", "Backup"} :
          LET e == [id |-> 1 + (ops % 2), start |-> ops + 1, type |-> t, success |-> ok]
          IN his' = IF his.job THEN addEntry(his, e) ELSE addWorkflowEntry(his, e)
    \/ his' = clearHistory(his)
    \/ his.job /\ \E m \in 0..HistoryMax : his' = setMaxEntries(his, m)

\* A history is the end of what was added, never longer than its bound after an
\* addition; its queries lose nothing and keep the order.
HistoryIsExact ==
    /\ IsSuffix(his.entries, his.all)
    /\ ~his.job => Len(his.entries) = Min({HistoryMax, Len(his.all)})
    /\ his.fresh => Len(his.entries) <= his.max
    /\ \A k \in -1..(HistoryMax + 1) :
          LET r == IF his.job THEN recent(his, k) ELSE recentWorkflows(his, Max({k, 0}))
          IN IsSuffix(r, his.all) /\ (k >= 0 => Len(r) = Min({k, Len(his.entries)}))
    /\ \A f \in Filters :
          /\ Len(find(his, f)) <= Len(his.entries) /\ (f.maxResults > 0 => Len(find(his, f)) <= f.maxResults)
          /\ \A e \in ToSet(his.entries) \ ToSet(find(his, f)) :
                e \in ToSet(find(his, [f EXCEPT !.maxResults = 0])) => Len(find(his, f)) = f.maxResults
    /\ \A ok \in BOOLEAN : /\ Len(withOutcome(his, ok)) = outcomeCount(his, ok)
                           /\ workflowCount(his, ok) = outcomeCount(his, ok)
    /\ outcomeCount(his, TRUE) + outcomeCount(his, FALSE) = Len(his.entries)

------------------------------------------------------------------------------
(* ProgressAggregator, called by several threads.                          *)

NewAggregator ==
    [jobs |-> <<>>, totalJobs |-> 0, completed |-> 0, failed |-> 0,
     thr |-> [t \in Threads |-> [pc |-> "idle", snap |-> NoValue]], shown |-> {}, silent |-> TRUE]

NewJob(total) == [total |-> total, done |-> 0, completed |-> FALSE, failed |-> FALSE, indet |-> FALSE]

\* These four change what current() returns and report nothing.
registerJob(a, id, total) == [a EXCEPT !.jobs = (id :> NewJob(total)) @@ @, !.silent = TRUE]

unregisterJob(a, id) == [a EXCEPT !.jobs = [x \in DOMAIN @ \ {id} |-> @[x]], !.silent = TRUE]

setTotalJobs(a, k) == [a EXCEPT !.totalJobs = k, !.silent = TRUE]

resetAggregator(a) == [NewAggregator EXCEPT !.thr = a.thr]

\* The locked part of the three calls that report; an unknown job is ignored.
updateJobProgress(a, id, info) ==
    [a EXCEPT !.jobs[id].total = info.total, !.jobs[id].done = info.done, !.jobs[id].indet = info.indet]

markJobCompleted(a, id) == [a EXCEPT !.jobs[id].completed = TRUE, !.completed = @ + 1]

markJobFailed(a, id) == [a EXCEPT !.jobs[id].failed = TRUE, !.failed = @ + 1]

current(a) ==
    LET measured == {x \in DOMAIN a.jobs : a.jobs[x].total > 0 /\ ~a.jobs[x].indet}
        total    == MapThenSumSet(LAMBDA x : a.jobs[x].total, measured)
        done     == MapThenSumSet(LAMBDA x : a.jobs[x].done, measured)
    IN [active |-> Cardinality({x \in DOMAIN a.jobs : ~a.jobs[x].completed /\ ~a.jobs[x].failed}),
        completed |-> a.completed, failed |-> a.failed, total |-> total, done |-> done,
        percentage |-> IF total > 0 THEN (100 * done) \div total
                       ELSE IF a.totalJobs > 0 THEN (100 * (a.completed + a.failed)) \div a.totalJobs
                       ELSE 0]

\* report(): the snapshot is taken under a lock of its own, the callback is
\* called outside.
Calls(t, a) == agg' = [a EXCEPT !.thr[t].pc = "report", !.shown = {}, !.silent = FALSE]

\* Mutant: a thread does not report while another one does.
takeSnapshotAlone(a, t) ==
    IF \E u \in Threads \ {t} : a.thr[u].pc = "callback" THEN [a EXCEPT !.thr[t].pc = "idle"]
    ELSE [a EXCEPT !.thr[t] = [pc |-> "callback", snap |-> current(a)]]

takeSnapshot(a, t) == [a EXCEPT !.thr[t] = [pc |-> "callback", snap |-> current(a)]]

callBack(a, t) == [a EXCEPT !.thr[t] = [pc |-> "idle", snap |-> NoValue], !.shown = @ \cup {a.thr[t].snap}]

AggregatorNext ==
    \E t \in Threads :
       \/ /\ agg.thr[t].pc = "idle" /\ Op
          /\ \/ \E id \in JobIds, total \in {0, 2} : agg' = registerJob(agg, id, total)
             \/ \E id \in DOMAIN agg.jobs : agg' = unregisterJob(agg, id)
             \/ agg' = setTotalJobs(agg, 2)
             \/ agg' = resetAggregator(agg)
             \/ \E id \in DOMAIN agg.jobs, done \in 1..2, x \in BOOLEAN :
                   Calls(t, updateJobProgress(agg, id, [total |-> 2, done |-> done, indet |-> x]))
             \/ \E id \in DOMAIN agg.jobs : Calls(t, markJobCompleted(agg, id))
             \/ \E id \in DOMAIN agg.jobs : Calls(t, markJobFailed(agg, id))
       \/ agg.thr[t].pc = "report" /\ agg' = takeSnapshot(agg, t) /\ UNCHANGED ops
       \/ agg.thr[t].pc = "callback" /\ agg' = callBack(agg, t) /\ UNCHANGED ops

\* Once every call has returned, the state the last update left has been
\* reported, and no finished job is missing in the totals.
NoUpdateIsSilent ==
    /\ ~agg.silent /\ (\A t \in Threads : agg.thr[t].pc = "idle") => current(agg) \in agg.shown
    /\ Cardinality({x \in DOMAIN agg.jobs : agg.jobs[x].completed}) <= agg.completed
    /\ Cardinality({x \in DOMAIN agg.jobs : agg.jobs[x].failed}) <= agg.failed

------------------------------------------------------------------------------
(* The recovery policies of the jobs.                                      *)

NewPolicy(p) == [policy |-> p, rollbacks |-> 0, attempt |-> 0, answer |-> "none", error |-> "none"]

Answer(q, action) == [q EXCEPT !.answer = action, !.rollbacks = IF action = "Rollback" THEN @ + 1 ELSE @]

\* DefaultRecoveryPolicy::evaluate(); maxRetries is cast to an unsigned number.
evaluateDefault(q, error) ==
    LET p == q.policy
    IN CASE error = "Cancelled"                                      -> Answer(q, "Abort")
         [] error # "Cancelled" /\ (p.maxRetries < 0 \/ q.attempt < p.maxRetries) -> Answer(q, "Retry")
         [] OTHER -> Answer(q, IF p.canRollback /\ q.rollbacks < p.maxRollbacks THEN "Rollback" ELSE "Abort")

\* RetryForeverPolicy and AbortOnFailurePolicy do not look at the error.
evaluateForever(q) == Answer(q, "Retry")
evaluateAbort(q)   == Answer(q, "Abort")

\* RollbackOnFailurePolicy::evaluate()
evaluateRollback(q, error) ==
    Answer(q, IF error # "Cancelled" /\ q.rollbacks < q.policy.maxRollbacks THEN "Rollback" ELSE "Abort")

evaluate(q, error) ==
    CASE q.policy.kind = "Default"  -> evaluateDefault(q, error)
      [] q.policy.kind = "Forever"  -> evaluateForever(q)
      [] q.policy.kind = "Abort"    -> evaluateAbort(q)
      [] q.policy.kind = "Rollback" -> evaluateRollback(q, error)

\* A job fails; it is tried again, or the next one begins with attempt 0.
PolicyNext ==
    \E error \in {"JobFailed", "Cancelled"} :
       LET q == evaluate(pol, error)
       IN pol' = [q EXCEPT !.attempt = IF q.answer = "Retry" THEN @ + 1 ELSE 0, !.error = error]

\* A policy with bounds keeps them over all jobs it is asked about, and does
\* not go on with a cancelled job.
PolicyIsBounded ==
    pol.policy.kind # "Forever" =>
       /\ pol.error = "Cancelled" => pol.answer = "Abort"
       /\ pol.rollbacks <= pol.policy.maxRollbacks
       /\ pol.rollbacks > 0 => pol.policy.canRollback
       /\ pol.policy.maxRetries >= 0 => pol.attempt <= pol.policy.maxRetries

------------------------------------------------------------------------------
(* WorkflowExecutor: the bodies of the steps.  c says which pointers of the *)
(* context are set and whether the session has a flash device.             *)

\* A call that returns before it counts, one that counts as failed, and one
\* that counts as executed.
Early(error)       == [ret |-> error, executed |-> 0, failed |-> 0, did |-> <<>>]
Fails(error, did)  == [ret |-> error, executed |-> 0, failed |-> 1, did |-> did]
Done(did)          == [ret |-> "Ok", executed |-> 1, failed |-> 0, did |-> did]
Either(ok, did)    == IF ok THEN Done(did) ELSE Fails("Error", did)

executeConnect(c, ok) == IF c.session = "none" THEN Fails("SessionNotConnected", <<>>) ELSE Either(ok, <<"connect">>)

\* The storage type is added to the context's properties when it is known.
executeDetect(c, ok) == IF c.session # "device" THEN Early("DeviceNotIdentified") ELSE Either(ok, <<"deviceInfo">>)

executeNegotiate(c, ok) == IF ~c.boot THEN Early("InvalidArgument") ELSE Either(ok, <<"boot">>)

\* Nothing is uploaded.
executeUploadLoader(c) ==
    IF c.session # "device" THEN Early("DeviceDisconnected")
    ELSE IF c.loaders = "empty" THEN Fails("LoaderNotFound", <<>>) ELSE Done(<<>>)

\* Mutant: the pipeline runs whatever executePlan() returned.
executeFlashAnyway(c, fails) ==
    IF ~c.package THEN Early("InvalidArgument")
    ELSE IF ~c.tools THEN Fails("FirmwareMissingProgrammer", <<>>)
    ELSE IF fails = "plan" THEN Early("Error")
    ELSE Either(fails # "run", <<"plan", "queue", "run">>)

executeFlash(c, fails) ==
    IF ~c.package THEN Early("InvalidArgument")
    ELSE IF ~c.tools THEN Fails("FirmwareMissingProgrammer", <<>>)
    ELSE IF fails = "plan" THEN Early("Error")
    ELSE IF fails = "queue" THEN Fails("Error", <<"plan">>)
    ELSE IF fails = "run" THEN Fails("Error", <<"plan", "queue">>)
    ELSE Done(<<"plan", "queue", "run">>)

executeVerify(c, ok) == IF c.session # "device" THEN Early("DeviceDisconnected") ELSE Either(ok, <<"partitions">>)

executeGPT(c, ok) == IF c.session # "device" THEN Early("DeviceDisconnected") ELSE Either(ok, <<"partitions">>)

\* Without a partition every partition of the table is read until one fails:
\* the one behind the first reads; the table itself may not be readable.
executeBackup(c, partition, table, reads) ==
    IF c.session # "device" THEN Early("DeviceDisconnected")
    ELSE IF partition # NoValue THEN (IF reads = 0 THEN Fails("Error", <<>>) ELSE Done(<<partition>>))
    ELSE IF ~table THEN Early("Error")
    ELSE Either(reads = Len(c.partitions), SubSeq(c.partitions, 1, reads))

\* An empty buffer is written.
executeRestore(c, partition, ok) ==
    IF c.session # "device" THEN Early("DeviceDisconnected")
    ELSE IF partition = NoValue THEN Early("InvalidArgument")
    ELSE Either(ok, <<"write">>)

executeReboot(c, ok) == IF c.session # "device" THEN Early("DeviceDisconnected") ELSE Either(ok, <<"reset">>)

executeDisconnect(c) == Done(IF c.session = "none" THEN <<>> ELSE <<"disconnect">>)

Returns(op, r) ==
    exe' = [exe EXCEPT !.executed = @ + r.executed, !.failed = @ + r.failed, !.op = op, !.ret = r.ret, !.did = r.did,
                       !.oks = IF r.ret = "Ok" THEN @ + 1 ELSE @, !.errs = IF r.ret = "Ok" THEN @ ELSE @ + 1]

ExecutorNext ==
    LET c == exe.ctx
    IN \/ \E ok \in BOOLEAN : \/ Returns("Connect", executeConnect(c, ok)) \/ Returns("Detect", executeDetect(c, ok))
                              \/ Returns("Negotiate", executeNegotiate(c, ok))
                              \/ Returns("Verify", executeVerify(c, ok)) \/ Returns("GPT", executeGPT(c, ok))
                              \/ Returns("Reboot", executeReboot(c, ok))
                              \/ \E p \in {NoValue, "p1"} : Returns("Restore", executeRestore(c, p, ok))
       \/ Returns("UploadLoader", executeUploadLoader(c))
       \/ \E fails \in {"none", "plan", "queue", "run"} : Returns("Flash", executeFlash(c, fails))
       \/ \E p \in {NoValue, "p1"}, table \in BOOLEAN, reads \in 0..Len(c.partitions) :
             Returns(IF p = NoValue THEN "BackupAll" ELSE "Backup", executeBackup(c, p, table, reads))
       \/ Returns("Disconnect", executeDisconnect(c))

\* A step succeeds only when all of its work was done, in order, a failed one
\* stopped where it failed, nothing is done to a device that is not there, and
\* the counters agree with the results.
ExecutorIsExact ==
    /\ exe.executed = exe.oks /\ exe.failed <= exe.errs
    /\ exe.op = "Flash" => /\ exe.ret = "Ok" <=> "run" \in ToSet(exe.did)
                           /\ IsPrefix(exe.did, <<"plan", "queue", "run">>)
    /\ exe.op = "BackupAll" => /\ exe.ret = "Ok" => exe.did = exe.ctx.partitions
                               /\ exe.ret # "Ok" => exe.did = <<>> \/ Len(exe.did) < Len(exe.ctx.partitions)
    /\ exe.op \in {"Detect", "Verify", "GPT", "Backup", "BackupAll", "Restore", "Reboot"} /\ exe.did # <<>> =>
          exe.ctx.session = "device"

------------------------------------------------------------------------------
(* VirtualWorkflowRuntime.                                                 *)

\* simulateDisconnect, ...Cancel, ...RetryScenario and ...RollbackScenario are never read.
NoFlags == [timeout |-> FALSE, loader |-> FALSE, verification |-> FALSE, corrupt |-> FALSE]

NewVirtual == [cfg |-> NoFlags, steps |-> <<>>, owned |-> 0, eng |-> <<>>, added |-> 0, whole |-> TRUE,
               cancelled |-> FALSE, got |-> NoValue]

VirtualStep(name, type, error) ==
    [name |-> name, type |-> type, error |-> error, prepared |-> FALSE, executed |-> FALSE, rolledBack |-> FALSE]

\* The error of a step: a later flag overrides an earlier one.
stepError(cfg, type) ==
    IF cfg.verification /\ type = "Verify" THEN "FirmwareValidationFailed"
    ELSE IF cfg.loader /\ type = "UploadLoader" THEN "LoaderNotFound"
    ELSE IF cfg.timeout THEN "WorkflowExecutionFailed"
    ELSE "Success"

createFirmwarePackage(v) == IF v.cfg.corrupt THEN "badHash" ELSE "good"

\* The runtime keeps the step; no workflow has it.
createStep(v, type) == [v EXCEPT !.owned = @ + 1, !.got = stepError(v.cfg, type)]

Put(v, step) ==
    [v EXCEPT !.eng = Append(@, step), !.steps = (step.name :> Len(v.eng) + 1) @@ @, !.added = @ + 1]

addStepToWorkflow(v, type) == Put(v, VirtualStep(<<type, 0>>, type, stepError(v.cfg, type)))

\* Every build... begins with an empty m_steps and adds to the engine it is given.
Emptied(v) == [v EXCEPT !.steps = <<>>, !.owned = 0, !.added = 0, !.whole = TRUE]

addSteps(v, types) == FoldLeft(addStepToWorkflow, Emptied(v), types)

buildFlashWorkflow(v) ==
    addSteps(v, <<"Connect", "Detect", "Negotiate", "UploadLoader", "Flash", "Verify", "Reboot">>)

buildBackupWorkflow(v) == addSteps(v, <<"Connect", "Detect", "Backup">>)

buildRestoreWorkflow(v) == addSteps(v, <<"Connect", "Detect", "Restore">>)

buildRecoveryWorkflow(v) ==
    Put(addSteps(v, <<"Connect", "Detect">>), VirtualStep(<<"UploadLoader", 0>>, "UploadLoader", "LoaderNotFound"))

buildCancelWorkflow(v) ==
    Put(addSteps(v, <<"Connect", "Detect">>), VirtualStep(<<"Negotiate", 0>>, "Negotiate", "Cancelled"))

buildRollbackWorkflow(v) ==
    Put(addSteps(v, <<"Connect", "Detect">>), VirtualStep(<<"Flash", 0>>, "Flash", "JobFailed"))

\* Mutant: the steps of every round have the same names.
buildLargeSameNames(v, repeat) ==
    FoldLeft(addStepToWorkflow, Emptied(v), [k \in 1..(3 * repeat) |-> <<"Connect", "Detect", "Flash">>[1 + ((k - 1) % 3)]])

buildLargeWorkflow(v, repeat) ==
    LET typeOf(k) == <<"Connect", "Detect", "Flash">>[1 + ((k - 1) % 3)]
        add(w, k) == Put(w, VirtualStep(<<typeOf(k), 1 + ((k - 1) \div 3)>>, typeOf(k), stepError(w.cfg, typeOf(k))))
    IN FoldLeft(add, Emptied(v), [k \in 1..(3 * repeat) |-> k])

resetVirtual(v) == [Emptied(v) EXCEPT !.cfg = NoFlags]

prepareStep(v, k) == [v EXCEPT !.eng[k].prepared = TRUE]

executeVirtual(v, k) ==
    [v EXCEPT !.eng[k].executed = TRUE, !.got = IF v.cancelled THEN "Cancelled" ELSE v.eng[k].error]

rollbackStep(v, k) == [v EXCEPT !.eng[k].rolledBack = TRUE]

VirtualNext ==
    \/ \E flag \in DOMAIN NoFlags : vrt' = [vrt EXCEPT !.cfg[flag] = TRUE]           \* setConfig()
    \/ vrt' = [vrt EXCEPT !.cancelled = TRUE]                                       \* the context's property
    \/ vrt' = [vrt EXCEPT !.got = createFirmwarePackage(vrt)]
    \/ \E type \in StepChoices : \/ vrt' = createStep(vrt, type)
                                 \/ vrt' = [addStepToWorkflow(vrt, type) EXCEPT !.whole = FALSE]
    \/ vrt' \in {buildFlashWorkflow(vrt), buildBackupWorkflow(vrt), buildRestoreWorkflow(vrt), buildRecoveryWorkflow(vrt),
                 buildCancelWorkflow(vrt), buildRollbackWorkflow(vrt), buildLargeWorkflow(vrt, 2), resetVirtual(vrt)}
    \/ \E name \in DOMAIN vrt.steps : \/ vrt' = prepareStep(vrt, vrt.steps[name])
                                      \/ vrt' = executeVirtual(vrt, vrt.steps[name])
                                      \/ vrt' = rollbackStep(vrt, vrt.steps[name])

\* getStep() finds the step of that name the engine runs last, and a build
\* returns how many steps it added, since it gives no name twice.
VirtualIsExact ==
    /\ \A name \in DOMAIN vrt.steps :
          /\ vrt.eng[vrt.steps[name]].name = name
          /\ \A k \in DOMAIN vrt.eng : vrt.eng[k].name = name => k <= vrt.steps[name]
    /\ Cardinality(DOMAIN vrt.steps) =
          Cardinality({vrt.eng[k].name : k \in (Len(vrt.eng) - vrt.added + 1)..Len(vrt.eng)})
    /\ vrt.whole => Cardinality(DOMAIN vrt.steps) = vrt.added

------------------------------------------------------------------------------
WInit ==
    /\ part \in {"none", "builder", "progress", "history", "aggregator", "policy", "executor", "virtual"}
    /\ bld = [b |-> NewBuilder, engines |-> <<>>, given |-> 0]
    /\ prg = NewProgress
    /\ his \in {NewHistory(job) : job \in IF part = "history" THEN BOOLEAN ELSE {TRUE}}
    /\ agg = NewAggregator
    /\ pol \in {NewPolicy(p) : p \in IF part = "policy" THEN Policies ELSE {CHOOSE p \in Policies : TRUE}}
    /\ exe \in [executed : {0}, failed : {0}, oks : {0}, errs : {0}, op : {NoValue}, ret : {NoValue}, did : {<<>>},
                ctx : IF part = "executor" THEN Contexts ELSE {CHOOSE c \in Contexts : TRUE}]
    /\ vrt = NewVirtual
    /\ ops = 0

WNext ==
    \/ part = "builder" /\ Op /\ BuilderNext /\ UNCHANGED <<part, prg, his, agg, pol, exe, vrt>>
    \/ part = "progress" /\ Op /\ ProgressNext /\ UNCHANGED <<part, bld, his, agg, pol, exe, vrt>>
    \/ part = "history" /\ Op /\ HistoryNext /\ UNCHANGED <<part, bld, prg, agg, pol, exe, vrt>>
    \/ part = "aggregator" /\ AggregatorNext /\ UNCHANGED <<part, bld, prg, his, pol, exe, vrt>>
    \/ part = "policy" /\ Op /\ PolicyNext /\ UNCHANGED <<part, bld, prg, his, agg, exe, vrt>>
    \/ part = "executor" /\ Op /\ ExecutorNext /\ UNCHANGED <<part, bld, prg, his, agg, pol, vrt>>
    \/ part = "virtual" /\ Op /\ VirtualNext /\ UNCHANGED <<part, bld, prg, his, agg, pol, exe>>

PartsAreExact ==
    /\ part = "builder" => BuilderIsExact
    /\ part = "progress" => ProgressIsBounded
    /\ part = "history" => HistoryIsExact
    /\ part = "aggregator" => NoUpdateIsSilent
    /\ part = "policy" => PolicyIsBounded
    /\ part = "executor" => ExecutorIsExact
    /\ part = "virtual" => VirtualIsExact

==============================================================================
