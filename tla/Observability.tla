---------------------------- MODULE Observability ----------------------------
(* What the library remembers about its own work in buffers of a fixed size: *)
(* the structured log, a session's log, the memory tracker and the profiler; *)
(* and the tools a developer tries it with: telemetry, diagnostics, fault    *)
(* injection, stress tests and benchmarks.  One of them is used in a         *)
(* behaviour.  Texts, times and the exports as JSON are left out.            *)
EXTENDS Integers, Sequences, FiniteSets, FiniteSetsExt, SequencesExt

CONSTANTS
    LogThreads,        \* threads that log; a logger of one thread is what the code can serve
    kRingBufferSize,   \* entries the structured log holds
    Capacity,          \* entries allocated for a session's log
    ResizeAnytime,     \* setMaxEntries() also on a log that has entries
    Addresses,         \* addresses memory is allocated at
    maxHistoryPerName, \* measurements kept for a name
    MaxRecords,        \* bound on the entries and allocations of a behaviour
    MaxMeasures,       \* bound on its measurements
    MaxToolCalls       \* bound on the calls of a tool

ASSUME ObservabilityAssumption ==
    kRingBufferSize \in Nat \ {0} /\ Capacity \in Nat \ {0} /\ maxHistoryPerName \in Nat \ {0}

VARIABLES
    olog,       \* StructuredLogger::Impl: level, filters, session, buffer, writeIndex, count, file
    owriting,   \* threads between the write of an entry and of the index
    oring,      \* SessionLogger: max, entries, head, count
    omem,       \* MemoryTracker::Impl
    oprof,      \* Profiler::Impl, and the clock
    ohist,      \* history: all that was recorded, in order, and what it adds up to
    otool,      \* the tool: a record with its kind
    ocalls

ovars == <<olog, owriting, oring, omem, oprof, ohist, otool, ocalls>>

Unused == [unused |-> TRUE]
LastOf(s, n) == SubSeq(s, Len(s) - (IF n < Len(s) THEN n ELSE Len(s)) + 1, Len(s))

------------------------------------------------------------------------------
(* StructuredLogger.                                                         *)

NewLog == [level |-> 0, filters |-> {}, session |-> "", buffer |-> [i \in 1..kRingBufferSize |-> 0],
           w |-> 0, count |-> 0, open |-> FALSE, file |-> <<>>]

\* A filter replaces the level.
passesFilters(l, lv, cat) ==
    IF l.filters # {} THEN \E f \in l.filters : lv >= f[1] /\ cat = f[2] ELSE lv >= l.level

\* Entries are numbered; LogEntry(i) is what was given to log().
allEntries(l) ==
    IF l.count < kRingBufferSize THEN SubSeq(l.buffer, 1, l.count)
    ELSE SubSeq(l.buffer, l.w + 1, kRingBufferSize) \o SubSeq(l.buffer, 1, l.w)

\* log(): the filter, then the entry at m_writeIndex ...
logEntry(th, lv, cat) ==
    /\ th \notin owriting /\ Len(ohist) < MaxRecords
    /\ passesFilters(olog, lv, cat)
    /\ ohist' = Append(ohist, [lv |-> lv, cat |-> cat, session |-> olog.session])
    /\ olog' = [olog EXCEPT !.buffer[olog.w + 1] = Len(ohist) + 1]
    /\ owriting' = owriting \cup {th}

\* Mutant: the index stops at the end.
logIndexStops(th) ==
    /\ th \in owriting
    /\ olog' = [olog EXCEPT !.w = IF @ + 1 < kRingBufferSize THEN @ + 1 ELSE @,
                            !.count = IF @ < kRingBufferSize THEN @ + 1 ELSE @]
    /\ owriting' = owriting \ {th} /\ UNCHANGED ohist

\* ... and the index, which is read again.
logIndex(th) ==
    /\ th \in owriting
    /\ olog' = [olog EXCEPT !.w = (@ + 1) % kRingBufferSize, !.count = IF @ < kRingBufferSize THEN @ + 1 ELSE @]
    /\ owriting' = owriting \ {th} /\ UNCHANGED ohist

setLevel(lv) == olog' = [olog EXCEPT !.level = lv]
addFilter(lv, cat) == olog' = [olog EXCEPT !.filters = @ \cup {<<lv, cat>>}]
clearFilters == olog' = [olog EXCEPT !.filters = {}]
setSessionId(s) == olog' = [olog EXCEPT !.session = s]

\* setOutput() closes the file it had, whether or not the new one opens.
setOutput == olog' = [olog EXCEPT !.open = TRUE] \/ olog' = [olog EXCEPT !.open = FALSE]

\* flush() writes the whole buffer, whatever it wrote before.
flush == olog.open /\ Len(olog.file) < kRingBufferSize /\ olog' = [olog EXCEPT !.file = @ \o allEntries(olog)]

\* clear() empties the buffer; what was flushed stays in the file.
clearLog ==
    /\ olog' = [olog EXCEPT !.buffer = NewLog.buffer, !.w = 0, !.count = 0]
    /\ ohist' = <<>>

\* The entries of a level, category or session: kept holds their numbers.
entries(l, kept) == SelectSeq(allEntries(l), LAMBDA i : i \in kept)

LogNext ==
    \/ \E th \in LogThreads : (\E k \in {<<0, "Job">>, <<1, "Job">>, <<1, "DSP">>} : logEntry(th, k[1], k[2])) \/ logIndex(th)
    \/ /\ owriting = {} /\ UNCHANGED owriting
       /\ \/ /\ \/ addFilter(1, "Job") \/ (\E lv \in 0..1 : setLevel(lv))
                \/ clearFilters \/ (\E s \in {"", "s"} : setSessionId(s)) \/ setOutput \/ flush
             /\ UNCHANGED ohist
          \/ clearLog

------------------------------------------------------------------------------
(* SessionLogger.  Its entries are numbers of the history, too.              *)

NewRing == [max |-> Capacity, entries |-> [i \in 1..Capacity |-> 0], head |-> 0, count |-> 0]

ringLog ==
    /\ Len(ohist) < MaxRecords
    /\ \E lv \in 0..1 : ohist' = Append(ohist, [lv |-> lv])
    /\ oring' = IF oring.count < oring.max
                THEN [oring EXCEPT !.entries[((oring.head + oring.count) % oring.max) + 1] = Len(ohist) + 1, !.count = @ + 1]
                ELSE [oring EXCEPT !.entries[oring.head + 1] = Len(ohist) + 1, !.head = (@ + 1) % oring.max]

ringClear == oring' = [oring EXCEPT !.head = 0, !.count = 0] /\ ohist' = <<>>

setMaxEntries ==
    /\ ResizeAnytime \/ oring.count = 0
    /\ \E m \in 1..Capacity : oring' = [oring EXCEPT !.max = m]
    /\ UNCHANGED ohist

RingAt(r, i) == r.entries[((r.head + i) % r.max) + 1]

lastEntries(r, asked) ==
    LET n == IF asked >= r.count THEN r.count ELSE asked
    IN  [i \in 1..n |-> r.entries[((((r.head + r.count - n) % r.max) + i - 1) % r.max) + 1]]

entriesByLevel(r, kept) == SelectSeq([i \in 1..r.count |-> RingAt(r, i - 1)], LAMBDA i : i \in kept)

RingNext == ringLog \/ ringClear \/ setMaxEntries

------------------------------------------------------------------------------
(* MemoryTracker.                                                            *)

NewTracker == [live |-> {}, current |-> 0, peak |-> 0, allocs |-> 0, deallocs |-> 0]

\* Records of allocations: <<address, size>>.
trackAllocation(a, size) ==
    /\ omem.allocs < MaxRecords
    /\ omem' = [omem EXCEPT !.live = {r \in @ : r[1] # a} \cup {<<a, size>>}, !.current = @ + size, !.allocs = @ + 1,
                            !.peak = IF omem.current + size > @ THEN omem.current + size ELSE @]
    /\ ohist' = Append(ohist, [twice |-> \E r \in omem.live : r[1] = a])

trackDeallocation(a) ==
    /\ \E r \in omem.live :
          /\ r[1] = a
          /\ omem' = [omem EXCEPT !.live = @ \ {r}, !.current = @ - r[2], !.deallocs = @ + 1]
    /\ UNCHANGED ohist

resetTracker == omem' = NewTracker /\ ohist' = <<>>

Held(m) == MapThenSumSet(LAMBDA r : r[2], m.live)

MemNext == (\E a \in Addresses : (\E s \in 1..2 : trackAllocation(a, s)) \/ trackDeallocation(a)) \/ resetTracker

------------------------------------------------------------------------------
(* Profiler.                                                                 *)

NewProfiler == [now |-> 0, timer |-> -1, history |-> <<>>]

Passes == \E dt \in 0..2 : oprof.now + dt <= 2 * MaxMeasures /\ oprof' = [oprof EXCEPT !.now = @ + dt]

\* begin() of a timer that runs starts it anew.
begin == oprof' = [oprof EXCEPT !.timer = oprof.now] /\ UNCHANGED ohist

addMeasurement(h, d) == LastOf(Append(h, d), maxHistoryPerName)

end ==
    /\ oprof.timer # -1 /\ Len(ohist) < MaxMeasures
    /\ oprof' = [oprof EXCEPT !.timer = -1, !.history = addMeasurement(@, oprof.now - oprof.timer)]
    /\ ohist' = Append(ohist, oprof.now - oprof.timer)

ProfNext == (Passes /\ UNCHANGED ohist) \/ begin \/ end

\* percentiles(): p in thousandths, the result a thousand times too large, so
\* that the interpolation is exact.
percentile(h, p) ==
    LET s   == SortSeq(h, <=)
        idx == p * (Len(h) - 1)
        lo  == idx \div 1000
    IN  IF idx % 1000 = 0 THEN 1000 * s[lo + 1]
        ELSE s[lo + 1] * (1000 - (idx % 1000)) + s[lo + 2] * (idx % 1000)

\* histogram(): the number of measurements in each of the bins.
histogram(h, bins) ==
    LET least == Min(ToSet(h))
        range == Max(ToSet(h)) - least
        bin(d) == IF range = 0 THEN 0 ELSE ((d - least) * bins) \div range
        capped(d) == IF bin(d) >= bins THEN bins - 1 ELSE bin(d)
    IN  [i \in 1..bins |-> Cardinality({k \in DOMAIN h : capped(h[k]) = i - 1})]

------------------------------------------------------------------------------
(* TelemetryCollector.  given: the events since clear() and whether it was   *)
(* enabled then.                                                             *)

NewTelemetry == [kind |-> "telemetry", state |-> "Disabled", events |-> <<>>, given |-> <<>>]

enable(c) == [c EXCEPT !.state = "Enabled"]
disable(c) == [c EXCEPT !.state = "Disabled"]
pauseTelemetry(c) == IF c.state = "Enabled" THEN [c EXCEPT !.state = "Paused"] ELSE c
resumeTelemetry(c) == IF c.state = "Paused" THEN [c EXCEPT !.state = "Enabled"] ELSE c

\* recordEvent(), recordMetric(), recordError() and recordCrash(), by the name of the event
recordEvent(c, name) ==
    [c EXCEPT !.events = IF c.state = "Enabled" THEN Append(@, name) ELSE @,
              !.given  = Append(@, [name |-> name, on |-> c.state = "Enabled"])]

eventCounts(c) == [name \in ToSet(c.events) |-> Cardinality({k \in DOMAIN c.events : c.events[k] = name})]

clearEvents(c) == [c EXCEPT !.events = <<>>, !.given = <<>>]

TelemetryNext ==
    \/ otool' \in {enable(otool), disable(otool), pauseTelemetry(otool), resumeTelemetry(otool), clearEvents(otool)}
    \/ \E name \in {"metric", "error", "crash"} : otool' = recordEvent(otool, name)

------------------------------------------------------------------------------
(* DiagnosticsManager and a DiagnosticSession of it.  A check is a number,   *)
(* ran is FALSE for one that returns an error; status and severity are those *)
(* of HealthStatus and DiagnosticSeverity.                                   *)

NewDiagnostics == [kind |-> "diagnostics", checks |-> <<>>, session |-> <<>>]

\* RuntimeHealthCheck ... DeadlockDetectionCheck: each reports that all is well.
BuiltIn == [id |-> 1, category |-> "a", ran |-> TRUE, status |-> 0, severity |-> 0]
Checks == {BuiltIn, [id |-> 1, category |-> "b", ran |-> TRUE, status |-> 1, severity |-> 1],
           [id |-> 2, category |-> "a", ran |-> FALSE, status |-> 0, severity |-> 0],
           [id |-> 3, category |-> "b", ran |-> TRUE, status |-> 2, severity |-> 3]}

Issue(c) == [id |-> c.id, status |-> c.status, severity |-> c.severity]

\* worstHealth(): an issue would have to be better than Healthy to count.
worstHealth(issues) == 0

generateRecommendations(issues) ==
    [k \in DOMAIN issues |-> [id |-> issues[k].id,
                              priority |-> IF issues[k].severity >= 3 THEN 1 ELSE IF issues[k].severity >= 1 THEN 2 ELSE 3]]

Report(issues) == [issues |-> issues, health |-> worstHealth(issues), recommendations |-> generateRecommendations(issues)]

\* Mutant: a check that returns an error is left out.
runFullWithoutErrors(d) ==
    LET ran == SelectSeq(d.checks, LAMBDA c : c.ran) IN Report([k \in DOMAIN ran |-> Issue(ran[k])])

runFullDiagnostics(d) ==
    Report([k \in DOMAIN d.checks |-> IF d.checks[k].ran THEN Issue(d.checks[k])
                                      ELSE [id |-> d.checks[k].id, status |-> 3, severity |-> 2]])

\* A check that returns an error is left out here.
runCategory(d, category) ==
    LET run == SelectSeq(d.checks, LAMBDA c : c.category = category /\ c.ran)
    IN  Report([k \in DOMAIN run |-> Issue(run[k])])

\* The first check of that id; none is an error.
runCheck(d, id) ==
    LET run == SelectSeq(d.checks, LAMBDA c : c.id = id)
    IN  Report(IF run # <<>> /\ Head(run).ran THEN <<Issue(Head(run))>> ELSE <<>>)

registerCheck(d, c) == [d EXCEPT !.checks = Append(@, c)]

unregisterCheck(d, id) == [d EXCEPT !.checks = SelectSeq(@, LAMBDA c : c.id # id)]

\* DiagnosticSession: start() replaces its issues, addIssue() adds one.
startSession(d) == [d EXCEPT !.session = runFullDiagnostics(d).issues]
addIssue(d, i) == [d EXCEPT !.session = Append(@, i)]
healthStatus(d) == Max({0} \cup {d.session[k].status : k \in DOMAIN d.session})

DiagnosticsNext ==
    \/ \E c \in Checks : otool' = registerCheck(otool, c)
    \/ \E id \in 1..2 : otool' = unregisterCheck(otool, id)
    \/ otool' = startSession(otool)
    \/ otool' = addIssue(otool, [id |-> 0, status |-> 1, severity |-> 1])

------------------------------------------------------------------------------
(* FaultInjector, asked by two threads that inject when it says so, and by   *)
(* the FaultManager, which does both under its lock.                         *)

Faults == {c \in [scope : {"Once", "Random", "Persistent", "Timed"}, max : 0..2, enabled : BOOLEAN] : c.enabled \/ c.max = 0}

NewFault == [kind |-> "fault", cfg |-> [scope |-> "Once", max |-> 1, enabled |-> FALSE], triggers |-> 0, state |-> "Inactive",
             asked |-> {}, events |-> 0, all |-> 0]

Rearmed(i) == [i EXCEPT !.triggers = 0, !.state = IF i.cfg.enabled THEN "Active" ELSE "Inactive", !.events = 0]

configure(i, c) == Rearmed([i EXCEPT !.cfg = c])

resetFault(i) == Rearmed(i)

\* The answers shouldInject() may give; a probability is either outcome.
shouldInject(i) ==
    IF \/ ~i.cfg.enabled \/ i.state = "Expired"
       \/ i.cfg.scope = "Once" /\ i.triggers >= 1
       \/ i.cfg.scope \in {"Random", "Persistent"} /\ i.cfg.max > 0 /\ i.triggers >= i.cfg.max
    THEN {FALSE} ELSE BOOLEAN

\* The time of a timed fault is over when shouldInject() looks.
expire(i) == [i EXCEPT !.state = "Expired"]

\* Mutant: inject() looks at the configuration only.
injectExpired(i) ==
    IF ~i.cfg.enabled THEN i
    ELSE [i EXCEPT !.triggers = @ + 1, !.events = @ + 1,
                   !.state = IF i.cfg.max > 0 /\ i.triggers + 1 >= i.cfg.max THEN "Expired" ELSE @]

inject(i) ==
    IF i.state = "Expired" \/ ~i.cfg.enabled THEN i
    ELSE [i EXCEPT !.triggers = @ + 1, !.events = @ + 1,
                   !.state = IF i.cfg.max > 0 /\ i.triggers + 1 >= i.cfg.max THEN "Expired"
                             ELSE IF i.cfg.scope = "Once" THEN "Triggered" ELSE @]

\* FaultManager: an event for each fault that was injected.
injectFault(i, yes) == IF yes THEN [inject(i) EXCEPT !.all = @ + 1] ELSE i
clearFaultEvents(i) == [i EXCEPT !.all = 0]
resetAll(i) == [Rearmed(i) EXCEPT !.all = 0]

FaultNext ==
    \/ \E c \in Faults : otool' = configure(otool, c)
    \/ otool' = resetFault(otool)
    \/ \E t \in {1, 2} \ otool.asked, yes \in shouldInject(otool) : yes /\ otool' = [otool EXCEPT !.asked = @ \cup {t}]
    \/ \E t \in otool.asked : otool' = [inject(otool) EXCEPT !.asked = @ \ {t}]
    \/ otool.cfg.enabled /\ otool.cfg.scope = "Timed" /\ otool.state # "Expired" /\ otool' = expire(otool)
    \/ \E yes \in shouldInject(otool) : otool' = injectFault(otool, yes)
    \/ otool' \in {clearFaultEvents(otool), resetAll(otool)}

------------------------------------------------------------------------------
(* VirtualStressEnvironment: one thread in a run, another that cancels it,   *)
(* injects failures and cuts the power.  Devices are added between runs: the *)
(* loops hold references into m_devices without the lock.  A device may have *)
(* a probability to disconnect; that it is connected is read by nobody.      *)

OpsPerDevice == 2

NewStress ==
    [kind |-> "stress", state |-> "Idle", devices |-> <<>>, failure |-> "None", total |-> 0, ok |-> 0, failed |-> 0,
     timedOut |-> 0, recovered |-> 0, pc |-> "idle", mode |-> "none", left |-> {}, cur |-> 0, op |-> 0, skipped |-> 0, late |-> 0]

initializeStress(e) == [NewStress EXCEPT !.failure = e.failure]

addDevice(e, flaky) == [e EXCEPT !.devices = Append(@, [flaky |-> flaky, done |-> 0])]

createDevices(e, count) == [e EXCEPT !.devices = [k \in 1..count |-> [flaky |-> FALSE, done |-> 0]]]

simulateHotplug(e) ==
    [e EXCEPT !.devices = Append(@, [flaky |-> FALSE, done |-> 0]), !.total = @ + 1, !.ok = @ + 1]

injectFailure(e, mode) == [e EXCEPT !.failure = mode]

simulatePowerLoss(e) ==
    [e EXCEPT !.devices = [k \in DOMAIN @ |-> [@[k] EXCEPT !.done = 0]],
              !.total = @ + 1, !.failed = @ + 1, !.recovered = @ + 1]

simulateTransportCorruption(e) == [e EXCEPT !.failure = "Corruption", !.total = @ + 1, !.failed = @ + 1]

cancelStress(e) == [e EXCEPT !.state = "Cancelled"]

\* The test of the state, then the store of Running.
beginRun(e, mode) == [e EXCEPT !.pc = "store", !.mode = mode]

storeRunning(e) ==
    [e EXCEPT !.pc = "head", !.state = "Running", !.left = DOMAIN e.devices, !.op = 0, !.late = 0]

\* Mutant: the state is looked at once for each device.
stressHeadPerDevice(e) ==
    IF e.left = {} \/ (e.state # "Running" /\ e.op = 0)
    THEN [e EXCEPT !.pc = "idle", !.state = IF @ = "Running" THEN "Completed" ELSE @]
    ELSE [e EXCEPT !.pc = "work"]

\* The head of both loops: the state is looked at before every operation.
stressHead(e) ==
    IF e.left = {} \/ e.state # "Running"
    THEN [e EXCEPT !.pc = "idle", !.state = IF @ = "Running" THEN "Completed" ELSE @]
    ELSE [e EXCEPT !.pc = "work"]

\* simulateOperation() on device d: what may come of it.
outcomes(e, d) ==
    {"ok"} \cup (IF e.failure = "Timeout" THEN {"timedOut"} ELSE {})
           \cup (IF e.failure = "Corruption" \/ e.devices[d].flaky THEN {"failed"} ELSE {})

\* The operation e.op + 1 of device d; after the last the device has done all.
\* A thread of runParallelSessions() does the same, under the lock.
runOperationsOnDevice(e, d, result) ==
    [e EXCEPT !.total = @ + 1, ![result] = @ + 1, !.pc = "head", !.op = (@ + 1) % OpsPerDevice, !.cur = d,
              !.late = IF e.state = "Cancelled" THEN @ + 1 ELSE @,
              !.left = IF e.op + 1 = OpsPerDevice THEN @ \ {d} ELSE @,
              !.devices[d].done = IF e.op + 1 = OpsPerDevice THEN OpsPerDevice ELSE @]

\* runStressTest() passes over a device that disconnects; its operations fail
\* without being counted in the total.
disconnects(e, d) ==
    [e EXCEPT !.failed = @ + OpsPerDevice, !.recovered = @ + 1, !.skipped = @ + OpsPerDevice, !.pc = "head", !.left = @ \ {d}]

\* runConnectDisconnectCycles(): one cycle, of all devices.
connectDisconnect(e) ==
    [e EXCEPT !.total = @ + 2 * Len(e.devices), !.ok = @ + 2 * Len(e.devices), !.pc = "head",
              !.op = (@ + 1) % OpsPerDevice, !.late = IF e.state = "Cancelled" THEN @ + 1 ELSE @,
              !.left = IF e.op + 1 = OpsPerDevice THEN {} ELSE @]

\* A session holds the lock for all operations of its device; the first store
\* of simulateTransportCorruption(), made without it, is that of injectFailure().
StressCalls ==
    \/ /\ otool.pc = "idle"
       /\ \/ otool' \in {initializeStress(otool), addDevice(otool, TRUE), createDevices(otool, 2), simulateHotplug(otool)}
          \/ /\ otool.state \in {"Idle", "Completed"}
             /\ \E mode \in {"test", "sessions", "cycles"} : otool' = beginRun(otool, mode)
    \/ otool' = cancelStress(otool)
    \/ \E mode \in {"None", "Disconnect", "Timeout", "Corruption"} : otool' = injectFailure(otool, mode)
    \/ /\ ~(otool.mode = "sessions" /\ otool.op > 0 /\ otool.pc # "idle")
       /\ otool' \in {simulatePowerLoss(otool), simulateTransportCorruption(otool)}

\* The device of the next operation: sessions get the lock in any order.
Turn(e) == IF e.op > 0 THEN {e.cur} ELSE IF e.mode = "sessions" THEN e.left ELSE {Min(e.left)}

StressRun ==
    \/ otool.pc = "store" /\ otool' = storeRunning(otool)
    \/ otool.pc = "head" /\ otool' = stressHead(otool)
    \/ /\ otool.pc = "work" /\ otool.mode = "cycles" /\ otool' = connectDisconnect(otool)
    \/ /\ otool.pc = "work" /\ otool.mode # "cycles"
       /\ \E d \in Turn(otool) :
             \/ \E result \in outcomes(otool, d) : otool' = runOperationsOnDevice(otool, d, result)
             \/ otool.mode = "test" /\ otool.op = 0 /\ otool.failure = "Disconnect" /\ otool' = disconnects(otool, d)

------------------------------------------------------------------------------
(* BenchmarkRunner: benchmarks are kept in the order of their names; a       *)
(* result carries the name of its benchmark and the run it is of.            *)

\* last: the run of each benchmark that succeeded last.
NewBenchmarks == [kind |-> "benchmarks", names |-> {}, results |-> <<>>, runs |-> 0, last |-> [n \in 1..3 |-> 0]]

registerBenchmark(r, name) == [r EXCEPT !.names = @ \cup {name}]

\* runAll() ends at the first benchmark that fails.
runAll(r, fails) ==
    LET sorted == SetToSortSeq(r.names, <)
        ran    == SelectSeq(sorted, LAMBDA x : \A y \in fails \cap r.names : x < y)
    IN  [r EXCEPT !.runs = @ + 1, !.results = [k \in DOMAIN ran |-> <<ran[k], r.runs + 1>>],
                  !.last = [n \in DOMAIN @ |-> IF n \in ToSet(ran) THEN r.runs + 1 ELSE @[n]]]

\* Mutant: the result of a benchmark that ran before is added again.
runSingleAppends(r, name) == [r EXCEPT !.runs = @ + 1, !.last[name] = r.runs + 1, !.results = Append(@, <<name, r.runs + 1>>)]

\* runSingle(): the result of that name is replaced, or added.
runSingle(r, name) ==
    [r EXCEPT !.runs = @ + 1, !.last[name] = r.runs + 1,
              !.results = IF \E k \in DOMAIN @ : @[k][1] = name
                          THEN [k \in DOMAIN @ |-> IF @[k][1] = name THEN <<name, r.runs + 1>> ELSE @[k]]
                          ELSE Append(@, <<name, r.runs + 1>>)]

clearBenchmarks(r) == [r EXCEPT !.names = {}, !.results = <<>>]

BenchmarkNext ==
    \/ \E name \in 1..3 \ otool.names : otool' = registerBenchmark(otool, name)
    \/ \E fails \in {{}, {2}} : otool' = runAll(otool, fails)
    \/ \E name \in otool.names : otool' = runSingle(otool, name)
    \/ otool' = clearBenchmarks(otool)

------------------------------------------------------------------------------
OInit ==
    /\ olog = Unused /\ oring = Unused /\ omem = Unused /\ oprof = Unused /\ otool = Unused
    /\ owriting = {} /\ ohist = <<>> /\ ocalls = 0

Create ==
    /\ OInit
    /\ \/ olog' = NewLog /\ UNCHANGED <<oring, omem, oprof, otool>>
       \/ oring' = NewRing /\ UNCHANGED <<olog, omem, oprof, otool>>
       \/ omem' = NewTracker /\ UNCHANGED <<olog, oring, oprof, otool>>
       \/ oprof' = NewProfiler /\ UNCHANGED <<olog, oring, omem, otool>>
       \/ otool' \in {NewTelemetry, NewDiagnostics, NewFault, NewStress, NewBenchmarks} /\ UNCHANGED <<olog, oring, omem, oprof>>
    /\ UNCHANGED <<owriting, ohist, ocalls>>

ToolNext ==
    \/ /\ ocalls < MaxToolCalls /\ ocalls' = ocalls + 1
       /\ \/ otool.kind = "telemetry" /\ TelemetryNext
          \/ otool.kind = "diagnostics" /\ DiagnosticsNext
          \/ otool.kind = "fault" /\ FaultNext
          \/ otool.kind = "stress" /\ StressCalls
          \/ otool.kind = "benchmarks" /\ BenchmarkNext
    \/ otool.kind = "stress" /\ StressRun /\ UNCHANGED ocalls

ONext ==
    \/ Create
    \/ olog # Unused /\ LogNext /\ UNCHANGED <<oring, omem, oprof, otool, ocalls>>
    \/ oring # Unused /\ RingNext /\ UNCHANGED <<olog, owriting, omem, oprof, otool, ocalls>>
    \/ omem # Unused /\ MemNext /\ UNCHANGED <<olog, owriting, oring, oprof, otool, ocalls>>
    \/ oprof # Unused /\ ProfNext /\ UNCHANGED <<olog, owriting, oring, omem, otool, ocalls>>
    \/ otool # Unused /\ ToolNext /\ UNCHANGED <<olog, owriting, oring, omem, oprof, ohist>>

------------------------------------------------------------------------------
(* Correctness.                                                              *)

Numbers == [i \in DOMAIN ohist |-> i]

\* Once no log() is under way, the structured log holds the last entries that
\* passed the filters since it was cleared, in order, however often its buffer
\* has come round, and its queries are those entries and no others.
LogIsLast ==
    olog # Unused /\ owriting = {} =>
        /\ allEntries(olog) = LastOf(Numbers, kRingBufferSize)
        /\ \A lv \in 0..1 : LET kept == {i \in DOMAIN ohist : ohist[i].lv >= lv}
                            IN  entries(olog, kept) = SelectSeq(LastOf(Numbers, kRingBufferSize), LAMBDA i : i \in kept)

\* So does a session's log, for every number of entries asked for.
RingIsLast ==
    oring # Unused =>
        /\ \A n \in 0..(Capacity + 1) : lastEntries(oring, n) = LastOf(Numbers, IF n < oring.max THEN n ELSE oring.max)
        /\ LET kept == {i \in DOMAIN ohist : ohist[i].lv = 1}
           IN  entriesByLevel(oring, kept) = SelectSeq(LastOf(Numbers, oring.max), LAMBDA i : i \in kept)

\* The usage is what the live allocations hold, and more only if an address
\* was tracked a second time before it was given back; it never passed the
\* peak, and what came and did not go is live.
MemoryAddsUp ==
    omem # Unused =>
        /\ omem.current >= Held(omem) /\ omem.peak >= omem.current
        /\ (\A i \in DOMAIN ohist : ~ohist[i].twice) =>
               omem.current = Held(omem) /\ omem.allocs - omem.deallocs = Cardinality(omem.live)

\* The profiler keeps the last measurements, its percentiles lie between the
\* least and the largest in the order of their rank, and every measurement is
\* in one bin of the histogram.
ProfileIsExact ==
    oprof # Unused =>
        /\ oprof.history = LastOf(ohist, maxHistoryPerName)
        /\ oprof.history # <<>> =>
               LET h == oprof.history IN
               /\ 1000 * Min(ToSet(h)) <= percentile(h, 500) /\ percentile(h, 500) <= percentile(h, 900)
               /\ percentile(h, 900) <= percentile(h, 999) /\ percentile(h, 999) <= 1000 * Max(ToSet(h))
               /\ \A bins \in 1..3 : FoldSeq(+, 0, histogram(h, bins)) = Len(h)

\* The tools: telemetry has the events it was given while enabled and its
\* counts add up; a full diagnosis has an issue for every check, in order, also
\* for one that fails, the report of a category or check is contained in it
\* unless the check failed, and a session's health is that of its worst issue;
\* a fault with a limit is injected no more often, however many threads were
\* told to inject it; every operation of a stress test has one outcome, no
\* device has done operations that are not counted, and
\* after a cancel at most the one under way is finished; and a benchmark has
\* one result, of its last run.
ToolKeepsItsWord ==
    /\ otool # Unused /\ otool.kind = "telemetry" =>
          /\ Len(otool.events) = Cardinality({k \in DOMAIN otool.given : otool.given[k].on})
          /\ MapThenSumSet(LAMBDA x : eventCounts(otool)[x], DOMAIN eventCounts(otool)) = Len(otool.events)
    /\ otool # Unused /\ otool.kind = "diagnostics" =>
          LET full == runFullDiagnostics(otool)
          IN /\ Len(full.issues) = Len(otool.checks)
             /\ \A k \in DOMAIN otool.checks : full.issues[k].id = otool.checks[k].id /\ full.recommendations[k].id = otool.checks[k].id
             /\ \A cat \in {"a", "b"} : ToSet(runCategory(otool, cat).issues) \subseteq ToSet(full.issues)
             /\ \A id \in 1..3 : ToSet(runCheck(otool, id).issues) \subseteq ToSet(full.issues)
             /\ \A k \in DOMAIN otool.session : otool.session[k].status <= healthStatus(otool)
    /\ otool # Unused /\ otool.kind = "fault" =>
          /\ otool.cfg.max > 0 => otool.events <= otool.cfg.max
          /\ ~otool.cfg.enabled => otool.events = 0
    /\ otool # Unused /\ otool.kind = "stress" =>
          /\ otool.ok + otool.failed + otool.timedOut = otool.total + otool.skipped
          /\ otool.recovered <= otool.failed /\ otool.late <= 1
          /\ MapThenSumSet(LAMBDA d : otool.devices[d].done, DOMAIN otool.devices) <= otool.total
    /\ otool # Unused /\ otool.kind = "benchmarks" =>
          /\ \A k, m \in DOMAIN otool.results : k # m => otool.results[k][1] # otool.results[m][1]
          /\ \A k \in DOMAIN otool.results : /\ otool.results[k][1] \in otool.names
                                             /\ otool.results[k][2] = otool.last[otool.results[k][1]]

RecordsAreExact == LogIsLast /\ RingIsLast /\ MemoryAddsUp /\ ProfileIsExact /\ ToolKeepsItsWord

\* What the code does not keep: flushing twice writes entries twice, and an
\* address tracked twice is counted for ever.
FlushedOnce == olog # Unused => IsInjective(olog.file)
UsageIsLive == omem # Unused => omem.current = Held(omem)

\* Nor does the manager's report show that a check is not healthy, or a stress
\* test count in its total what it counts as failed.
HealthIsShown ==
    otool # Unused /\ otool.kind = "diagnostics" =>
        \A k \in DOMAIN otool.checks : runFullDiagnostics(otool).issues[k].status <= runFullDiagnostics(otool).health
FailuresAreCounted == otool # Unused /\ otool.kind = "stress" => otool.failed <= otool.total
=============================================================================
