------------------------------- MODULE Vendors -------------------------------
(***************************************************************************)
(* The vendor layer (vendor/): the process-wide registry of VendorFactory, *)
(* a VendorSession with its VendorRuntime and VendorPipeline, and the      *)
(* registry of the running vendors.  VendorPipeline::execute and cancel    *)
(* are called by different threads; the rest is one step each.             *)
(*                                                                         *)
(* And how a device is found and a protocol chosen for it (discovery/):    *)
(* the registry of detectors, negotiators and factories,                   *)
(* DeviceDiscoveryEngine with the VirtualDeviceDetector, and               *)
(* ProtocolNegotiationEngine with the VirtualProtocolNegotiator.  The      *)
(* clock of a discovery is how many detectors it gets to ask.              *)
(***************************************************************************)
EXTENDS Integers, Sequences, FiniteSets, SequencesExt

CONSTANTS
    VendorIds, NoVendor,
    Features,     \* capabilities
    HasFeature,   \* HasFeature[v]: the capabilities of a vendor
    Speaks,       \* Speaks[v]: the protocols of a vendor
    Protocols,
    MaxExecs      \* bound on executions in flight

VARIABLES
    factory,      \* VendorFactory::registry()
    reg,          \* VendorRuntime::m_registry
    rtUp,         \* VendorRuntime::m_initialized
    activeId,     \* VendorRuntime::m_activeVendorId
    sess,         \* VendorSession: [open, id, pipeline]
    running,      \* VendorPipeline::m_running
    execs,        \* executions in flight, each at "connect", "boot" or "workflow"
    up,           \* up[v]: initialize() calls of a vendor's copies minus shutdown() calls, within -1..2
    tally         \* VendorSession::m_stats: [ok, failed]

vvars == <<factory, reg, rtUp, activeId, sess, running, execs, up, tally>>

Closed == [open |-> FALSE, id |-> NoVendor, pipeline |-> FALSE]

VInit ==
    /\ factory = {} /\ reg = {} /\ rtUp = FALSE /\ activeId = NoVendor /\ sess = Closed
    /\ running = FALSE /\ execs = <<>>
    /\ up = [v \in VendorIds |-> 0] /\ tally = [ok |-> 0, failed |-> 0]

Fresh == UNCHANGED <<running, execs>>

------------------------------------------------------------------------------
(* Registries                                                              *)

registerVendor ==
    /\ \E v \in VendorIds : factory' = factory \cup {v}
    /\ UNCHANGED <<reg, rtUp, activeId, sess, up, tally>> /\ Fresh

clearRegistry ==
    /\ factory' = {}
    /\ UNCHANGED <<reg, rtUp, activeId, sess, up, tally>> /\ Fresh

resolveById(v)         == {v} \cap factory
resolveByCapability(f) == {v \in factory : f \in HasFeature[v]}
resolveByProtocol(p)   == {v \in factory : p \in Speaks[v]}

\* CapabilityResolver
canResolve(v, f)     == resolveById(v) # {} /\ f \in HasFeature[v]
resolveForVendor(v)  == IF resolveById(v) # {} THEN {f \in Features : f \in HasFeature[v]} ELSE {}

\* createFromDescriptor: any vendor that speaks the protocol, else the one of that name.
createFromDescriptor(p, v) ==
    IF p # NoVendor /\ resolveByProtocol(p) # {} THEN resolveByProtocol(p)
    ELSE resolveById(v)

------------------------------------------------------------------------------
(* VendorRuntime                                                           *)

\* loadVendor: a copy from the factory is initialized, then registered; a copy that cannot
\* be registered is dropped as it is.
Load(v, ok) ==
    /\ up' = IF v \in factory /\ ok /\ up[v] < 2 THEN [up EXCEPT ![v] = @ + 1] ELSE up
    /\ reg' = IF v \in factory /\ ok THEN reg \cup {v} ELSE reg
    /\ activeId' = IF v \in factory /\ ok /\ v \notin reg THEN v ELSE activeId

Loads(v, ok) == v \in factory /\ ok /\ v \notin reg

loadVendor ==
    /\ \E v \in VendorIds, ok \in BOOLEAN : rtUp /\ Load(v, ok)
    /\ UNCHANGED <<factory, rtUp, sess, tally>> /\ Fresh

unloadVendorOnly ==
    /\ \E v \in reg : rtUp /\ reg' = reg \ {v} /\ up' = [up EXCEPT ![v] = IF @ > -1 THEN @ - 1 ELSE @] /\ UNCHANGED activeId
    /\ UNCHANGED <<factory, rtUp, sess, tally>> /\ Fresh

unloadVendor ==
    /\ \E v \in reg : /\ rtUp /\ reg' = reg \ {v} /\ up' = [up EXCEPT ![v] = IF @ > -1 THEN @ - 1 ELSE @]
                      /\ activeId' = IF activeId = v THEN NoVendor ELSE activeId
    /\ UNCHANGED <<factory, rtUp, sess, tally>> /\ Fresh

\* shutdown: every vendor is shut down, and once more when it is unregistered.
Stop ==
    /\ reg' = {} /\ rtUp' = FALSE /\ activeId' = NoVendor
    /\ up' = [v \in VendorIds |-> IF v \in reg THEN (IF up[v] > 1 THEN 0 ELSE -1) ELSE up[v]]

shutdownVendors == rtUp /\ Stop /\ UNCHANGED <<factory, sess, tally>> /\ Fresh

------------------------------------------------------------------------------
(* VendorSession                                                           *)

\* open: the runtime is initialized, then the vendor loaded.  If that fails the runtime
\* stays initialized, and no later open() gets past it.
openSession(v, ok) ==
    IF sess.open \/ rtUp
    THEN tally' = [tally EXCEPT !.failed = 1] /\ UNCHANGED <<reg, rtUp, activeId, up, sess, running>>
    ELSE /\ rtUp' = TRUE /\ Load(v, ok)
         /\ IF Loads(v, ok)
            THEN /\ sess' = [open |-> TRUE, id |-> v, pipeline |-> TRUE] /\ running' = FALSE
                 /\ tally' = [tally EXCEPT !.ok = 1]
            ELSE UNCHANGED <<sess, running>> /\ tally' = [tally EXCEPT !.failed = 1]

openVendor ==
    /\ \E v \in VendorIds, ok \in BOOLEAN : openSession(v, ok)
    /\ UNCHANGED <<factory, execs>>

\* close: nothing unless open.
closeVendor ==
    /\ execs = <<>> /\ sess.open
    /\ sess' = Closed /\ running' = FALSE
    /\ IF rtUp THEN Stop ELSE UNCHANGED <<reg, rtUp, activeId, up>>
    /\ UNCHANGED <<factory, execs, tally>>

------------------------------------------------------------------------------
(* VendorPipeline                                                          *)

execute ==
    /\ sess.pipeline /\ ~ running /\ Len(execs) < MaxExecs
    /\ \E p \in {"connect", "workflow"} : execs' = Append(execs, p)
    /\ running' = TRUE
    /\ UNCHANGED <<factory, reg, rtUp, activeId, sess, up, tally>>

\* A stage is over: the next one, or the end, with or without success.
advance ==
    \E i \in 1..Len(execs) :
        /\ \/ execs[i] = "connect" /\ execs' = [execs EXCEPT ![i] = "boot"] /\ UNCHANGED running
           \/ execs' = SubSeq(execs, 1, i - 1) \o SubSeq(execs, i + 1, Len(execs)) /\ running' = FALSE
        /\ UNCHANGED <<factory, reg, rtUp, activeId, sess, up, tally>>

\* cancel() stops what it can reach and says that nothing runs any more.
cancelPipeline ==
    /\ running /\ running' = FALSE
    /\ UNCHANGED <<factory, reg, rtUp, activeId, sess, execs, up, tally>>

VNext ==
    \/ registerVendor \/ clearRegistry \/ loadVendor \/ unloadVendor \/ shutdownVendors
    \/ openVendor \/ closeVendor \/ execute \/ advance \/ cancelPipeline

------------------------------------------------------------------------------
\* The vendor a session acts for: the active vendor is one the runtime still owns, nothing is owned by a runtime that is down, and the factory hands out only
\* what was registered, by protocol before name (VendorRuntime, VendorFactory).
VendorsAreSound ==
    /\ activeId # NoVendor => activeId \in reg
    /\ ~ rtUp => reg = {} /\ activeId = NoVendor
    /\ \A p \in Protocols, v \in VendorIds :
          /\ createFromDescriptor(p, v) \subseteq factory
          /\ v \in factory /\ p \in Speaks[v] => \A u \in createFromDescriptor(p, v) : p \in Speaks[u]
    /\ \A v \in VendorIds : \A f \in Features :
          /\ f \in resolveForVendor(v) <=> canResolve(v, f)
          /\ canResolve(v, f) <=> v \in resolveByCapability(f)

\* A vendor is shut down once.  It fails: VendorRuntime::shutdown does it twice.
ShutdownOnce == \A v \in VendorIds : up[v] >= 0

\* A session that failed to open can be opened later.  It fails: the runtime stays up.
FailedOpenRecovers == ~ sess.open => ~ rtUp

\* One execution at a time.  It fails: cancel() lets the next one in before the first ends.
OneExecution == Len(execs) <= 1

------------------------------------------------------------------------------
(* Discovery                                                               *)

CONSTANTS
    Specs,       \* VirtualDeviceSpec: [path, name, vendor, mode, hint, connectable]
    Detectors,   \* names of detectors
    NegTypes,    \* protocol types that have a negotiator
    Bases        \* base confidences of negotiators

VARIABLES
    detectors,    \* ProtocolRegistry::m_detectors: sequence of [name, specs]
    negotiators,  \* m_negotiators: sequence of [type, base]
    factories     \* m_factories: the protocol types that have one

dvars == <<detectors, negotiators, factories>>

DInit == detectors = <<>> /\ negotiators = <<>> /\ factories = {}

------------------------------------------------------------------------------
(* Registry                                                                *)

registerDetector ==
    /\ Len(detectors) < Cardinality(Detectors)
    /\ \E n \in Detectors : detectors' = Append(detectors, [name |-> n, specs |-> <<>>])
    /\ UNCHANGED <<negotiators, factories>>

\* Every detector of that name goes.
unregisterDetector ==
    /\ \E n \in Detectors : detectors' = SelectSeq(detectors, LAMBDA d : d.name # n)
    /\ UNCHANGED <<negotiators, factories>>

registerNegotiator ==
    /\ Len(negotiators) < Cardinality(NegTypes)
    /\ \E k \in NegTypes, b \in Bases : negotiators' = Append(negotiators, [type |-> k, base |-> b])
    /\ UNCHANGED <<detectors, factories>>

unregisterNegotiator ==
    /\ \E k \in NegTypes : negotiators' = SelectSeq(negotiators, LAMBDA n : n.type # k)
    /\ UNCHANGED <<detectors, factories>>

registerFactory ==
    /\ \E k \in NegTypes : factories' \in {factories \cup {k}, factories \ {k}}
    /\ UNCHANGED <<detectors, negotiators>>

clearProtocols == detectors' = <<>> /\ negotiators' = <<>> /\ factories' = {}

\* addDevice, removeDevice (by path), clearDevices of a virtual detector.
addDevice ==
    /\ \E i \in 1..Len(detectors), s \in Specs :
          Len(detectors[i].specs) < 2 /\ detectors' = [detectors EXCEPT ![i].specs = Append(@, s)]
    /\ UNCHANGED <<negotiators, factories>>

removeDevice ==
    /\ \E i \in 1..Len(detectors), s \in Specs :
          detectors' = [detectors EXCEPT ![i].specs = SelectSeq(@, LAMBDA x : x.path # s.path)]
    /\ UNCHANGED <<negotiators, factories>>

------------------------------------------------------------------------------
(* Enumeration, probing and identification                                 *)

Describe(s) == [path |-> s.path, name |-> s.name, vendor |-> s.vendor, mode |-> s.mode, hint |-> s.hint]

\* The element of s at the first of some positions, as findDetector() and its like look for it.
First(s, places) == s[CHOOSE i \in places : \A j \in places : i <= j]

enumerate(d) == [i \in 1..Len(SelectSeq(d.specs, LAMBDA s : s.connectable)) |->
                    Describe(SelectSeq(d.specs, LAMBDA s : s.connectable)[i])]

\* probe: the spec of that path fills in what it knows.
CanProbe(d, dev) == \E s \in Range(d.specs) : s.path = dev.path
probe(d, dev) ==
    LET s == First(d.specs, {i \in DOMAIN d.specs : d.specs[i].path = dev.path})
    IN [dev EXCEPT !.vendor = s.vendor, !.mode = s.mode, !.hint = s.hint, !.name = s.name]

\* identify: the first spec of that path or that name.
identify(d, dev) ==
    LET hit(x) == x.path = dev.path \/ x.name = dev.name
    IN IF \E s \in Range(d.specs) : hit(s) THEN Describe(First(d.specs, {i \in DOMAIN d.specs : hit(d.specs[i])})) ELSE dev

\* probeDevice: the first detector that can probe the device identifies it as well.
probeDevice(dets, dev) ==
    IF \E d \in Range(dets) : CanProbe(d, dev)
    THEN LET d == First(dets, {i \in DOMAIN dets : CanProbe(dets[i], dev)}) IN identify(d, probe(d, dev))
    ELSE dev

\* discoverAll: detector by detector; of what probing found the path is not taken over.
\* Only the first `reach' detectors answer before the time is up.
discoverAllIn(dets, reach) ==
    LET found(d) == [i \in 1..Len(enumerate(d)) |-> probeDevice(dets, enumerate(d)[i])]
        merge(dev, p) == [dev EXCEPT !.vendor = p.vendor, !.mode = p.mode, !.hint = p.hint, !.name = p.name]
        of(d) == [i \in 1..Len(enumerate(d)) |-> merge(enumerate(d)[i], found(d)[i])]
    IN FlattenSeq([k \in 1..(IF reach < Len(dets) THEN reach ELSE Len(dets)) |-> of(dets[k])])

discoverByVendor(dets, v) == SelectSeq(discoverAllIn(dets, Len(dets)), LAMBDA d : d.vendor = v)

\* discoverAndIdentify: every detector in turn replaces the descriptor by what it knows.
discoverAndIdentify(dets) ==
    LET all == discoverAllIn(dets, Len(dets))
    IN [i \in 1..Len(all) |-> FoldLeft(LAMBDA dev, d : identify(d, dev), all[i], dets)]

------------------------------------------------------------------------------
(* Negotiation                                                             *)

\* VirtualProtocolNegotiator::negotiate
Native(k, dev) ==
    \/ dev.hint = k
    \/ k = "Sahara" /\ dev.vendor = "Qualcomm" /\ dev.mode \in {"EDL", "BootROM"}
    \/ k = "Firehose" /\ dev.vendor = "Qualcomm" /\ dev.mode = "Firehose"
    \/ k = "MediaTekBROM" /\ dev.vendor = "MediaTek"
    \/ k = "UNISOCBootROM" /\ dev.vendor = "UNISOC"

confidence(n, dev) ==
    IF n.type \in {"Sahara", "Firehose", "MediaTekBROM", "UNISOCBootROM"} /\ Native(n.type, dev) THEN n.base + 20
    ELSE IF n.type = "Sahara" /\ dev.vendor = "Qualcomm" THEN n.base - 30
    ELSE IF n.type = "Firehose" /\ dev.vendor = "Qualcomm" THEN n.base - 20
    ELSE 0

\* negotiateAll and bestMatch: the offers of some confidence, sorted; std::sort leaves the
\* order of equals open, so any of the best may come first.
Offering(dev) == {i \in 1..Len(negotiators) : confidence(negotiators[i], dev) > 0}
negotiateAny(dev) == {negotiators[i].type : i \in Offering(dev)}
negotiate(dev) ==
    {negotiators[i].type :
        i \in {j \in Offering(dev) : \A k \in Offering(dev) : confidence(negotiators[k], dev) <= confidence(negotiators[j], dev)}}

DNext ==
    \/ registerDetector \/ unregisterDetector \/ registerNegotiator \/ unregisterNegotiator
    \/ registerFactory \/ clearProtocols \/ addDevice \/ removeDevice

------------------------------------------------------------------------------
\* Discovery and negotiation find the right device and the right protocol, whatever has been
\* registered, removed and plugged in: each device comes back under the path it was
\* enumerated with and once per detector that lists it, a later timeout only cuts the list
\* short, and with negotiators of equal standing a device that names its protocol is
\* negotiated to it (discoverAll, negotiate).
DiscoveryIsExact ==
    LET all == discoverAllIn(detectors, Len(detectors)) IN
    /\ Len(all) = Len(FlattenSeq([k \in 1..Len(detectors) |-> enumerate(detectors[k])]))
    /\ \A i \in 1..Len(all) : all[i].path = FlattenSeq([k \in 1..Len(detectors) |-> enumerate(detectors[k])])[i].path
    /\ \A r \in 0..Len(detectors) : IsPrefix(discoverAllIn(detectors, r), all)
    /\ \A s \in Specs :
          LET fit == {n.type : n \in Range(negotiators)} IN
          (s.hint \in fit /\ \A m, n \in Range(negotiators) : m.base = n.base)
              => negotiate(Describe(s)) = {s.hint}

\* A discovered device is what its own detector said.  It fails: identify() also goes by
\* the friendly name, which two devices of a kind share.
IdentityIsKept ==
    \A d \in Range(discoverAllIn(detectors, Len(detectors))) :
        \E s \in Specs : Describe(s) = d
=============================================================================
