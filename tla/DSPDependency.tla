----------------------------- MODULE DSPDependency -----------------------------
(***************************************************************************)
(* The dependency graph of support packages and the resolver on top of it  *)
(* (dsp/DSPDependencyGraph.cpp), next to the dependency check of the       *)
(* validator (dsp/DSPValidator.cpp).                                       *)
(*                                                                         *)
(* A package is [id, ver, deps], deps a set of [id, min, max]; both        *)
(* readers of manifests make every dependency a required one.  A version   *)
(* is a number: 1 stands for 1.0.0, the default DSPVersion{}, which the    *)
(* resolver and the validator take for "no bound".  resolve() runs the     *)
(* loop of topoSort() step by step; the order in which the hash maps are   *)
(* walked is left open.                                                    *)
(***************************************************************************)
EXTENDS Integers, FiniteSets, Sequences, SequencesExt

CONSTANTS
    Catalog      \* the packages a client may add, ask to install or update

VARIABLES
    nodes,       \* m_nodes: the packages of the graph
    order,       \* m_resolutionOrder
    resolved,    \* m_resolved
    hasCycle,    \* m_hasCycle
    cyclePath,   \* m_cyclePath
    unresolved,  \* unm_resolved
    queue,       \* topoSort: q
    inDegree     \* topoSort: inDegree; empty while no sort runs

gvars == <<nodes, order, resolved, hasCycle, cyclePath, unresolved, queue, inDegree>>

NoDegrees == <<>>
Idle == inDegree = NoDegrees

Names(S)      == {p.id : p \in S}
PackageOf(x, S) == CHOOSE p \in S : p.id = x
DepIds(p)     == {d.id : d \in p.deps}

\* The edges dfs() and topoSort() follow: dependencies that are nodes themselves.
Needs(x) == DepIds(PackageOf(x, nodes)) \cap Names(nodes)

-----------------------------------------------------------------------------
\* The graph

\* The paths dfs() can report: from a package over dependencies back to it.
Cycles ==
    {p \in UNION {[1..k -> Names(nodes)] : k \in 2..(Cardinality(nodes) + 1)} :
        /\ p[1] = p[Len(p)]
        /\ \A i, j \in 1..(Len(p) - 1) : i # j => p[i] # p[j]
        /\ \A i \in 1..(Len(p) - 1) : p[i + 1] \in Needs(p[i])}

detectCycle ==
    /\ hasCycle' = (Cycles # {})
    /\ cyclePath' \in IF Cycles = {} THEN {<<>>} ELSE Cycles

\* Mutant: the result of an earlier resolve() is kept.
addPackageStale(p) ==
    /\ Idle /\ p.id \notin Names(nodes)
    /\ nodes' = nodes \cup {p}
    /\ UNCHANGED <<order, resolved, hasCycle, cyclePath, unresolved, queue, inDegree>>

addPackage(p) ==
    /\ Idle /\ p.id \notin Names(nodes)
    /\ nodes' = nodes \cup {p}
    /\ resolved' = FALSE
    /\ UNCHANGED <<order, hasCycle, cyclePath, unresolved, queue, inDegree>>

removePackage(x) ==
    /\ Idle /\ x \in Names(nodes)
    /\ nodes' = {p \in nodes : p.id # x}
    /\ resolved' = FALSE
    /\ UNCHANGED <<order, hasCycle, cyclePath, unresolved, queue, inDegree>>

clear ==
    /\ Idle
    /\ nodes' = {} /\ order' = <<>> /\ resolved' = FALSE /\ hasCycle' = FALSE
    /\ cyclePath' = <<>> /\ unresolved' = {}
    /\ UNCHANGED <<queue, inDegree>>

\* hasCircularDependency() and circularDependencyPath() look for a cycle of their own
\* unless the graph is resolved.
askCycle ==
    /\ Idle /\ ~resolved
    /\ detectCycle
    /\ UNCHANGED <<nodes, order, resolved, unresolved, queue, inDegree>>

\* resolve() of an empty graph forgets the order, not the cycle found before.
resolveEmpty ==
    /\ Idle /\ nodes = {}
    /\ order' = <<>> /\ resolved' = TRUE
    /\ UNCHANGED <<nodes, hasCycle, cyclePath, unresolved, queue, inDegree>>

Degree(x) == Cardinality({y \in Names(nodes) : x \in Needs(y)})

sortStart ==
    /\ Idle /\ nodes # {}
    /\ order' = <<>> /\ unresolved' = {}
    /\ inDegree' = [x \in Names(nodes) |-> Degree(x)]
    /\ queue' \in SetToSeqs({x \in Names(nodes) : Degree(x) = 0})
    /\ UNCHANGED <<nodes, resolved, hasCycle, cyclePath>>

sortStep ==
    /\ queue # <<>>
    /\ LET id   == Head(queue)
           free == {x \in Needs(id) : inDegree[x] = 1}
       IN  /\ order' = Append(order, id)
           /\ inDegree' = [x \in DOMAIN inDegree |-> inDegree[x] - (IF x \in Needs(id) THEN 1 ELSE 0)]
           /\ \E s \in SetToSeqs(free) : queue' = Tail(queue) \o s
    /\ UNCHANGED <<nodes, resolved, hasCycle, cyclePath, unresolved>>

sortEnd ==
    /\ ~Idle /\ queue = <<>>
    /\ IF Len(order) # Cardinality(nodes)
       THEN detectCycle /\ unresolved' = Names(nodes) \ ToSet(order)
       ELSE hasCycle' = FALSE /\ UNCHANGED <<cyclePath, unresolved>>
    /\ resolved' = TRUE
    /\ inDegree' = NoDegrees
    /\ UNCHANGED <<nodes, order, queue>>

GInit ==
    /\ nodes = {} /\ order = <<>> /\ resolved = FALSE /\ hasCycle = FALSE
    /\ cyclePath = <<>> /\ unresolved = {} /\ queue = <<>> /\ inDegree = NoDegrees

GNext ==
    \/ \E p \in Catalog : addPackage(p)
    \/ \E x \in Names(Catalog) : removePackage(x)
    \/ clear \/ askCycle \/ resolveEmpty \/ sortStart \/ sortStep \/ sortEnd

-----------------------------------------------------------------------------
\* The resolver, on the installed and the available packages it was given

Below(v, d) == d.min # 1 /\ v < d.min
Above(v, d) == d.max # 1 /\ d.max < v

\* The order is that of a graph with the package alone.
OwnOrder(p) == IF p.id \in DepIds(p) THEN <<>> ELSE <<p.id>>

\* The walk over toProcess looks at the dependencies of the package only, whatever it pops,
\* and never at a maximum; live are the installed packages in state Installed or Enabled.
resolveInstall(installed, live, available, p) ==
    LET same == \E q \in installed : q.id = p.id /\ q.ver = p.ver /\ q.id \in live
        miss == {d.id : d \in {e \in p.deps : e.id \notin Names(installed) \cup Names(available)}}
        conf == {d.id : d \in {e \in p.deps : \E q \in installed : q.id = e.id /\ Below(q.ver, e)}}
        obs  == {q.id : q \in {a \in available : /\ a.id # p.id /\ a.id \in Names(installed)
                                                 /\ \E d \in p.deps : d.id = a.id /\ Below(a.ver, d)}}
    IN  IF same THEN [ok |-> FALSE, order |-> <<>>, missing |-> {}, conflicts |-> {}, obsoleted |-> {}]
        ELSE IF miss # {} THEN [ok |-> FALSE, order |-> <<>>, missing |-> miss, conflicts |-> conf, obsoleted |-> {}]
        ELSE [ok |-> TRUE, order |-> OwnOrder(p), missing |-> {}, conflicts |-> conf, obsoleted |-> obs]

resolveUninstall(installed, x) ==
    LET users == {q.id : q \in {p \in installed : x \in DepIds(p)}}
    IN  [ok |-> users = {}, order |-> IF users = {} THEN <<x>> ELSE <<>>, conflicts |-> users]

\* Mutant: the installed version has to be newer than the one asked for.
TooOldStrict(v, d) == d.min # 1 /\ v <= d.min

TooOld(v, d) == d.min # 1 /\ v < d.min

resolveUpdate(installed, available, p) ==
    LET older == \E q \in installed : q.id = p.id /\ p.ver < q.ver
        unmet == {d \in p.deps : ~\E q \in installed : q.id = d.id /\ ~TooOld(q.ver, d)}
    IN  IF p.id \notin Names(installed) \/ older THEN [ok |-> FALSE, order |-> <<>>, unmet |-> {}]
        ELSE [ok |-> unmet = {}, order |-> IF unmet = {} THEN OwnOrder(p) ELSE <<>>,
              unmet |-> {d.id : d \in unmet}]

\* DSPValidator::validateDependencies: no error.
validateDependencies(installed, p) ==
    \A d \in p.deps : \E q \in installed : q.id = d.id /\ ~Below(q.ver, d) /\ ~Above(q.ver, d)

\* The check of DSPManager::install, for which 0.0.0 is no bound.
managerAccepts(installed, p) ==
    \A d \in p.deps : \E q \in installed :
        q.id = d.id /\ (d.min > 0 => q.ver >= d.min) /\ (d.max > 0 => q.ver <= d.max)

-----------------------------------------------------------------------------
\* The packages that come after a cycle, and so never get free.
Reach(S) == LET R[i \in 0..Cardinality(nodes)] ==
                    IF i = 0 THEN S ELSE R[i - 1] \cup UNION {Needs(x) : x \in R[i - 1]}
            IN  R[Cardinality(nodes)]

OnCycle == {x \in Names(nodes) : x \in Reach(Needs(x))}

\* A resolved graph that is not empty reports its own state, not that of an earlier one:
\* a cycle exactly if it has one, and then with a path that is one; the packages not behind
\* a cycle in the order, once, dependents first; and the others as unresolved.  (The path
\* means nothing when there is no cycle: see PathIsCurrent.)
ResolutionIsCurrent ==
    Idle /\ resolved /\ nodes # {} =>
        /\ hasCycle = (OnCycle # {})
        /\ hasCycle => cyclePath \in Cycles
        /\ IsInjective(order) /\ ToSet(order) = Names(nodes) \ Reach(OnCycle)
        /\ \A i, j \in 1..Len(order) : order[j] \in Needs(order[i]) => i < j
        /\ hasCycle => unresolved = Reach(OnCycle)

\* An installed package is newer than a dependency of p allows.
PastMaximum(p) == \E d \in p.deps, q \in nodes : q.id = d.id /\ d.max < q.ver

\* How the implementations of the one rule agree, for the packages of the graph as the
\* installed ones and any other package.  If the manager's install() is content with the
\* dependencies, so are the validator and the resolver, for installing and for updating; a
\* maximum of 0.0.0, which only the manager takes for no bound, is left aside.  Where all
\* bounds are above 1.0.0, which only the manager takes for a bound, the manager and the
\* validator decide alike, and the resolver does except for the maxima, at which it never
\* looks.  What resolveUninstall() lets go no other package needs.
ResolversAgree ==
    nodes # {} => \A p \in Catalog : \A live \in SUBSET {p.id} :
        LET ins == resolveInstall(nodes, live, Catalog, p)
            upd == resolveUpdate(nodes, Catalog, p)
            uni == resolveUninstall(nodes, p.id)
        IN  /\ (\A d \in p.deps : d.max > 0) /\ managerAccepts(nodes, p) =>
                   /\ validateDependencies(nodes, p)
                   /\ ins.conflicts = {} /\ ins.missing = {}
                   /\ upd.unmet = {}
            /\ (\A d \in p.deps : d.min > 1 /\ d.max > 1) =>
                   /\ managerAccepts(nodes, p) <=> validateDependencies(nodes, p)
                   /\ upd.ok => (managerAccepts(nodes, p) <=> ~PastMaximum(p))
                   /\ ins.ok /\ ins.conflicts = {} /\ DepIds(p) \subseteq Names(nodes)
                          => (managerAccepts(nodes, p) <=> ~PastMaximum(p))
            /\ uni.ok => \A q \in {n \in nodes : n.id # p.id} :
                            managerAccepts(nodes, q) => managerAccepts({n \in nodes : n.id # p.id}, q)

\* (Not a property of the code.)  The resolver accepts what the manager accepts: neither
\* resolveInstall() nor resolveUpdate() looks at a maximum.
MaximaAreKept ==
    \A p \in Catalog : resolveUpdate(nodes, Catalog, p).ok => ~PastMaximum(p)

\* (Not a property of the code.)  A resolved graph without a cycle has no path of one:
\* topoSort() resets the flag and keeps the path that was found in an earlier graph, and
\* circularDependencyPath() returns it.
PathIsCurrent == Idle /\ resolved /\ ~hasCycle => cyclePath = <<>>

\* (Not a property of the code.)  An empty graph has no cycle: resolve() leaves the flag
\* of the graph it was before.
EmptyHasNoCycle == Idle /\ resolved /\ nodes = {} => ~hasCycle

\* (Not a property of the code.)  The order of resolveInstall() brings what is missing.
InstallOrderIsComplete ==
    \A p \in Catalog : LET r == resolveInstall(nodes, Names(nodes), Catalog, p) IN
        r.ok => \A d \in p.deps : d.id \in Names(nodes) \cup ToSet(r.order)

=============================================================================
