------------------------------ MODULE VendorSDK ------------------------------
(* The vendor SDK: registrations of eight kinds, finalize() with its report  *)
(* and dependency graph, and the comparison of versions and of headers.      *)
EXTENDS Integers, Sequences, FiniteSets, SequencesExt

CONSTANTS
    Registrations,  \* batches given to register...(): sequences of [kind, name, typed, deps]
    VersionTexts,   \* version strings: [parts, pre, build]
    HeaderSets,     \* header files: sequences of lines [class, name]
    W32,            \* values of uint32_t
    MaxRegistered   \* bound on the registrations of a behaviour

VARIABLES
    sregs,          \* m_vendors .. m_capabilities, in the order of registration
    sgraph,         \* m_nodes of m_depGraph: the dependencies of each id
    sreport,        \* m_report, with what resolve() found
    sasked,         \* the versions compared last
    sheaders,       \* the headers compared last, and the answer
    scount          \* the registrations there have been

sdkvars == <<sregs, sgraph, sreport, sasked, sheaders, scount>>

------------------------------------------------------------------------------
(* PluginDependencyGraph. An id is the pair of a kind and a name, and so is  *)
(* a dependency: one that names no kind is the pair of "" and its text.      *)

\* The node of a registration replaces one of the same id.
addNode(nodes, r) == [id \in DOMAIN nodes \cup {<<r.kind, r.name>>} |-> IF id = <<r.kind, r.name>> THEN r.deps ELSE nodes[id]]

NodesOf(nodes, rs) == FoldLeft(addNode, nodes, rs)

\* A depth-first visit: what was visited, the stack and the cycles found.
RECURSIVE dfs(_, _, _)
dfs(nodes, id, st) ==
    IF id \in Range(st.stack)
    THEN LET at == CHOOSE i \in DOMAIN st.stack : st.stack[i] = id
         IN  [st EXCEPT !.cycles = Append(@, Append(SubSeq(st.stack, at, Len(st.stack)), id))]
    ELSE IF id \in st.visited \/ id \notin DOMAIN nodes THEN st
    ELSE LET down == [st EXCEPT !.visited = @ \cup {id}, !.stack = Append(@, id)]
             up   == FoldLeft(LAMBDA s, dep : dfs(nodes, dep, s), down, nodes[id])
         IN  [up EXCEPT !.stack = Front(@)]

Occurrences(x, s) == Cardinality({i \in DOMAIN s : s[i] = x})

\* A bug that could slip in: a dependency named twice is counted once.
inDegreeDistinct(nodes, id) == Cardinality(Range(nodes[id]) \cap DOMAIN nodes)

inDegree(nodes, id) == Cardinality({i \in DOMAIN nodes[id] : nodes[id][i] \in DOMAIN nodes})

\* Kahn's algorithm with a stack for a queue. order is that of the hash map.
RECURSIVE Ordered(_, _, _, _, _)
Ordered(nodes, order, degree, queue, done) ==
    IF queue = <<>> THEN done
    ELSE LET id    == Last(queue)
             left  == [n \in DOMAIN nodes |-> LET d == degree[n] - Occurrences(id, nodes[n]) IN IF d > 0 THEN d ELSE 0]
             freed == SelectSeq(order, LAMBDA n : degree[n] > 0 /\ left[n] = 0)
         IN  Ordered(nodes, order, left, Front(queue) \o freed, Append(done, id))

Roots(nodes) == {id \in DOMAIN nodes : inDegree(nodes, id) = 0}

\* resolve(), when m_nodes lists its keys in this order and inDegree lists the
\* nodes without dependencies in that of roots.
resolveGraph(nodes, order, roots) ==
    LET found  == FoldLeft(LAMBDA st, id : dfs(nodes, id, st), [visited |-> {}, stack |-> <<>>, cycles |-> <<>>], order)
        degree == [id \in DOMAIN nodes |-> inDegree(nodes, id)]
    IN  [cycles     |-> found.cycles,
         unresolved |-> FlattenSeq([i \in DOMAIN order |-> SelectSeq(nodes[order[i]], LAMBDA d : d \notin DOMAIN nodes)]),
         resolved   |-> IF found.cycles = <<>>
                        THEN Ordered(nodes, order, degree, roots, <<>>)
                        ELSE <<>>]

\* The orders in which a hash map may list a set of keys.
Orders(S) == {o \in [1..Cardinality(S) -> S] : Range(o) = S}

------------------------------------------------------------------------------
(* PluginValidator: a name is letters, digits and _ - . and is not empty; a  *)
(* protocol must have a type.                                                *)
isValidName(name) == name \notin {"", "a b"}

validateRegistration(r) == isValidName(r.name) /\ (r.kind = "protocol" => r.typed)

------------------------------------------------------------------------------
(* VendorSDK.                                                                *)
NoReport == [finalized |-> FALSE, valid |-> FALSE, registered |-> <<>>, nodes |-> <<>>, cycles |-> <<>>, unresolved |-> <<>>, resolved |-> <<>>]

NoHeaders == [old |-> <<>>, new |-> <<>>, compatible |-> TRUE]

SInit ==
    /\ sregs = <<>>
    /\ sgraph = <<>>
    /\ sreport = NoReport
    /\ sasked = <<>>
    /\ sheaders = NoHeaders
    /\ scount = 0

\* registerVendor() .. registerCapability(), and the ones for a whole vector:
\* the report of an earlier finalize() stays.
register(rs) ==
    /\ scount + Len(rs) <= MaxRegistered
    /\ scount' = scount + Len(rs)
    /\ sregs' = sregs \o rs
    /\ UNCHANGED <<sgraph, sreport, sasked, sheaders>>

validateRegistrations(rs) == \A i \in DOMAIN rs : validateRegistration(rs[i])

checkDuplicateRegistrations(rs) == \A i, j \in DOMAIN rs : i < j => <<rs[i].kind, rs[i].name>> # <<rs[j].kind, rs[j].name>>

\* The graph keeps the nodes of every earlier finalize(), and a dependency
\* that is missing leaves the report valid.
finalize ==
    LET nodes == NodesOf(sgraph, sregs)
    IN  \E o \in Orders(DOMAIN nodes), roots \in Orders(Roots(nodes)) :
            LET g == resolveGraph(nodes, o, roots)
            IN  /\ sgraph' = nodes
                /\ sreport' = [finalized |-> TRUE, registered |-> sregs, nodes |-> nodes, cycles |-> g.cycles, unresolved |-> g.unresolved,
                               resolved |-> g.resolved,
                               valid |-> /\ validateRegistrations(sregs)
                                         /\ checkDuplicateRegistrations(sregs)
                                         /\ g.cycles = <<>>]
                /\ UNCHANGED <<sregs, sasked, sheaders, scount>>

\* clear() forgets the registrations and the report; the graph stays.
clearRegistrations ==
    /\ sregs # <<>> \/ sreport.finalized
    /\ sregs' = <<>>
    /\ sreport' = NoReport
    /\ UNCHANGED <<sgraph, sasked, sheaders, scount>>

------------------------------------------------------------------------------
(* Versions. A part is its number, or -1 when it is empty or not digits; the *)
(* pre-release and the build are the identifiers between their dots.         *)
NoVersion == [major |-> 0, minor |-> 0, patch |-> 0, pre |-> <<>>, build |-> <<>>]

fromString(t) ==
    IF Len(t.parts) # 3 \/ -1 \in Range(t.parts) THEN NoVersion
    ELSE [major |-> t.parts[1] % W32, minor |-> t.parts[2] % W32, patch |-> t.parts[3] % W32, pre |-> t.pre, build |-> t.build]

toString(v) == [parts |-> <<v.major, v.minor, v.patch>>, pre |-> v.pre, build |-> v.build]

\* -1, 0 or 1: the first place where two sequences of one length differ.
FirstDifference(s, t) ==
    LET d == {i \in DOMAIN s : s[i] # t[i]}
    IN  IF d = {} THEN 0
        ELSE LET i == CHOOSE x \in d : \A y \in d : x <= y IN IF s[i] < t[i] THEN -1 ELSE 1

Padded(s, n) == [i \in 1..n |-> IF i <= Len(s) THEN s[i] ELSE 0]

\* A pre-release is compared as a string; its identifiers are one character.
preCompare(p, q) ==
    IF (p = <<>>) # (q = <<>>) THEN IF p = <<>> THEN 1 ELSE -1
    ELSE FirstDifference(Padded(p, IF Len(p) > Len(q) THEN Len(p) ELSE Len(q)), Padded(q, IF Len(p) > Len(q) THEN Len(p) ELSE Len(q)))

compare(v, w) ==
    LET c == FirstDifference(<<v.major, v.minor, v.patch>>, <<w.major, w.minor, w.patch>>)
    IN  IF c # 0 THEN c ELSE preCompare(v.pre, w.pre)

\* What std::stoi makes of a part: what does not fit an int throws, and is 0.
stoi(n) == IF n = -1 \/ n >= W32 \div 2 THEN 0 ELSE n

\* checkSDKVersion() cuts the whole text at its dots, so the identifiers of a
\* pre-release and a build behind their first dot are further parts.
versionParts(t) ==
    [i \in DOMAIN t.parts |-> stoi(t.parts[i])]
        \o (IF t.pre = <<>> THEN <<>> ELSE Tail(t.pre)) \o (IF t.build = <<>> THEN <<>> ELSE Tail(t.build))

checkSDKVersion(t, min) ==
    LET a == versionParts(t)
        b == versionParts(min)
        n == IF Len(a) > Len(b) THEN Len(a) ELSE Len(b)
    IN  FirstDifference(Padded(a, n), Padded(b, n)) >= 0

compareVersionTexts(t, u) ==
    /\ sasked' = <<t, u>>
    /\ UNCHANGED <<sregs, sgraph, sreport, sheaders, scount>>

\* The name begins behind the blank after "class", and its end is looked for
\* from the start of the line, where that blank is the first separator.
classNameAt == 6
separatorAt == 5
parseClassNames(h) == {h[i].name : i \in {i \in DOMAIN h : h[i].class /\ separatorAt > classNameAt}}

compareHeaders(old, new) ==
    /\ sheaders' = [old |-> old, new |-> new, compatible |-> parseClassNames(old) \subseteq parseClassNames(new)]
    /\ UNCHANGED <<sregs, sgraph, sreport, sasked, scount>>

\* A behaviour either registers or compares.
SNext ==
    \/ /\ sasked = <<>> /\ sheaders = NoHeaders
       /\ (\E rs \in Registrations : register(rs)) \/ (scount > 0 /\ finalize) \/ clearRegistrations
    \/ /\ scount = 0 /\ sasked = <<>>
       /\ \/ \E t, u \in VersionTexts : compareVersionTexts(t, u)
          \/ \E h, k \in HeaderSets : compareHeaders(h, k)

------------------------------------------------------------------------------
(* Properties.                                                               *)

\* A node that is behind itself on some path of dependencies.
Circular(nodes) ==
    LET ids     == DOMAIN nodes
        Twice(R) == R \cup {p \in ids \X ids : \E b \in ids : <<p[1], b>> \in R /\ <<b, p[2]>> \in R}
        Direct  == {p \in ids \X ids : p[2] \in Range(nodes[p[1]])}
    IN  \E a \in ids : <<a, a>> \in Twice(Twice(Twice(Direct)))

\* In whatever order the hash maps list their keys: a cycle is reported if and
\* only if there is one and every reported cycle is a closed path; without one
\* every node is in the resolved order, once and behind what it depends on;
\* and the missing dependencies are listed as often as they are named.
GraphIsExact ==
    sreport.finalized =>
        LET N == sreport.nodes IN
        /\ Circular(N) <=> sreport.cycles # <<>>
        /\ \A c \in Range(sreport.cycles) :
              Len(c) > 1 /\ c[1] = Last(c) /\ \A i \in 1..(Len(c) - 1) : c[i + 1] \in Range(N[c[i]])
        /\ ~Circular(N) =>
              /\ Len(sreport.resolved) = Cardinality(DOMAIN N)
              /\ \A id \in DOMAIN N : \E i \in DOMAIN sreport.resolved :
                    /\ sreport.resolved[i] = id
                    /\ \A d \in Range(N[id]) \cap DOMAIN N : \E j \in 1..(i - 1) : sreport.resolved[j] = d
        /\ \A d \in Range(sreport.unresolved) : d \notin DOMAIN N
        /\ \A id \in DOMAIN N : \A d \in Range(N[id]) \ DOMAIN N : d \in Range(sreport.unresolved)

\* The graph holds the last registration of every id; a valid report is one of
\* registrations that have names, are all different and depend in no circle.
ReportIsHonest ==
    LET rs == sreport.registered IN
    sreport.finalized =>
        /\ \A i \in DOMAIN rs : (\A j \in (i + 1)..Len(rs) : <<rs[i].kind, rs[i].name>> # <<rs[j].kind, rs[j].name>>)
                                   => sreport.nodes[<<rs[i].kind, rs[i].name>>] = rs[i].deps
        /\ sreport.valid => (\A i \in DOMAIN rs : rs[i].name # "") /\ ~Circular(sreport.nodes)
                             /\ Cardinality({<<r.kind, r.name>> : r \in Range(rs)}) = Len(rs)

Plain(t) == Len(t.parts) = 3 /\ t.pre = <<>> /\ t.build = <<>> /\ \A i \in 1..3 : t.parts[i] >= 0 /\ t.parts[i] < W32 \div 2

\* compare() orders versions: it is antisymmetric and transitive; a version is
\* what is read back from its text; and of plain versions checkSDKVersion()
\* says what compare() says.
VersionsAreOrdered ==
    sasked # <<>> =>
        LET v == fromString(sasked[1])
            w == fromString(sasked[2])
        IN  /\ compare(v, w) = -compare(w, v)
            /\ \A t \in VersionTexts : (compare(v, w) <= 0 /\ compare(w, fromString(t)) <= 0) => compare(v, fromString(t)) <= 0
            /\ fromString(toString(v)) = v
            /\ (Plain(sasked[1]) /\ Plain(sasked[2])) => (checkSDKVersion(sasked[1], sasked[2]) <=> compare(v, w) >= 0)

\* The graph, the report and the comparison of versions are what they claim.
SdkIsExact == GraphIsExact /\ ReportIsHonest /\ VersionsAreOrdered

------------------------------------------------------------------------------
(* Deviations: what one would expect and the code does not give.             *)

\* After clear() the graph is that of the new registrations only.
ClearedIsForgotten == sreport.finalized => \A id \in DOMAIN sreport.nodes : \E i \in DOMAIN sregs : id = <<sregs[i].kind, sregs[i].name>>

\* The two comparisons agree on pre-releases as well.
PreReleasesAgree ==
    sasked # <<>> => (checkSDKVersion(sasked[1], sasked[2]) <=> compare(fromString(sasked[1]), fromString(sasked[2])) >= 0)

\* Headers that lost a class are not compatible.
RemovedIsSeen ==
    {sheaders.old[i].name : i \in DOMAIN sheaders.old} \subseteq {sheaders.new[i].name : i \in DOMAIN sheaders.new} \/ ~sheaders.compatible
=============================================================================
