-------------------------- MODULE LoaderFramework --------------------------
(* The loader framework: LoaderRepository, LoaderMatcher, the selection      *)
(* policy, LoaderCache and LoaderValidator, and the older LoaderManager with *)
(* ProgrammerLoader.  findBestLoader() looks at the repository twice, and    *)
(* other threads change it in between.                                       *)
EXTENDS Integers, Sequences, FiniteSets, SequencesExt

CONSTANTS
    Loaders,     \* the loaders that exist: [name, vendor, chipset, protocol,
                 \* storage, msm, pk, size, hash]; one for a name means that
                 \* no name comes back with other metadata
    Queries,     \* arguments of findBestLoader(), "" for any
    Devices,     \* device ids, [msm, pk], 0 and "" for unknown
    Criteria,    \* vendor and protocol given to the matcher beforehand
    CacheKeys,   \* keys of the loader cache
    MaxEntries,  \* m_maxEntries
    MaxPuts      \* bound on the puts of a behaviour

ASSUME LoaderAssumption == MaxEntries \in Nat \ {0} /\ MaxPuts \in Nat

VARIABLES
    lrepo,       \* m_loaders, a set of loaders with different names
    lfind,       \* findBestLoader(): its point, its arguments, its result
    lcache,      \* m_cache as a function, and m_accessOrder
    lput,        \* the last value put under each key, and the number of puts
    lman         \* the result of LoaderManager::findLoader()

lvars == <<lrepo, lfind, lcache, lput, lman>>

Idle == [pc |-> "idle"]

LInit ==
    /\ lrepo = {} /\ lfind = Idle /\ lman = "none"
    /\ lcache = [map |-> <<>>, order |-> <<>>]
    /\ lput = [last |-> [k \in CacheKeys |-> 0], n |-> 0]

------------------------------------------------------------------------------
(* The repository.                                                         *)

\* addLoader() and LoaderRepository::add(): a name that is taken is refused.
addLoader ==
    /\ \E l \in Loaders :
          /\ l.name # "" /\ \A m \in lrepo : m.name # l.name
          /\ lrepo' = lrepo \cup {l}
    /\ UNCHANGED <<lfind, lcache, lput, lman>>

\* LoaderRepository::remove(), release() and, for all of them, clear().
removeLoader ==
    /\ \E l \in lrepo : lrepo' = lrepo \ {l}
    /\ UNCHANGED <<lfind, lcache, lput, lman>>

clearLoaders ==
    /\ lrepo # {} /\ lrepo' = {}
    /\ UNCHANGED <<lfind, lcache, lput, lman>>

------------------------------------------------------------------------------
(* Matching.  crit holds the vendor, protocol, chipset and storage given to  *)
(* the matcher and the device's ids.                                         *)

Fits(given, has) == given = "" \/ has = given

\* LoaderMatcher::find() filters by these; the chipset and the hash of the
\* device's key only count for the score.
Matching(l, crit) ==
    /\ Fits(crit.vendor, l.vendor) /\ Fits(crit.protocol, l.protocol) /\ Fits(crit.storage, l.storage)
    /\ crit.msm = 0 \/ l.msm = crit.msm

Points(given, has, n) == IF given # "" /\ has = given THEN n ELSE 0

\* Mutant: the hash of the device's key counts less than the chipset.
computeScoreByChipset(l, crit) ==
    Points(crit.vendor, l.vendor, 40) + Points(crit.chipset, l.chipset, 130)
        + Points(crit.protocol, l.protocol, 15) + Points(crit.storage, l.storage, 10)
        + Points(crit.pk, l.pk, 80) + (IF crit.msm > 0 /\ l.msm = crit.msm THEN 50 ELSE 0)

computeScore(l, crit) ==
    Points(crit.vendor, l.vendor, 40) + Points(crit.chipset, l.chipset, 30)
        + Points(crit.protocol, l.protocol, 15) + Points(crit.storage, l.storage, 10)
        + Points(crit.pk, l.pk, 80) + (IF crit.msm > 0 /\ l.msm = crit.msm THEN 50 ELSE 0)

\* matches(): the arguments of findBestLoader().
matches(l, q) ==
    Fits(q.vendor, l.vendor) /\ Fits(q.chipset, l.chipset) /\ Fits(q.protocol, l.protocol) /\ Fits(q.storage, l.storage)

\* The score becomes a uint8_t.
Priority(l, crit) == computeScore(l, crit) % 256

\* Mutant: a loader of the lowest score is taken.
selectWorst(cands, crit) == {l \in cands : \A m \in cands : Priority(l, crit) <= Priority(m, crit)}

\* PrioritySelection::select(): one of the highest; the first by name of them.
select(cands, crit) == {l \in cands : \A m \in cands : Priority(l, crit) >= Priority(m, crit)}

\* findAll() takes the list of the repository.
findAll ==
    /\ lfind.pc = "idle"
    /\ \E q \in Queries, dev \in Devices, c \in Criteria :
          LET crit  == [vendor |-> c.vendor, protocol |-> c.protocol, chipset |-> c.chipset, storage |-> "",
                        msm |-> dev.msm, pk |-> dev.pk]
              cands == {l \in lrepo : Matching(l, crit) /\ matches(l, q)}
          IN  IF cands = {} THEN lfind' = [pc |-> "done", res |-> {}, seen |-> lrepo, q |-> q, crit |-> crit]
              ELSE \E l \in select(cands, crit) :
                      lfind' = [pc |-> "get", res |-> {l}, seen |-> lrepo, q |-> q, crit |-> crit]
    /\ UNCHANGED <<lrepo, lcache, lput, lman>>

\* ... and findBestLoader() then gets the one selected, by its name.
getSelected ==
    /\ lfind.pc = "get"
    /\ lfind' = [lfind EXCEPT !.pc = "done", !.res = {l \in lrepo : \E m \in lfind.res : m.name = l.name}]
    /\ UNCHANGED <<lrepo, lcache, lput, lman>>

findReturns == lfind.pc = "done" /\ lfind' = Idle /\ UNCHANGED <<lrepo, lcache, lput, lman>>

------------------------------------------------------------------------------
(* LoaderValidator, on a loader's metadata.                                  *)

hasRequiredMetadata(l) == l.vendor # "" /\ l.protocol # "" /\ l.size > 0

validateHash(l) == l.hash # ""

isHashValid(l) == l.hash = "" \/ validateHash(l)

isCorrupted(l) == l.size = 0 \/ (l.hash # "" /\ ~validateHash(l))

------------------------------------------------------------------------------
(* LoaderCache.  Every put enters the key into the order of access, also one *)
(* that is there already; gets do not.                                       *)

without(f, k) == [x \in DOMAIN f \ {k} |-> f[x]]

\* evictIfNeeded(): the loop pops n keys of the order.
evicted(map, order, n) ==
    [map |-> [x \in {y \in DOMAIN map : \A i \in 1..n : order[i] # y} |-> map[x]],
     order |-> SubSeq(order, n + 1, Len(order))]

\* Mutant: one key is popped, whether or not that makes room.
evictOne(map, order) == IF Cardinality(DOMAIN map) > MaxEntries THEN evicted(map, order, 1) ELSE evicted(map, order, 0)

evictIfNeeded(map, order) ==
    evicted(map, order, CHOOSE n \in 0..Len(order) :
        /\ n = Len(order) \/ Cardinality(DOMAIN evicted(map, order, n).map) <= MaxEntries
        /\ \A m \in 0..(n - 1) : Cardinality(DOMAIN evicted(map, order, m).map) > MaxEntries)

put ==
    /\ lput.n < MaxPuts
    /\ \E k \in CacheKeys :
          LET v == lput.n + 1
          IN  /\ lcache' = evictIfNeeded([x \in DOMAIN lcache.map \cup {k} |-> IF x = k THEN v ELSE lcache.map[x]],
                                         Append(lcache.order, k))
              /\ lput' = [last |-> [lput.last EXCEPT ![k] = v], n |-> v]
    /\ UNCHANGED <<lrepo, lfind, lman>>

removeCached ==
    /\ \E k \in CacheKeys :
          /\ k \in DOMAIN lcache.map
          /\ lcache' = [map |-> without(lcache.map, k), order |-> SelectSeq(lcache.order, LAMBDA x : x # k)]
    /\ UNCHANGED <<lrepo, lfind, lput, lman>>

clearCache ==
    /\ lcache.order # <<>> /\ lcache' = [map |-> <<>>, order |-> <<>>]
    /\ UNCHANGED <<lrepo, lfind, lput, lman>>

------------------------------------------------------------------------------
(* LoaderManager: a search path is opened as a file; ProgrammerLoader.       *)

\* What parse() learns of the device a programmer is for: nothing.
compatibleId == [msm |-> 0, pk |-> ""]

isCompatibleWith(compat, dev) ==
    IF compat.pk # "" THEN compat.pk = dev.pk ELSE compat.msm # 0 /\ compat.msm = dev.msm

\* findLoader() over paths of which some hold an ELF file.
findLoader ==
    /\ lman = "none"
    /\ \E dev \in Devices, elf \in BOOLEAN :
          lman' = IF elf /\ isCompatibleWith(compatibleId, dev) THEN "found" ELSE "notFound"
    /\ UNCHANGED <<lrepo, lfind, lcache, lput>>

\* The cache and the manager share nothing with the repository.
RepositoryNext == addLoader \/ removeLoader \/ clearLoaders \/ findAll \/ getSelected \/ findReturns

CacheNext == put \/ removeCached \/ clearCache \/ findLoader

------------------------------------------------------------------------------
(* Properties.                                                             *)

\* What of the device and the criteria a loader agrees with.
Agreements(l, crit) ==
    {x \in {"vendor", "chipset", "protocol", "storage", "pk"} : crit[x] # "" /\ l[x] = crit[x]}

\* The loader findBestLoader() returns was there when it looked, answers the
\* query, is for the device's chip, and no other that answers it agrees with
\* the device and the criteria in all it agrees in and in more besides.
BestIsBest ==
    lfind.pc = "done" => \A l \in lfind.res :
        /\ l \in lfind.seen /\ matches(l, lfind.q)
        /\ lfind.crit.msm > 0 => l.msm = lfind.crit.msm
        /\ \A m \in lfind.seen : (Matching(m, lfind.crit) /\ matches(m, lfind.q)) =>
              ~(Agreements(l, lfind.crit) \subseteq Agreements(m, lfind.crit)
                   /\ Agreements(l, lfind.crit) # Agreements(m, lfind.crit))

\* The cache is never over its limit, holds of every key what was put last, and
\* nothing that eviction cannot reach.
CacheIsBounded ==
    /\ Cardinality(DOMAIN lcache.map) <= MaxEntries
    /\ \A k \in DOMAIN lcache.map :
          lcache.map[k] = lput.last[k] /\ \E i \in 1..Len(lcache.order) : lcache.order[i] = k

\* A loader with the required metadata and a valid hash is not corrupted.
VerdictsAgree == \A l \in lrepo : (hasRequiredMetadata(l) /\ isHashValid(l)) => ~isCorrupted(l)

\* A device gets the loader that fits it best, and the cache keeps its promises.
LoadersAreExact == BestIsBest /\ CacheIsBounded /\ VerdictsAgree

(* What the code does not keep.                                              *)

\* A key just put is in the cache: an old entry of the order evicts it.
PutIsCached == lput.n > 0 => \E k \in DOMAIN lcache.map : lcache.map[k] = lput.n

\* A loader for another key is never returned for a device whose key is known.
KeyIsRespected ==
    lfind.pc = "done" => \A l \in lfind.res : (lfind.crit.pk # "" /\ l.pk # "") => l.pk = lfind.crit.pk
=============================================================================
