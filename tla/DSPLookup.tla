------------------------------- MODULE DSPLookup -------------------------------
(***************************************************************************)
(* What the readers of the support-package repository find in it: the      *)
(* repository's own indexes and search (dsp/DSPRepository.cpp), the loader *)
(* database and matcher (dsp/LoaderRepository.cpp), the quirk database and *)
(* resolver (dsp/VendorQuirk.cpp) and the hardware profiles                *)
(* (dsp/HardwareProfile.cpp).                                              *)
(*                                                                         *)
(* Vendors, protocols and boot modes are values with "Unknown" among them. *)
(* A chipset is <<vendor, family, variant>> with "" for an empty part.     *)
(* Results are sets: an order of theirs that matters is named.  Texts are  *)
(* compared by value; letter case is left out.                             *)
(***************************************************************************)
EXTENDS Integers, FiniteSets

CONSTANTS
    Quirks,     \* the quirk files (*.json) there may be: [id, vendor, chip, proto, mode, scope, sev, enabled, target]
    Packs,      \* the packages there may be: [id, vendor, protos, modes, loaders, chips, ver, state]
    Profiles,   \* the profile files there may be: [ext, id, chip, default]
    Devices,    \* the devices asked about: [vendor, chip, proto, mode]
    Policies,   \* the quirk policies: [vendors, minSev]
    MaxEntries  \* bound on the files of a library

VARIABLES
    quirks,     \* m_quirks, m_by... of the quirk database
    packs,      \* m_packages of the repository
    profiles    \* m_profiles

lvars == <<quirks, packs, profiles>>

U == "Unknown"

-----------------------------------------------------------------------------
\* Quirks

\* Of two files with one id the first that is read stays.
registerQuirk(db, q) == IF \E p \in db : p.id = q.id THEN db ELSE db \cup {q}

matchVendor(a, b) == a = b \/ a = U \/ b = U

PartsMatch(a, b) == a = "" \/ b = "" \/ a = b

matchChipset(a, b) ==
    a[1] = "" \/ b[1] = "" \/ (a[1] = b[1] /\ PartsMatch(a[2], b[2]) /\ PartsMatch(a[3], b[3]))

\* Mutant: a quirk for a whole family is found only by asking for the family.
findByChipsetNarrow(c) ==
    {q \in quirks : q.chip = c \/ (/\ q.chip[1] = c[1]
                                   /\ c[2] = "" \/ q.chip[2] = c[2]
                                   /\ c[3] = "" \/ q.chip[3] = c[3])}

\* QuirkDatabase::findByChipset: the exact key, then the partial matches.
findByChipset(c) ==
    {q \in quirks : q.chip = c \/ (/\ q.chip[1] = c[1]
                                   /\ c[2] = "" \/ q.chip[2] = c[2] \/ q.chip[2] = ""
                                   /\ c[3] = "" \/ q.chip[3] = c[3] \/ q.chip[3] = "")}

\* The other indexes answer with the entries of the key.
findByKey(field, k) == {q \in quirks : q[field] = k}

Candidates(d) ==
    findByKey("vendor", d.vendor) \cup findByChipset(d.chip) \cup findByKey("proto", d.proto)
      \cup findByKey("mode", d.mode) \cup findByKey("scope", "Global")

Allowed(q, pol) == q.enabled /\ (pol.vendors = {} \/ q.vendor \in pol.vendors \cup {U})

Applies(q, d, pol) ==
    /\ q.vendor = U \/ matchVendor(q.vendor, d.vendor)
    /\ q.chip[1] = "" \/ matchChipset(q.chip, d.chip)
    /\ q.proto \in {U, d.proto}
    /\ q.mode \in {U, d.mode}
    /\ q.sev >= pol.minSev

\* QuirkResolver::resolve; severity 3 is Critical.
resolveQuirks(d, pol) ==
    LET app == {q \in Candidates(d) : Allowed(q, pol) /\ Applies(q, d, pol)}
    IN  [applicable |-> app, hasBlockers |-> \E q \in app : q.sev = 3]

resolveForLoader(l) == {q \in findByKey("scope", "Loader") : q.enabled /\ q.target \in {"", l}}

-----------------------------------------------------------------------------
\* The repository

\* rebuildIndex: a package is listed under its vendor text, under every protocol and boot
\* mode of its descriptors, and under the name and the vendors of each of its loaders.
rebuildIndex(p) ==
    [vendor |-> {IF p.vendor = "" THEN U ELSE p.vendor}, proto |-> p.protos, mode |-> p.modes,
     loader |-> UNION {{l.name} \cup l.vendors : l \in p.loaders}, chip |-> p.chips]

Indexed(field, key) == {p \in packs : key \in rebuildIndex(p)[field]}

byVendor(v)   == Indexed("vendor", v)
byProtocol(x) == Indexed("proto", x)
byBootMode(m) == Indexed("mode", m)
byLoader(n)   == Indexed("loader", n)
byChipset(c)  == Indexed("chip", c)

AnyQuery == [vendor |-> U, chip |-> <<"", "", "">>, loader |-> "", mode |-> U, proto |-> U,
             min |-> 0, max |-> 0, state |-> U]

\* A chipset is compared by vendor and family; 0.0.0 is no bound.
matchesQuery(p, y) ==
    /\ y.vendor = U \/ p.vendor = y.vendor
    /\ (y.chip[1] = "" /\ y.chip[2] = "") \/ \E c \in p.chips : y.chip[1] \in {"", c[1]} /\ y.chip[2] \in {"", c[2]}
    /\ y.loader = "" \/ \E l \in p.loaders : y.loader \in {l.id, l.name}
    /\ y.mode = U \/ y.mode \in p.modes
    /\ y.proto = U \/ y.proto \in p.protos
    /\ y.min = 0 \/ p.ver >= y.min
    /\ y.max = 0 \/ p.ver <= y.max
    /\ y.state = U \/ p.state = y.state

search(y) == {p \in packs : matchesQuery(p, y)}

-----------------------------------------------------------------------------
\* Loaders

allLoaders == UNION {p.loaders : p \in packs}

\* LoaderDatabase and LoaderIndex: a loader that lists the chipset, or its family when no
\* variant is asked for.
loadersByChipset(c) ==
    {l \in allLoaders : \E k \in l.chips : k[1] = c[1] /\ k[2] = c[2] /\ (c[3] = "" \/ k[3] = c[3])}

loadersByProtocol(x) == {l \in allLoaders : x \in l.protos}
loadersByBootMode(m) == {l \in allLoaders : m \in l.modes}

Worth(cond, n) == IF cond THEN n ELSE 0

\* LoaderMatcher::scoreLoader: every entry of the family counts, lists are without doubles.
scoreLoader(l, d) ==
      50 * Cardinality({k \in l.chips : k[1] = d.chip[1] /\ k[2] = d.chip[2]})
    + 30 * Cardinality({k \in l.chips : d.chip[3] # "" /\ k = d.chip})
    + Worth(d.proto \in l.protos, 20) + Worth(d.mode \in l.modes, 10)
    + Worth(l.preferred, 15) + l.priority

\* findBest and LoaderResolver::resolve: the candidates by falling score; the fallback to
\* loaders of vendor Unknown is always empty.
Primaries(d) ==
    {l \in loadersByChipset(d.chip) :
        \A k \in loadersByChipset(d.chip) : scoreLoader(k, d) <= scoreLoader(l, d)}

fallbacks(l, d) == loadersByChipset(d.chip) \ {l}

-----------------------------------------------------------------------------
\* Hardware profiles: of two files with one id the last that is read stays.

addProfile(db, p) == {q \in db : q.id # p.id} \cup {p}

profilesFor(c) ==
    {p \in profiles : p.chip = c \/ (/\ p.chip[1] = c[1]
                                     /\ c[2] = "" \/ p.chip[2] = c[2]
                                     /\ c[3] = "" \/ p.chip[3] = c[3])}

\* A default among them, or else the first, exact ones being listed first.
findDefault(c) ==
    LET all == profilesFor(c) exact == {p \in all : p.chip = c}
        dflt == {p \in all : p.default}
    IN  IF dflt \cap exact # {} THEN dflt \cap exact ELSE IF dflt # {} THEN dflt
        ELSE IF exact # {} THEN exact ELSE all

-----------------------------------------------------------------------------
\* A scan empties its database and reads one file after the other.

rebuild ==
    /\ lvars # <<{}, {}, {}>>
    /\ quirks' = {} /\ packs' = {} /\ profiles' = {}

scanQuirks ==
    /\ Cardinality(quirks) < MaxEntries
    /\ \E q \in Quirks : quirks' = registerQuirk(quirks, q)
    /\ UNCHANGED <<packs, profiles>>

scanPackages ==
    /\ Cardinality(packs) < MaxEntries
    /\ \E p \in Packs : packs' = {q \in packs : q.id # p.id} \cup {p}
    /\ UNCHANGED <<quirks, profiles>>

scanProfiles ==
    /\ Cardinality(profiles) < MaxEntries
    /\ \E p \in {f \in Profiles : f.ext = ".jv"} : profiles' = addProfile(profiles, p)
    /\ UNCHANGED <<quirks, packs>>

LInit == quirks = {} /\ packs = {} /\ profiles = {}
LNext == rebuild \/ scanQuirks \/ scanPackages \/ scanProfiles

-----------------------------------------------------------------------------
\* A criterion of a quirk names something; the Global scope stands for all devices.
Named(q) == q.scope = "Global" \/ q.vendor # U \/ q.chip[1] # "" \/ q.proto # U \/ q.mode # U

\* (a part of LookupsAreExact)  For a device whose vendor and chipset are known, resolve() returns every enabled quirk
\* with a criterion none of whose criteria contradicts the device, although it collects
\* them from five indexes with keys of their own: none that applies is missed, a blocker
\* least of all, and none that contradicts the device is taken.
QuirksAreExact ==
    quirks # {} => \A d \in Devices, pol \in Policies :
        d.vendor # U /\ d.chip[1] # "" =>
            LET Fits(q) == /\ q.vendor \in {U, d.vendor}
                           /\ q.chip[1] = "" \/ (/\ q.chip[1] = d.chip[1]
                                                 /\ PartsMatch(q.chip[2], d.chip[2])
                                                 /\ PartsMatch(q.chip[3], d.chip[3]))
                           /\ q.proto \in {U, d.proto} /\ q.mode \in {U, d.mode}
                want == {q \in quirks : Named(q) /\ Fits(q) /\ Allowed(q, pol) /\ q.sev >= pol.minSev}
            IN  /\ want \subseteq resolveQuirks(d, pol).applicable
                /\ \A q \in resolveQuirks(d, pol).applicable : Fits(q)
                /\ (\E q \in want : q.sev = 3) => resolveQuirks(d, pol).hasBlockers

\* (a part of LookupsAreExact)  The two ways to ask the repository agree: a search with one criterion finds the packages
\* of the index of that criterion, and a package found through its chipset is found by a
\* search for the chipset.  What is chosen for a device can be used on it: the primary loader
\* lists the family of the chipset, scores at least as much as its fallbacks, and the default
\* profile is one for the vendor, the exact one if there is one and no other is the default.
LookupsAgree ==
    packs # {} \/ profiles # {} => \A d \in Devices :
        /\ search([AnyQuery EXCEPT !.proto = d.proto]) = (IF d.proto = U THEN packs ELSE byProtocol(d.proto))
        /\ search([AnyQuery EXCEPT !.mode = d.mode]) = (IF d.mode = U THEN packs ELSE byBootMode(d.mode))
        /\ d.vendor # U => byVendor(d.vendor) = search([AnyQuery EXCEPT !.vendor = d.vendor])
        /\ d.chip[2] # "" => byChipset(d.chip) \subseteq search([AnyQuery EXCEPT !.chip = d.chip])
        /\ \A l \in Primaries(d) :
              /\ \E k \in l.chips : matchChipset(k, d.chip)
              /\ \E p \in packs : l \in p.loaders /\ p \in byLoader(l.name)
              /\ \A f \in fallbacks(l, d) : scoreLoader(f, d) <= scoreLoader(l, d)
        /\ \A p \in findDefault(d.chip) :
              /\ p.chip[1] = d.chip[1]
              /\ (\E e \in profiles : e.chip = d.chip /\ e.default) => p.chip = d.chip

\* What the databases answer is what their files say: QuirksAreExact, that no quirk that
\* applies to an identified device is missed and none that contradicts it is taken, and
\* LookupsAgree, that indexes and searches agree and what is chosen can be used.
LookupsAreExact == QuirksAreExact /\ LookupsAgree

\* (Not a property of the code.)  A quirk of severity Critical that no known criterion of a
\* partly identified device contradicts blocks it: the filter lets it pass, the indexes do
\* not find it.
BlockersSeen ==
    \A d \in Devices, pol \in Policies : \A q \in quirks :
        q.sev = 3 /\ Allowed(q, pol) /\ Applies(q, d, pol) /\ Named(q) => resolveQuirks(d, pol).hasBlockers

=============================================================================
