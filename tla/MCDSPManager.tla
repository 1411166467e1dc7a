----------------------------- MODULE MCDSPManager -----------------------------
(* Two packages of which one needs the other, in two versions; and, as       *)
(* behaviours of their own, the companions of the manager: the dependency    *)
(* graph, the lookup databases, the caches and the inspector.                *)
EXTENDS DSPManager, DSPDependency, DSPLookup, DSPCache

CONSTANTS a, b, c, lx, ly

Man(id, v, deps, json) == [kind |-> "good", id |-> id, ver |-> v, deps |-> deps, json |-> json]
Pack(man, fs)          == [man |-> man, files |-> fs, parts |-> {"chipsets"}, flaws |-> {}]

A1 == Pack(Man(a, 1, {}, {}), {lx})
A2 == [Pack(Man(a, 2, {}, {ly}), {lx}) EXCEPT !.flaws = {"metadata", "badsums"}]
B1 == Pack(Man(b, 1, {[id |-> a, text |-> <<>>]}, {}), {ly})
B2 == Pack(Man(b, 1, {[id |-> a, text |-> <<1, 2>>]}, {}), {ly})
Br == [B1 EXCEPT !.man.kind = "broken"]
Mt == [B1 EXCEPT !.man.kind = "mistyped"]

MCLoaders   == {lx, ly, <<lx, "gz">>, <<ly, "gz">>}
MCSources   == {A1, A2, B2, Br, Mt}
DiskOf(sys, usr)  == [r \in {"system", "user", "portable"} |->
                       IF r = "system" THEN sys ELSE IF r = "user" THEN usr ELSE <<>>]
MCInitDisks ==
    {DiskOf(<<>>, <<>>), DiskOf(With(<<>>, a, A1), With(<<>>, b, B1)),
     DiskOf(With(<<>>, b, B1), With(With(<<>>, a, A1), b, buildFromManifest(B1))), DiskOf(With(<<>>, b, Mt), With(<<>>, a, build(A1, a, 1, TRUE)))}

Dep(x, lo, hi) == [id |-> x, min |-> lo, max |-> hi]
Pkg(x, v, deps) == [id |-> x, ver |-> v, deps |-> deps]

MCCatalogSet ==
    {Pkg(a, 1, {}), Pkg(a, 2, {Dep(b, 1, 1)}), Pkg(a, 2, {Dep(a, 0, 0)}), Pkg(b, 2, {Dep(a, 2, 2), Dep(c, 2, 3)}),
     Pkg(b, 1, {Dep(a, 0, 2)}), Pkg(c, 1, {Dep(a, 1, 3)}), Pkg(c, 2, {Dep(b, 2, 0)})}

Chips == {<<"", "", "">>, <<"Q", "", "">>, <<"Q", "f", "">>, <<"Q", "f", "v">>, <<"M", "f", "">>}
Qk(i, v, ch, pr, m, sc, sv, en) ==
    [id |-> i, vendor |-> v, chip |-> ch, proto |-> pr, mode |-> m, scope |-> sc, sev |-> sv, enabled |-> en, target |-> ""]
MCQuirks ==
    {Qk(1, v, ch, pr, m, sc, sv, TRUE) : v \in {U, "Qualcomm"}, ch \in Chips, pr \in {U, "Sahara"},
        m \in {U, "EDL"}, sc \in {"Global", "Chipset"}, sv \in {0, 3}}
    \cup {Qk(2, "MediaTek", <<"M", "f", "">>, U, U, "Vendor", 1, en) : en \in BOOLEAN}

Ld(i, n, ch, pr, pf) == [id |-> i, name |-> n, vendors |-> {}, chips |-> ch, protos |-> pr, modes |-> {"EDL"},
                         preferred |-> pf, priority |-> 0]
MCPacks ==
    {[id |-> i, vendor |-> v, protos |-> pr, modes |-> {"EDL"}, loaders |-> ls, chips |-> {<<"Q", "f", "v">>},
      ver |-> i, state |-> "Installed"] :
        i \in {1, 2}, v \in {"", "Qualcomm"}, pr \in {{}, {"Sahara"}},
        ls \in {{}, {Ld("l", "L", {<<"Q", "f", "v">>}, {"Sahara"}, FALSE)},
                {Ld("m", "M", {<<"Q", "f", "">>, <<"Q", "f", "v">>}, {}, TRUE), Ld("n", "N", {<<"M", "f", "">>}, {}, TRUE)}}}
MCProfiles ==
    {[ext |-> x, id |-> i, chip |-> ch, default |-> df] : x \in {".jv", ".json"}, i \in {1, 2}, ch \in Chips, df \in BOOLEAN}
MCDevices == {[vendor |-> v, chip |-> ch, proto |-> pr, mode |-> m] :
                 v \in {U, "Qualcomm", "MediaTek"}, ch \in Chips, pr \in {U, "Sahara", "Firehose"}, m \in {U, "EDL"}}
MCPolicies == {[vendors |-> vs, minSev |-> s] : vs \in {{}, {"Qualcomm"}}, s \in {0, 2}}

MCSafe == [x \in CIds |-> IF x = a THEN a ELSE b]
MCDirs == [x \in {"none", "bare", "bad", "late", "good"} |->
              [there |-> x # "none", has |-> IF x = "bare" THEN {"vendor"} ELSE ToSet(Parts) \ {"transports"},
               bad |-> IF x = "bad" THEN {"manifest"} ELSE IF x = "late" THEN {"chipsets", "protocols"} ELSE {"quirks"}]]

Idle3 == GInit /\ LInit /\ CInit

MCInit == Idle3 /\ Init

Manager == Next /\ Idle3 /\ UNCHANGED <<gvars, lvars, cvars>>

Companion ==
    /\ disk = DiskOf(<<>>, <<>>) /\ pkgs = <<>> /\ repo = <<>> /\ spoilt = {} /\ UNCHANGED vars
    /\ \/ GNext /\ LInit /\ CInit /\ UNCHANGED <<lvars, cvars>>
       \/ rebuild /\ GInit /\ CInit /\ UNCHANGED <<gvars, cvars>>
       \/ scanQuirks /\ packs = {} /\ profiles = {} /\ GInit /\ CInit /\ UNCHANGED <<gvars, cvars>>
       \/ scanPackages /\ quirks = {} /\ profiles = {} /\ GInit /\ CInit /\ UNCHANGED <<gvars, cvars>>
       \/ scanProfiles /\ quirks = {} /\ packs = {} /\ GInit /\ CInit /\ UNCHANGED <<gvars, cvars>>
       \/ CacheNext /\ GInit /\ LInit /\ cached = {} /\ ldr = <<>> /\ insp = NotOpen /\ UNCHANGED <<gvars, lvars>>
       \/ LoaderCacheNext /\ GInit /\ LInit /\ held = <<>> /\ files = <<>> /\ insp = NotOpen /\ UNCHANGED <<gvars, lvars>>
       \/ InspectorNext /\ GInit /\ LInit /\ held = <<>> /\ files = <<>> /\ ldr = <<>> /\ UNCHANGED <<gvars, lvars>>

MCNext == Manager \/ Companion

\* What is listed of the packages is what there is.  ViewsAreCurrent: the repository is a
\* scan of the disk, the manager's packages are in their directories, and the studio shows
\* them.  PackagesConsistent: dependencies are met and loaders unique until a disk spoilt by
\* a failed copy or removal is read back.  CacheIsHonest: the caches answer what was cached.
PackagesAreExact == ViewsAreCurrent /\ PackagesConsistent /\ CacheIsHonest

\* Dependencies are resolved from what is there now; the manager, the validator and the
\* resolver agree as far as ResolversAgree says; and the databases find what fits a device,
\* the most specific first.
AnswersAreExact == ResolutionIsCurrent /\ ResolversAgree /\ LookupsAreExact

MCSpec == MCInit /\ [][MCNext]_<<vars, gvars, lvars, cvars>>
=============================================================================
