------------------------------ MODULE DSPManager ------------------------------
(***************************************************************************)
(* Device support packages: the package manager (dsp/DSPManager.cpp), the  *)
(* repository it scans (dsp/DSPRepository.cpp), the validator behind       *)
(* verify() (dsp/DSPValidator.cpp), the package builder                    *)
(* (dsp/DSPBuilder.cpp) and the package view of the studio                 *)
(* (apps/mboot-studio/src/DSPGuiIntegration.cpp), which is the manager's   *)
(* only client.                                                            *)
(*                                                                         *)
(* A directory is a manifest, the loader files beside it and the faults    *)
(* the validator looks for.  A version is a number: 1 stands for 1.0.0,    *)
(* the default of DSPVersion, and 0 for 0.0.0, which bounds nothing.  A    *)
(* call runs to its end before the next; the file system may fail in it,   *)
(* and the process may end between two calls.  Descriptive metadata        *)
(* (names, vendors, chipsets, dates) and progress reports are left out.    *)
(***************************************************************************)
EXTENDS Integers, FiniteSets, Functions

CONSTANTS
    Ids,       \* package ids
    Loaders,   \* loader ids; a loader file is named after its loader
    Sources,   \* the package directories a user may select
    InitDisks, \* the repositories a manager may be started on
    MaxReads,  \* bound on the times a manifest is read into the same metadata
    Faults     \* the file system failures that may happen: "throw", "skip", "remove"

Roots  == <<"system", "user", "portable">>   \* in the order scan() visits them
States == {"Installed", "Enabled", "Disabled", "Corrupted"}
Levels == 0..2                               \* None, Basic, Full (Strict adds nothing)

NoId       == "empty"
NoManifest == [kind |-> "none", id |-> NoId, ver |-> 1, deps |-> {}, json |-> {}]

\* A manifest is [kind, id, ver, deps, json]: kind is "good", "broken" (no JSON object)
\* or "mistyped" (a field has the wrong JSON type); json are the loaders of loaders.json,
\* deps a set of [id, text], text being the versions its text names.
Flaws == {"metadata", "badsums", "badvendor"}

ASSUME DSPAssumption ==
    /\ Faults \subseteq {"throw", "skip", "remove"}
    /\ \A s \in Sources : s.files \subseteq Loaders /\ s.flaws \subseteq Flaws

VARIABLES
    disk,    \* disk[r]: the package directories under root r, by directory name
    repo,    \* m_packages of the repository, from which rebuildIndex() makes every index
    pkgs,    \* m_packages of the manager
    shown,   \* the packages and states in the studio's tree
    spoilt   \* history: what happened that the checks of install() cannot see, and
             \* "reread" once the manager has read packages back from the disk after it

vars == <<disk, repo, pkgs, shown, spoilt>>

-----------------------------------------------------------------------------
\* Reading a package

\* The version text of a dependency: none or unreadable leaves the default 1.0.0 in
\* both bounds; one version is both bounds; a range is min and max.
DepBounds(text) ==
    IF text = <<>> THEN [min |-> 1, max |-> 1]
    ELSE [min |-> text[1], max |-> text[Cardinality(DOMAIN text)]]

\* Both readers make every dependency a required one.
DepsOf(man) == {[id |-> d.id, min |-> DepBounds(d.text).min, max |-> DepBounds(d.text).max] : d \in man.deps}

\* loaders.json, then every file of loaders/ that has no entry; an entry whose file is
\* not there keeps an empty filePath.
LoadersOf(dir, place) ==
    [l \in dir.man.json \cup dir.files |-> IF l \in dir.files THEN place ELSE ""]

\* chipsets.json, bootmodes.json, transports.json and protocols.json: the array of a
\* file that parses is appended to the list of its kind, whatever the list holds.  A
\* list is counted in readings of its file.
Descriptors == {"chipsets", "bootmodes", "transports", "protocols"}

PlusOne(n, part, dir) == n + (IF part \in dir.parts THEN 1 ELSE 0)

readChipsets(n, dir)   == PlusOne(n, "chipsets", dir)
readBootModes(n, dir)  == PlusOne(n, "bootmodes", dir)
readTransports(n, dir) == PlusOne(n, "transports", dir)
readProtocols(n, dir)  == PlusOne(n, "protocols", dir)

AppendLists(lists, dir) ==
    [chipsets   |-> readChipsets(lists.chipsets, dir),
     bootmodes  |-> readBootModes(lists.bootmodes, dir),
     transports |-> readTransports(lists.transports, dir),
     protocols  |-> readProtocols(lists.protocols, dir)]

NoLists == [p \in Descriptors |-> 0]

\* The manifest is there and is a JSON object.
Readable(dir) == dir.man.kind \notin {"none", "broken"}

\* loadPackageManifest throws, and no caller catches it, when a field of the manifest has
\* the wrong type.
Loadable(dir) == Readable(dir) /\ dir.man.kind = "good"

\* DSPRepository::Impl::loadPackage reads the same files with helpers of its own: a field
\* of the wrong type reads as its default, and the lists start empty.
manifestOf(dir)  == [ver |-> dir.man.ver, deps |-> DepsOf(dir.man)]
loaderFilesOf(dir) == LoadersOf(dir, "copy")
chipsetsOf(dir)  == readChipsets(0, dir)
listsOf(dir)     == [AppendLists(NoLists, dir) EXCEPT !.chipsets = chipsetsOf(dir)]

loadPackage(r, dir) ==
    [ver |-> manifestOf(dir).ver, deps |-> manifestOf(dir).deps, at |-> loaderFilesOf(dir),
     lists |-> listsOf(dir), state |-> "Installed", root |-> r]

Packages(r, dirs) ==
    {[id |-> dirs[n].man.id, meta |-> loadPackage(r, dirs[n])] :
        n \in {m \in DOMAIN dirs : Readable(dirs[m]) /\ dirs[m].man.id # NoId}}

\* scan(): the last root that has the package gives its metadata.
Scan(d) ==
    LET At(i)   == Packages(Roots[i], d[Roots[i]])
        Found   == {p.id : p \in At(1) \cup At(2) \cup At(3)}
        Last(x) == CHOOSE i \in 1..3 : /\ \E p \in At(i) : p.id = x
                                       /\ \A j \in (i + 1)..3 : \A p \in At(j) : p.id # x
    IN  [x \in Found |-> (CHOOSE p \in At(Last(x)) : p.id = x).meta]

-----------------------------------------------------------------------------
\* Building a package

\* DSPBuilder: build() copies a directory and writes a new manifest without dependencies,
\* a chipsets.json the readers take for no array, and a vendor.json without the field
\* vendorName that validateSchema() asks for; compressed, every loader file gets a second
\* file beside it, which the readers take for one more loader.
doGenerateManifest(man, x, v) == [man EXCEPT !.kind = "good", !.id = x, !.ver = v, !.deps = {}]

doCompressLoaders(files) == files \cup {<<l, "gz">> : l \in files}

build(s, x, v, compress) ==
    [man |-> doGenerateManifest(s.man, x, v), parts |-> s.parts \ {"chipsets"},
     files |-> IF compress THEN doCompressLoaders(s.files) ELSE s.files,
     flaws |-> s.flaws \cup {"badvendor"}]

buildFromManifest(s) == build(s, s.man.id, s.man.ver, FALSE)

-----------------------------------------------------------------------------
\* The checks of the manager

hasLoaderConflict(l) == \E x \in DOMAIN pkgs : l \in DOMAIN pkgs[x].at

VersionIn(v, d) == (d.min > 0 => v >= d.min) /\ (d.max > 0 => v <= d.max)

Satisfied(d) == d.id \in DOMAIN pkgs /\ VersionIn(pkgs[d.id].ver, d)

\* Mutant: a dependent that is disabled does not count.
DependentsInUse(x) ==
    {y \in DOMAIN pkgs \ {x} : pkgs[y].state # "Disabled" /\ \E d \in pkgs[y].deps : d.id = x}

Dependents(x) == {y \in DOMAIN pkgs \ {x} : \E d \in pkgs[y].deps : d.id = x}

Installable(s) ==
    /\ Loadable(s) /\ s.man.id # NoId
    /\ s.man.id \notin DOMAIN pkgs
    /\ \A l \in DOMAIN LoadersOf(s, "source") : ~hasLoaderConflict(l)
    /\ \A d \in DepsOf(s.man) : Satisfied(d)

\* DSPValidator: the errors a check reports, TRUE for a critical one.  A metadata.json is
\* not read, so the empty metadata checked in its place always fail; level Full reports
\* that signatures are not supported.
validateManifest(dir)  == IF Readable(dir) THEN {} ELSE {TRUE}
validateMetadata(dir)  == IF "metadata" \in dir.flaws THEN {TRUE} ELSE {}
validateChecksums(dir) == IF "badsums" \in dir.flaws THEN {FALSE} ELSE {}
validateSchema(dir)    == IF "badvendor" \in dir.flaws THEN {TRUE} ELSE {}
validateSignature      == {FALSE}

validate(exists, dir, level) ==
    IF ~exists THEN {TRUE}
    ELSE validateManifest(dir)
         \cup (IF level > 0 THEN validateMetadata(dir) \cup validateChecksums(dir) ELSE {})
         \cup (IF level > 1 THEN validateSchema(dir) \cup validateSignature ELSE {})

-----------------------------------------------------------------------------
\* What a copy or a removal leaves on disk

Without(f, x) == Restrict(f, DOMAIN f \ {x})
With(f, x, v) == [y \in DOMAIN f \cup {x} |-> IF y = x THEN v ELSE f[y]]

EmptyDir == [man |-> NoManifest, files |-> {}, parts |-> {}, flaws |-> {}]

Existing(x) == IF x \in DOMAIN disk["user"] THEN disk["user"][x] ELSE EmptyDir

Manifest == <<"manifest", "json">>

\* The files got are copied over what the target directory holds already.
CopyInto(old, s, got) ==
    [man   |-> IF Manifest \in got THEN s.man ELSE old.man,
     files |-> old.files \cup (s.files \cap got),
     parts |-> old.parts \cup s.parts,
     flaws |-> old.flaws \cup s.flaws]

Copies(s) == SUBSET ({Manifest} \cup s.files)
Whole(s)  == {Manifest} \cup s.files

\* History: packages are on disk that the manager does not know (not loaded yet, left
\* behind by a removal, or uncovered by one), so install() checks against too little.
Unseen == IF DOMAIN Scan(disk) = DOMAIN pkgs THEN {} ELSE {"unseen"}

\* Bound: one failure of the file system in a behaviour.
MayFail(f) == f \in Faults /\ spoilt \cap Faults = {}

DiskWith(x, dir) == [disk EXCEPT !["user"] = With(@, x, dir)]

InstallDir(x) == disk[pkgs[x].root]

-----------------------------------------------------------------------------
\* The operations of the manager

\* install(): the metadata registered are those read from the source directory, so
\* the loader paths are those of the source.
Registered(s) ==
    [ver |-> s.man.ver, deps |-> DepsOf(s.man), at |-> LoadersOf(s, "source"),
     lists |-> AppendLists(NoLists, s), state |-> "Installed", root |-> "user"]

\* An error of copy_file is ignored ("skip"); an exception of the iterator ends the
\* call with InstallFailed, after some files and before the rescan ("throw").
InstallCopies(s) ==
    \E got \in Copies(s) :
        \/ /\ got = Whole(s) \/ MayFail("skip")
           /\ disk' = DiskWith(s.man.id, CopyInto(Existing(s.man.id), s, got))
           /\ pkgs' = With(pkgs, s.man.id, Registered(s))
           /\ repo' = Scan(disk')
           /\ spoilt' = spoilt \cup Unseen \cup (IF got = Whole(s) THEN {} ELSE {"skip"})
        \/ /\ got # Whole(s) /\ MayFail("throw")
           /\ disk' = DiskWith(s.man.id, CopyInto(Existing(s.man.id), s, got))
           /\ spoilt' = spoilt \cup {"throw"}
           /\ UNCHANGED <<repo, pkgs>>

install(s) == Installable(s) /\ InstallCopies(s)

\* A removal that fails leaves the directory with any of its files, the manifest among
\* them or not.
RemoveDir(x) ==
    IF x \notin DOMAIN InstallDir(x) THEN disk' = disk /\ spoilt' = spoilt
    ELSE \/ /\ disk' = [disk EXCEPT ![pkgs[x].root] = Without(@, x)]
            /\ spoilt' = spoilt \cup (IF x \in DOMAIN Scan(disk') THEN {"uncovered"} ELSE {})
         \/ /\ MayFail("remove")
            /\ LET dir == InstallDir(x)[x]
               IN  \E left \in SUBSET dir.files, parts \in SUBSET dir.parts, man \in {dir.man, NoManifest} :
                      disk' = [disk EXCEPT ![pkgs[x].root][x] =
                                  [dir EXCEPT !.files = left, !.parts = parts, !.man = man]]
            /\ spoilt' = spoilt \cup {"remove"}

\* Mutant: the repository is not scanned again.
uninstallNoScan(x) ==
    /\ x \in DOMAIN pkgs /\ Dependents(x) = {}
    /\ RemoveDir(x)
    /\ pkgs' = Without(pkgs, x)
    /\ repo' = repo

uninstall(x) ==
    /\ x \in DOMAIN pkgs /\ Dependents(x) = {}
    /\ RemoveDir(x)
    /\ pkgs' = Without(pkgs, x)
    /\ repo' = Scan(disk')

\* update(): install() refuses the id that is installed, so only a directory with
\* another id gets past it; the entry of x is then compared with itself and kept.
update(x, s) == x \in DOMAIN pkgs /\ install(s)

\* History: what a call reads back from the disk after a fault is not what install() checked.
Reread == IF spoilt = {} THEN {} ELSE spoilt \cup {"reread"}

setState(x, v) ==
    /\ pkgs' = [pkgs EXCEPT ![x].state = v]
    /\ UNCHANGED <<disk, repo, spoilt>>

enable(x) == x \in DOMAIN pkgs /\ pkgs[x].state # "Corrupted" /\ setState(x, "Enabled")

disable(x) == x \in DOMAIN pkgs /\ Dependents(x) = {} /\ setState(x, "Disabled")

\* repair(): the manifest is read into the metadata there are, so the lists only grow;
\* a loader whose file is missing is looked for in the install directory by its name.
repair(x) ==
    /\ x \in DOMAIN pkgs /\ \A p \in Descriptors : pkgs[x].lists[p] < MaxReads
    /\ x \in DOMAIN InstallDir(x) /\ Loadable(InstallDir(x)[x])
    /\ LET dir == InstallDir(x)[x]
           old == pkgs[x].at
           at  == [l \in DOMAIN old \cup DOMAIN LoadersOf(dir, "copy") |->
                      IF l \in DOMAIN old THEN old[l] ELSE LoadersOf(dir, "copy")[l]]
           found == \A l \in DOMAIN at : at[l] # "copy" \/ l \in dir.files
           meta == [pkgs[x] EXCEPT !.ver = dir.man.ver, !.deps = @ \cup DepsOf(dir.man), !.at = at,
                                    !.lists = AppendLists(@, dir)]
       IN  pkgs' = [pkgs EXCEPT ![x] = IF found THEN [meta EXCEPT !.state = "Enabled"] ELSE meta]
    /\ spoilt' = Reread
    /\ UNCHANGED <<disk, repo>>

\* verify(): a critical error marks the package.
verify(x, level) ==
    /\ x \in DOMAIN pkgs
    /\ LET dirs == InstallDir(x)
           errs == validate(x \in DOMAIN dirs, IF x \in DOMAIN dirs THEN dirs[x] ELSE EmptyDir, level)
       IN  pkgs' = IF TRUE \in errs THEN [pkgs EXCEPT ![x].state = "Corrupted"] ELSE pkgs
    /\ UNCHANGED <<disk, repo, spoilt>>

reload ==
    /\ repo' = Scan(disk)
    /\ pkgs' = repo'
    /\ spoilt' = Reread
    /\ UNCHANGED disk

-----------------------------------------------------------------------------
\* The studio: a button works on the package selected in the tree and refreshes the tree
\* when the call reports success.

populateTree(p) == [x \in DOMAIN p |-> p[x].state]

refresh(ok) == shown' = IF ok THEN populateTree(pkgs') ELSE shown

Selected == DOMAIN shown

onInstallClicked(s)   == install(s) /\ refresh(s.man.id \in DOMAIN pkgs')
onUninstallClicked(x) == uninstall(x) /\ refresh(TRUE)

onEnableClicked(x)  == enable(x) /\ refresh(TRUE)
onDisableClicked(x) == disable(x) /\ refresh(TRUE)
onRepairClicked(x)  == repair(x) /\ refresh(pkgs'[x].state = "Enabled")
onVerifyClicked(x)  == verify(x, 2) /\ refresh(FALSE)
onReloadClicked     == reload /\ refresh(TRUE)

\* Calls of the library by another client, which the studio does not see.
apiUpdate(x, s) ==
    /\ update(x, s)
    /\ shown' = shown

apiVerify(x, level) == verify(x, level) /\ shown' = shown

\* A new process: nothing is read until reload(); setDSPManager() only shows the list.
setDSPManager ==
    /\ repo' = <<>> /\ pkgs' = <<>> /\ shown' = populateTree(pkgs')
    /\ spoilt' = spoilt \ {"reread"}
    /\ UNCHANGED disk

Init ==
    /\ disk \in InitDisks
    /\ repo = <<>> /\ pkgs = <<>> /\ shown = <<>>
    /\ spoilt = {}

Next ==
    \/ \E s \in Sources : onInstallClicked(s)
    \/ \E x \in Selected : onUninstallClicked(x)
    \/ \E x \in Selected : onEnableClicked(x)
    \/ \E x \in Selected : onDisableClicked(x)
    \/ \E x \in Selected : onRepairClicked(x)
    \/ \E x \in Selected : onVerifyClicked(x)
    \/ onReloadClicked
    \/ setDSPManager
    \/ \E x \in Ids, s \in Sources : apiUpdate(x, s)
    \/ \E x \in Ids, level \in Levels : apiVerify(x, level)

Spec == Init /\ [][Next]_vars

-----------------------------------------------------------------------------
\* The package is where the manager says it was installed, as it is listed.
Backed(x) ==
    /\ x \in DOMAIN InstallDir(x)
    /\ LET dir == InstallDir(x)[x]
       IN  /\ dir.man.id = x /\ dir.man.ver = pkgs[x].ver /\ DepsOf(dir.man) = pkgs[x].deps
           /\ \A l \in DOMAIN pkgs[x].at : pkgs[x].at[l] # "" => l \in dir.files

\* What the program shows of the packages is what there is.  The repository holds what a
\* scan of the disk would find: every call that changed the directories has scanned them
\* again, only an install() that an exception ended leaves files no scan has seen, and a
\* manager that has not scanned yet knows nothing.  The install directory of every package
\* of the manager has its manifest, in the version and with the dependencies it is listed
\* with, and every loader file it names: unless install() skipped a file, no failed removal,
\* copy that an exception ended, repair or new process makes a listed package one that is
\* not there.  The studio's tree lists packages that are installed, with their states; only
\* one that verify() marked may be shown as before.
ViewsAreCurrent ==
    /\ pkgs # <<>> /\ "throw" \notin spoilt => repo = Scan(disk)
    /\ "skip" \notin spoilt => \A x \in DOMAIN pkgs : Backed(x)
    /\ DOMAIN shown \subseteq DOMAIN pkgs
    /\ \A x \in DOMAIN shown : shown[x] = pkgs[x].state \/ pkgs[x].state = "Corrupted"

\* Every dependency of every installed package is installed, in a version it accepts, and
\* no two installed packages provide the same loader, through any sequence of install,
\* update, uninstall, disable, repair and reload, copies and removals that fail half way
\* included: what they leave on the disk, and packages the manager does not know, can break
\* it only through a reload() or a repair() that reads the disk back.
PackagesConsistent ==
    "reread" \notin spoilt =>
        /\ \A x \in DOMAIN pkgs : \A d \in pkgs[x].deps : Satisfied(d)
        /\ \A x, y \in DOMAIN pkgs : x # y => DOMAIN pkgs[x].at \cap DOMAIN pkgs[y].at = {}

\* (Not a property of the code.)  Every package of the manager is one on the disk: install()
\* ignores the error of copy_file and lists a package whose manifest was not copied.
ListedIsThere == \A x \in DOMAIN pkgs : Backed(x)

\* (Not a property of the code.)  The packages are consistent whatever was read back: after
\* a copy or a removal that failed, reload() takes what it finds without a check.
ReloadIsChecked ==
    \A x \in DOMAIN pkgs : \A d \in pkgs[x].deps : Satisfied(d)

\* (Not a property of the code.)  The counts of the manager are those of the package on
\* disk: repair() reads the lists a second time into the same metadata.
CountsAreDisks ==
    \A x \in DOMAIN pkgs : \A p \in Descriptors : pkgs[x].lists[p] <= 1

\* (Not a property of the code.)  A package verify() marked as corrupted is used again
\* only after repair() or reload(): disable() forgets the mark.
CorruptedStaysOut ==
    [][\A x \in DOMAIN pkgs \cap DOMAIN pkgs' :
          pkgs[x].state = "Corrupted" => pkgs'[x].state # "Disabled"]_vars

=============================================================================
