------------------------------- MODULE DSPCache -------------------------------
(***************************************************************************)
(* The caches of the support packages: DSPCache (dsp/DSPCache.cpp), files  *)
(* under names made from ids; LoaderCache (dsp/LoaderRepository.cpp),      *)
(* files and a set of ids in memory; and DSPInspector                      *)
(* (dsp/DSPInspector.cpp), the metadata of the directory opened last.      *)
(*                                                                         *)
(* A file holds a value or, when a write was cut short, Torn.  A write may *)
(* fail to open its file, or leave it torn with an error, or torn without  *)
(* one (the stream flushes after the last test).                           *)
(***************************************************************************)
EXTENDS Integers, FiniteSets

CONSTANTS
    CIds,      \* ids of packages, loaders and lookups
    Safe,      \* sanitizeId, a function on CIds
    Values,    \* what may be cached
    Dirs,      \* directories an inspector may open: [there, has, bad], the parts it has, those that cannot be read
    MaxFiles,  \* bound on the files of the cache directory
    Faulty     \* whether writes and removals may fail

Torn == "torn"
Miss == "miss"
Exts == {"meta", "ldr", "lup", "dep"}

ASSUME CacheAssumption == MaxFiles \in Nat /\ Torn \notin Values /\ Miss \notin Values

VARIABLES
    files,     \* the files of the cache directory, by <<name, ext>>
    held,      \* history: what a client cached and nobody took away, by <<id, ext>>
    count,     \* m_entryCount
    stale,     \* m_statsStale
    ldr,       \* LoaderCache: its files, by id
    cached,    \* LoaderCache: m_cached
    insp,      \* DSPInspector: [dir, loaded, open]
    faults     \* history: a write or a removal failed

cvars == <<files, held, count, stale, ldr, cached, insp, faults>>

Put(f, k, v)  == [x \in DOMAIN f \cup {k} |-> IF x = k THEN v ELSE f[x]]
Drop(f, S)    == [x \in DOMAIN f \ S |-> f[x]]
Name(id, ext) == <<Safe[id], ext>>

-----------------------------------------------------------------------------
\* DSPCache

\* writeBinaryFile(), and the statistics marked as stale if it says it went well: the file
\* may not open, or be torn with or without an error.
cacheEntry(id, ext, v) ==
    /\ Cardinality(DOMAIN files \cup {Name(id, ext)}) <= MaxFiles
    /\ \/ /\ files' = Put(files, Name(id, ext), v)
          /\ held' = Put(held, <<id, ext>>, v)
          /\ stale' = TRUE /\ faults' = faults
       \/ /\ Faulty /\ faults' = TRUE
          /\ \/ UNCHANGED <<files, held, stale>>
             \/ /\ files' = Put(files, Name(id, ext), Torn)
                /\ held' = Drop(held, {<<id, ext>>})
                /\ stale' \in {stale, TRUE}
    /\ UNCHANGED <<count, ldr, cached, insp>>

cacheMetadata(id, v)             == cacheEntry(id, "meta", v)
cacheLoaderFile(id, v)           == cacheEntry(id, "ldr", v)
cacheLookup(id, v)               == cacheEntry(id, "lup", v)
cacheDependencyResolution(id, v) == cacheEntry(id, "dep", v)

readBinaryFile(id, ext) == IF Name(id, ext) \in DOMAIN files THEN files[Name(id, ext)] ELSE Miss

\* The answers to a load.  Of a torn file: metadata torn among the chipsets come back with
\* the chipsets before, a loader with the bytes there are; the others are found out.
loadMetadata(id) == IF readBinaryFile(id, "meta") = Torn THEN {Torn, Miss} ELSE {readBinaryFile(id, "meta")}
loadLoader(id)   == {readBinaryFile(id, "ldr")}
lookupCached(id) == {IF readBinaryFile(id, "lup") = Torn THEN Miss ELSE readBinaryFile(id, "lup")}
loadDependencyResolution(id) == {IF readBinaryFile(id, "dep") = Torn THEN Miss ELSE readBinaryFile(id, "dep")}

loadEntry(id, ext) ==
    CASE ext = "meta" -> loadMetadata(id)
      [] ext = "ldr"  -> loadLoader(id)
      [] ext = "lup"  -> lookupCached(id)
      [] ext = "dep"  -> loadDependencyResolution(id)

hasEntry(id, ext) == Name(id, ext) \in DOMAIN files

Forget(S) == Drop(held, {k \in DOMAIN held : Name(k[1], k[2]) \in S})

\* Mutant: the statistics are not marked.
invalidateQuietly(id, ext) ==
    /\ ext \in {"meta", "ldr"} /\ hasEntry(id, ext)
    /\ files' = Drop(files, {Name(id, ext)})
    /\ held' = Forget({Name(id, ext)})
    /\ UNCHANGED <<count, stale, ldr, cached, insp, faults>>

invalidate(id, ext) ==
    /\ ext \in {"meta", "ldr"} /\ hasEntry(id, ext)
    /\ files' = Drop(files, {Name(id, ext)})
    /\ held' = Forget({Name(id, ext)})
    /\ stale' = TRUE
    /\ UNCHANGED <<count, ldr, cached, insp, faults>>

\* clear(): whatever could not be removed, the statistics say empty.
clearCache ==
    /\ \E gone \in SUBSET DOMAIN files :
          /\ gone # DOMAIN files => Faulty
          /\ faults' = (faults \/ gone # DOMAIN files)
          /\ files' = Drop(files, gone)
          /\ held' = Forget(gone)
    /\ count' = 0 /\ stale' = FALSE
    /\ UNCHANGED <<ldr, cached, insp>>

\* prune(): files older than the age given, any of them.
prune ==
    /\ \E gone \in SUBSET DOMAIN files : files' = Drop(files, gone) /\ held' = Forget(gone)
    /\ stale' = TRUE
    /\ UNCHANGED <<count, ldr, cached, insp, faults>>

\* cacheEntryCount, cacheSizeBytes, isWarm and rebuild count the directory when it is stale.
refreshStats ==
    /\ stale
    /\ count' = Cardinality(DOMAIN files) /\ stale' = FALSE
    /\ UNCHANGED <<files, held, ldr, cached, insp, faults>>

cacheEntryCount == IF stale THEN Cardinality(DOMAIN files) ELSE count

-----------------------------------------------------------------------------
\* LoaderCache

cacheLoader(id, v) ==
    /\ \/ ldr' = Put(ldr, id, v) /\ cached' = cached \cup {id} /\ faults' = faults
       \/ /\ Faulty /\ faults' = TRUE
          /\ ldr' = Put(ldr, id, Torn)
          /\ cached' \in {cached, cached \cup {id}}
    /\ UNCHANGED <<files, held, count, stale, insp>>

loadCached(id) == IF id \in DOMAIN ldr THEN ldr[id] ELSE Miss

invalidateLoader(id) ==
    /\ ldr' = Drop(ldr, {id}) /\ cached' = cached \ {id}
    /\ UNCHANGED <<files, held, count, stale, insp, faults>>

\* clear() walks m_cached and forgets it at the end: a removal that throws ends the walk.
clearLoaders ==
    /\ \/ ldr' = Drop(ldr, cached) /\ cached' = {} /\ faults' = faults
       \/ /\ Faulty /\ faults' = TRUE /\ cached' = cached
          /\ \E gone \in SUBSET cached : gone # cached /\ ldr' = Drop(ldr, gone)
    /\ UNCHANGED <<files, held, count, stale, insp>>

\* The constructor takes the set from the directory.
restartLoaderCache ==
    /\ cached' = DOMAIN ldr
    /\ UNCHANGED <<files, held, count, stale, ldr, insp, faults>>

-----------------------------------------------------------------------------
\* DSPInspector

Parts == <<"manifest", "vendor", "chipsets", "bootmodes", "transports", "protocols", "quirks", "profiles">>

NotOpen == [dir |-> Miss, loaded |-> {}, open |-> FALSE]

\* Whether a part loads: there must be a manifest, other files may be missing but must be
\* readable, and of quirks and profiles only the names are taken.
loadManifest(d)    == "manifest" \in Dirs[d].has \ Dirs[d].bad
loadFile(d, part)  == part \in Dirs[d].has => part \notin Dirs[d].bad
loadNames(d, part) == part \in {"quirks", "profiles"}

Loads(d, part) == IF part = "manifest" THEN loadManifest(d) ELSE loadNames(d, part) \/ loadFile(d, part)

\* open(): the old metadata go first; the parts are read in this order up to the first
\* that does not load.
openPackage(d) ==
    /\ LET read == {i \in 1..8 : \A j \in 1..i : Loads(d, Parts[j])}
       IN  insp' = IF ~Dirs[d].there THEN [NotOpen EXCEPT !.dir = d]
                   ELSE [dir |-> d, loaded |-> {<<d, Parts[i]>> : i \in {k \in read : Parts[k] \in Dirs[d].has}}, open |-> read = 1..8]
    /\ UNCHANGED <<files, held, count, stale, ldr, cached, faults>>

closePackage ==
    /\ insp' = NotOpen
    /\ UNCHANGED <<files, held, count, stale, ldr, cached, faults>>

\* statistics(), fileList(), compatibilityInfo(), dependencyGraph() and healthReport() need
\* an open package; metadata() and the lists answer at any time.
metadata == insp.loaded
statistics == IF insp.open THEN insp.loaded ELSE {}

CInit ==
    /\ files = <<>> /\ held = <<>> /\ count = 0 /\ stale = TRUE
    /\ ldr = <<>> /\ cached = {} /\ insp = NotOpen /\ faults = FALSE

CacheNext ==
    \/ \E id \in CIds, v \in Values :
          cacheMetadata(id, v) \/ cacheLoaderFile(id, v) \/ cacheLookup(id, v) \/ cacheDependencyResolution(id, v)
    \/ \E id \in CIds, ext \in Exts : invalidate(id, ext)
    \/ clearCache \/ prune \/ refreshStats

LoaderCacheNext ==
    \/ \E id \in CIds, v \in Values : cacheLoader(id, v)
    \/ \E id \in CIds : invalidateLoader(id)
    \/ clearLoaders \/ restartLoaderCache

InspectorNext == (\E d \in DOMAIN Dirs : openPackage(d)) \/ closePackage

-----------------------------------------------------------------------------
\* An id whose file name no other id has reads back what was cached under it, as long as it
\* was not taken away, and nothing else: whatever writes and removals of its own file or of
\* others failed, a value once cached and still held is answered whole, an id that holds none
\* is answered with a miss or, if a write of its own file was cut short, with what there is
\* of it, which a lookup and a dependency resolution find out.  Without a failed one the
\* number of entries reported is the number there is, and the loader cache knows its files.
\* An open inspector has a manifest and every part of its directory, and never one of
\* another directory.
CacheIsHonest ==
    /\ \A id \in CIds, ext \in Exts :
          (\A x \in CIds : Safe[x] = Safe[id] => x = id) =>
              IF <<id, ext>> \in DOMAIN held THEN loadEntry(id, ext) = {held[<<id, ext>>]}
              ELSE /\ loadEntry(id, ext) \subseteq {Miss, Torn}
                   /\ Torn \in loadEntry(id, ext) => faults /\ ext \in {"meta", "ldr"}
    /\ ~faults => cacheEntryCount = Cardinality(DOMAIN files) /\ cached = DOMAIN ldr
    /\ insp.open => "manifest" \in Dirs[insp.dir].has /\ \A part \in Dirs[insp.dir].has : <<insp.dir, part>> \in metadata
    /\ \A x \in metadata : x[1] = insp.dir

\* (Not a property of the code.)  A loader is read back whole or not at all.
NoTornLoader == \A id \in CIds : Torn \notin loadEntry(id, "ldr") /\ loadCached(id) # Torn

\* (Not a property of the code.)  What one id cached no other id reads.
NamesApart == \A id \in CIds, ext \in Exts : hasEntry(id, ext) /\ ~faults => <<id, ext>> \in DOMAIN held

=============================================================================
