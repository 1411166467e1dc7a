---------------------------- MODULE PluginManager ----------------------------
(***************************************************************************)
(* Plugins: PluginManager (plugin/PluginManager.cpp).  Every public call   *)
(* holds m_mutex throughout, so it is one step.  What a plugin does in its *)
(* own calls is external: it may fail where it is asked to.                *)
(***************************************************************************)
EXTENDS Integers, Sequences, FiniteSets, FiniteSetsExt, SequencesExt, Functions

CONSTANTS
    Offers,   \* plugins that may be loaded: [name, ver, compat, deps, file];
              \* a dependency is [name, min, max, optional]
    Failures, \* calls of a plugin that may fail: "register", "init", "shutdown", "unregister"
    MaxStuck  \* bound on the plugins left stuck before "unregister" fails no more

\* PluginState, an ordered enumeration.
Loaded      == 1
Initialized == 2
Enabled     == 3
Disabled    == 4
Error       == 5

VARIABLES
    plugins,     \* m_plugins: name -> [of, state, enabled]
    registered,  \* plugins whose components are in the protocol registry
    live,        \* plugins that were initialized and not shut down since
    stuck,       \* history: plugins whose components could not be taken out of the registry, nor since
    unsound      \* history: a plugin was used or deleted after its library had been closed

pvars == <<plugins, registered, live, stuck, unsound>>

PInit == plugins = <<>> /\ registered = {} /\ live = {} /\ stuck = {} /\ unsound = FALSE

Listed    == DOMAIN plugins

\* What may fail when a plugin is initialized, shut down and taken out of the registry: the
\* set of its calls that return an error.
MayFailNow == IF Cardinality(stuck) < MaxStuck THEN Failures ELSE Failures \ {"unregister"}
Starts == {S \in {{}, {"register"}, {"init"}, {"init", "unregister"}} : S \subseteq MayFailNow}
Stops  == {S \in {{}, {"shutdown"}, {"unregister"}} : S \subseteq MayFailNow}
Outs   == {S \in {{}, {"unregister"}} : S \subseteq MayFailNow}

\* findProtocolPlugin, findVendorPlugin, listPlugins, listPluginsByState, listEnabledPlugins.
listByState(st) == {n \in Listed : plugins[n].state = st}
listEnabled     == {n \in Listed : plugins[n].enabled}

------------------------------------------------------------------------------
(* Loading                                                                 *)

isCompatible(o) == o.compat \in 1..2

Deps(ps, n) == {d.name : d \in ps[n].of.deps} \cap DOMAIN ps

\* hasCircularDependencyLocked: a path from n that meets one of its own plugins again.
Circular(ps, n) ==
    LET grow(S) == S \cup UNION {Deps(ps, m) : m \in S}
        reach[k \in 0..Cardinality(DOMAIN ps)] == IF k = 0 THEN {n} ELSE grow(reach[k - 1])
        all == reach[Cardinality(DOMAIN ps)]
        below(m) == LET r[k \in 0..Cardinality(DOMAIN ps)] == IF k = 0 THEN Deps(ps, m) ELSE grow(r[k - 1])
                    IN r[Cardinality(DOMAIN ps)]
    IN \E m \in all : m \in below(m)

\* resolveDependenciesLocked: no cycle, no plugin missing, every version in its bounds.
resolveDependencies(ps, n) ==
    /\ ~ Circular(ps, n)
    /\ \A d \in ps[n].of.deps :
          IF d.name \in DOMAIN ps THEN ps[d.name].of.ver \in d.min .. d.max ELSE d.optional

\* loadLocked: entered into the map first, taken out again if its dependencies fail.
loadLocked(ps, o, on) ==
    LET new == [m \in DOMAIN ps \cup {o.name} |->
                  IF m = o.name THEN [of |-> o, state |-> Loaded, enabled |-> on] ELSE ps[m]]
    IN IF o.name \notin DOMAIN ps /\ isCompatible(o) /\ resolveDependencies(new, o.name) THEN new ELSE ps

loadPlugin ==
    /\ \E o \in Offers, on \in BOOLEAN : ~ o.file /\ plugins' = loadLocked(plugins, o, on)
    /\ UNCHANGED <<registered, live, stuck, unsound>>

\* loadFromFile: the same, but a plugin whose dependencies fail is deleted after its
\* library has been closed.
loadFromFile ==
    \E o \in Offers :
        /\ o.file /\ plugins' = loadLocked(plugins, o, TRUE)
        /\ unsound' = (unsound \/ (isCompatible(o) /\ o.name \notin DOMAIN plugins'))
        /\ UNCHANGED <<registered, live, stuck>>

\* loadAll stops at the first plugin that fails; loadAllFromDirectory goes on.
loadAll ==
    \E os \in SetToSeqs({o \in Offers : ~ o.file}) :
        LET ps[i \in 0..Len(os)] == IF i = 0 THEN plugins
                                    ELSE IF \E j \in 1..(i - 1) : os[j].name \notin DOMAIN ps[j] \/ ps[j] = ps[j - 1]
                                         THEN ps[i - 1] ELSE loadLocked(ps[i - 1], os[i], TRUE)
        IN plugins' = ps[Len(os)] /\ UNCHANGED <<registered, live, stuck, unsound>>

loadAllFromDirectory ==
    \E os \in SetToSeqs({o \in Offers : o.file}) :
        /\ plugins' = FoldLeft(LAMBDA ps, o : loadLocked(ps, o, TRUE), plugins, os)
        /\ unsound' = (unsound \/ \E o \in Offers : o.file /\ isCompatible(o) /\ o.name \notin DOMAIN plugins')
        /\ UNCHANGED <<registered, live, stuck>>

------------------------------------------------------------------------------
(* Life cycle of one plugin.  A world is what the calls below change.      *)

World == [ps |-> plugins, reg |-> registered, live |-> live, stuck |-> stuck]
Become(w) ==
    plugins' = w.ps /\ registered' = w.reg /\ live' = w.live /\ stuck' = w.stuck

SetState(w, n, st) == [w EXCEPT !.ps[n].state = st]

\* unregisterPluginComponents: its error is ignored everywhere but in unload().
unregister(w, n, fails) ==
    IF "unregister" \notin fails THEN [w EXCEPT !.reg = @ \ {n}, !.stuck = @ \ {n}]
    ELSE [w EXCEPT !.stuck = @ \cup (w.reg \cap {n})]

\* initializeLocked: Error is above Initialized, so a plugin that failed counts as initialized.
initializeLocked(w, n, fails) ==
    LET in == [w EXCEPT !.reg = @ \cup {n}]
    IN  IF w.ps[n].state >= Initialized THEN w
        ELSE IF "register" \in fails THEN SetState(w, n, Error)
        ELSE IF "init" \in fails THEN SetState(unregister(in, n, fails), n, Error)
        ELSE SetState([in EXCEPT !.live = @ \cup {n}], n, IF w.ps[n].enabled THEN Enabled ELSE Initialized)

\* shutdownLocked: a plugin that cannot be shut down keeps its components.
shutdownLocked(w, n, fails) ==
    IF w.ps[n].state < Initialized THEN w
    ELSE IF "shutdown" \in fails THEN SetState(w, n, Error)
    ELSE SetState([unregister(w, n, fails) EXCEPT !.live = @ \ {n}], n, Loaded)

initializePlugin ==
    /\ \E n \in Listed, fails \in Starts : Become(initializeLocked(World, n, fails))
    /\ UNCHANGED unsound

shutdownPlugin ==
    /\ \E n \in Listed, fails \in Stops : Become(shutdownLocked(World, n, fails))
    /\ UNCHANGED unsound

\* initializeAll: the plugins in state Loaded, in the order of a hash map, up to the first
\* that fails.
initializeAll ==
    \E done \in SUBSET listByState(Loaded) :
        LET ok == FoldSet(LAMBDA n, w : initializeLocked(w, n, {}), World, done)
        IN  /\ \/ done = listByState(Loaded) /\ Become(ok)
               \/ \E n \in listByState(Loaded) \ done, fails \in Starts \ {{}} : Become(initializeLocked(ok, n, fails))
            /\ UNCHANGED unsound

\* shutdownAll: all of them, whichever cannot be shut down or taken out of the registry.
shutdownAll ==
    \E fails \in [{n \in Listed : plugins[n].state >= Initialized} -> Stops] :
        /\ Become(FoldSet(LAMBDA n, w : shutdownLocked(w, n, fails[n]), World, DOMAIN fails))
        /\ UNCHANGED unsound

\* enable() and disable() set the state of anything above Loaded, a failed plugin too.
switch ==
    /\ \E n \in Listed, on \in BOOLEAN :
          plugins' = [plugins EXCEPT ![n].enabled = on,
                                     ![n].state = IF @ >= Initialized THEN (IF on THEN Enabled ELSE Disabled) ELSE @]
    /\ UNCHANGED <<registered, live, stuck, unsound>>

\* unload: shut down first; it stays if that fails, or taking its components out (again).
unload ==
    \E n \in Listed, fails \in Stops, out \in Outs :
        LET down == shutdownLocked(World, n, fails)
            gone == unregister(down, n, out)
        IN  /\ Become(IF plugins[n].state >= Initialized /\ "shutdown" \in fails THEN down
                      ELSE IF out # {} THEN gone
                      ELSE [gone EXCEPT !.ps = Restrict(@, Listed \ {n}), !.live = @ \ {n}])
            /\ UNCHANGED unsound

\* reload: out of the map (the library goes with the entry) and in again, without a shutdown.
Reloaded(w, n, fails) ==
    LET o   == plugins[n].of
        new == [w EXCEPT !.ps = loadLocked(Restrict(plugins, Listed \ {n}), o, plugins[n].enabled)]
    IN  /\ Become(IF n \in DOMAIN new.ps THEN initializeLocked(new, n, fails) ELSE [new EXCEPT !.live = @ \ {n}])
        /\ unsound' = (unsound \/ o.file)

\* Mutant: the components stay in the registry.
reloadKeeping(n) == \E fails \in Starts : Reloaded(World, n, fails)

reload(n) == \E fails \in Starts, out \in Outs : Reloaded(unregister(World, n, out), n, fails)

\* A call into code that is no longer mapped ends the process.
PNext ==
    /\ ~ unsound
    /\ \/ loadPlugin \/ loadFromFile \/ loadAll \/ loadAllFromDirectory
       \/ initializePlugin \/ shutdownPlugin \/ initializeAll \/ shutdownAll \/ switch \/ unload
       \/ \E n \in Listed : reload(n)

------------------------------------------------------------------------------
\* Whatever was loaded, failed, reloaded and unloaded: the loaded plugins have no cyclic
\* dependency; and the registry holds components only of plugins the manager still owns and
\* never those of one that is merely loaded (loadLocked, unload, reload), except those whose
\* removal from the registry reported an error and was not repeated with success.
PluginsAreSound ==
    /\ \A n \in Listed : ~ Circular(plugins, n)
    /\ registered \subseteq (Listed \ listByState(Loaded)) \cup stuck

\* Components leave the registry with their plugin.  It fails: initializeLocked(),
\* shutdownLocked() and reload() ignore the error of unregisterPluginComponents().
ComponentsGo == registered \subseteq Listed \ listByState(Loaded)

\* An enabled plugin has been initialized.  It fails: enable() revives a plugin that failed.
EnabledIsLive == \A n \in Listed : plugins[n].state \in {Initialized, Enabled} => n \in live

\* A plugin is initialized once.  It fails: reload() does not shut it down.
InitializedOnce ==
    [][\A n \in live : reload(n) => n \notin DOMAIN plugins' \/ plugins'[n].state = Error]_pvars

\* Its dependencies stay with a loaded plugin.  It fails: unload() does not look.
DependenciesStay ==
    \A n \in Listed : \A d \in plugins[n].of.deps : d.optional \/ d.name \in Listed

\* No plugin outlives its library.  It fails on a failed dependency and on reload().
LibraryOutlives == ~ unsound
=============================================================================
