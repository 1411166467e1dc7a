------------------------------- MODULE Config -------------------------------
(* ConfigManager: nine sections of typed options, four lists, free options,  *)
(* and the JSON file they are saved to and loaded from.  And SafeParser.hpp: *)
(* texts, by what the parsers of the project tell apart in them.             *)
EXTENDS Integers, Sequences, TLC

CONSTANTS
    UINT32_MAX,     \* the largest value fromCharsUint32() takes
    Settings,       \* the changes made: of the options and lists of a section
    CustomSettings, \* the free options set, each a key and its text
    SaveSources,    \* the sources a caller of save() gives
    Docs,           \* the documents imported
    ConfigPaths,    \* the files
    MaxConfigOps    \* bound on the operations of a behaviour

VARIABLES
    cman,           \* the ConfigManager: config, configPath, configPathSet, the last call and its result
    cdisk,          \* every file: absent, whole or torn, and what save() meant to write
    cops            \* operations so far

cvars == <<cman, cdisk, cops>>

\* A text is a number in base 10 or 16, hex digits of bytes, or a name; esc
\* counts how often its special characters have been escaped.
Text(k, n, s) == [k |-> k, n |-> n, s |-> s, esc |-> 0]
Num(n) == Text("num", n, "")
Str(s) == Text("str", 0, s)
Digits(n, s) == Text("hex", n, s)

\* fromCharsUint64() takes both bases; a value past 32 bits is no value.
fromCharsUint32(x) ==
    IF x.k = "num" /\ x.n <= UINT32_MAX THEN [ok |-> TRUE, value |-> x.n] ELSE [ok |-> FALSE, value |-> 0]

Bool(b) == Text("bool", IF b THEN 1 ELSE 0, "")

\* The options of the sections with their types and defaults.
Defaults == [
    runtime |-> [threadPoolSize |-> Num(4), operationTimeoutMs |-> Num(30000), enableLogging |-> Bool(TRUE),
        enableTelemetry |-> Bool(FALSE), enableProfiling |-> Bool(FALSE), logLevel |-> Str("info"), tempDirectory |-> Str("tmp")],
    transport |-> [usbTimeoutMs |-> Num(5000), serialTimeoutMs |-> Num(5000), tcpTimeoutMs |-> Num(10000), maxRetries |-> Num(3),
        enableKeepAlive |-> Bool(TRUE), keepAliveIntervalMs |-> Num(1000), bufferSize |-> Num(65536)],
    workflow |-> [maxRetries |-> Num(3), retryDelayMs |-> Num(1000), enableRollback |-> Bool(TRUE),
        enableCheckpoints |-> Bool(TRUE), enableValidation |-> Bool(TRUE), maxParallelStages |-> Num(4)],
    job |-> [maxRetries |-> Num(3), retryDelayMs |-> Num(1000), maxParallel |-> Num(4), enableRecovery |-> Bool(TRUE),
        enableHistory |-> Bool(TRUE), historyLimit |-> Num(1000)],
    dsp |-> [enableVerification |-> Bool(TRUE), enableCaching |-> Bool(TRUE), cacheSizeMb |-> Num(256), repositoryPath |-> Str("dsp")],
    plugin |-> [enableVerification |-> Bool(TRUE), enableHotReload |-> Bool(FALSE), maxPlugins |-> Num(100)],
    vendor |-> [enableAutoDetect |-> Bool(TRUE)],
    gui |-> [enableAnimations |-> Bool(TRUE), enableTrayIcon |-> Bool(TRUE), theme |-> Str("dark"), language |-> Str("auto"),
        windowWidth |-> Num(1280), windowHeight |-> Num(720), maximizeOnStart |-> Bool(FALSE)],
    cli |-> [enableColor |-> Bool(TRUE), enableProgress |-> Bool(TRUE), outputFormat |-> Str("text"), verbosity |-> Num(1)]]

\* The lists, and the vendors' options, belong to three of the sections.
NoLists == [trustedVendors |-> <<>>, pluginPaths |-> <<>>, blacklist |-> <<>>, preferredVendors |-> <<>>, vendorOptions |-> <<>>]

ListsOf(s) ==
    CASE s = "dsp" -> {"trustedVendors"} [] s = "plugin" -> {"pluginPaths", "blacklist"}
      [] s = "vendor" -> {"preferredVendors", "vendorOptions"} [] OTHER -> {}

ASSUME SettingsAssumption ==
    \A x \in Settings : DOMAIN x.o \subseteq DOMAIN Defaults[x.s] /\ DOMAIN x.l \subseteq ListsOf(x.s)

NoManager == [op |-> "none"]

DefaultConfig == [sec |-> Defaults, lists |-> NoLists, source |-> "default", custom |-> <<>>]

------------------------------------------------------------------------------
(* JSON.  A value is its text, or, where the code asks for an object or an   *)
(* array, whether it is one and what it holds; a document may not name its   *)
(* source.                                                                   *)

Obj(f) == [obj |-> TRUE, f |-> f]
Arr(items) == [arr |-> TRUE, items |-> items]
NoObj == [obj |-> FALSE, f |-> <<>>]
NoArr == [arr |-> FALSE, items |-> <<>>]

\* The text of a JSON value: what is no string is dumped.
dump(v) == IF v.k = "bool" THEN Str(IF v.n = 1 THEN "true" ELSE "false") ELSE v

\* setValueFromJson(), by the type of the option.
setValueFromJson(section, key, old, text) ==
    LET type == Defaults[section][key].k
        r    == fromCharsUint32(text)
    IN  CASE type = "num"  -> IF r.ok THEN Num(r.value) ELSE old
          [] type = "bool" -> Bool(text = Str("true"))
          [] type = "str"  -> text

Given(doc, s, k) == s \in DOMAIN doc.sec /\ doc.sec[s].obj /\ k \in DOMAIN doc.sec[s].f

\* Mutant: an option that is not in the document falls back to its default.
ReadFromDefaults(doc, base) ==
    [s \in DOMAIN Defaults |-> [k \in DOMAIN Defaults[s] |->
        IF Given(doc, s, k) THEN setValueFromJson(s, k, base.sec[s][k], dump(doc.sec[s].f[k])) ELSE Defaults[s][k]]]

\* The sections of a document: a section that is no object is passed over, a
\* key that is no option too.
ReadSections(doc, base) ==
    [s \in DOMAIN Defaults |-> [k \in DOMAIN Defaults[s] |->
        IF Given(doc, s, k) THEN setValueFromJson(s, k, base.sec[s][k], dump(doc.sec[s].f[k])) ELSE base.sec[s][k]]]

\* The lists are looked for at the top of the document, and appended; an item
\* that is no string is left out.  The vendors' options are not looked for.
ReadLists(doc, base) ==
    [l \in DOMAIN NoLists |->
        base.lists[l] \o (IF l \in DOMAIN doc.top /\ l # "vendorOptions" /\ doc.top[l].arr
                          THEN SelectSeq(doc.top[l].items, LAMBDA v : v.k = "str") ELSE <<>>)]

ReadSource(doc, base) ==
    IF doc.source = <<>> THEN base.source
    ELSE IF doc.source[1].s \in {"file", "environment", "api", "cli"} THEN doc.source[1].s ELSE "default"

ReadCustom(doc, base) == IF doc.custom.obj THEN [k \in DOMAIN doc.custom.f |-> dump(doc.custom.f[k])] @@ base.custom ELSE base.custom

\* parseConfigFromJson(): a source that is no string throws, uncaught.
parseConfigFromJson(doc, base) ==
    IF ~doc.ok THEN [res |-> "InvalidArgument", config |-> base]
    ELSE IF doc.source # <<>> /\ doc.source[1].k # "str" THEN [res |-> "throws", config |-> base]
    ELSE [res |-> "ok",
          config |-> [sec |-> ReadSections(doc, base), lists |-> ReadLists(doc, base), source |-> ReadSource(doc, base),
                      custom |-> ReadCustom(doc, base)]]

\* A text that is not UTF-8, which a JSON document cannot hold.
NotUtf8 == Str("not utf-8")

Dumpable(c) ==
    /\ \A s \in DOMAIN c.sec : \A k \in DOMAIN c.sec[s] : c.sec[s][k] # NotUtf8
    /\ \A l \in DOMAIN c.lists : \A i \in DOMAIN c.lists[l] : c.lists[l][i] # NotUtf8
    /\ \A k \in DOMAIN c.custom : c.custom[k] # NotUtf8

\* exportJson(): the lists go into the sections, as keys that are no options,
\* and so do the vendors' options; what dump() throws is Unknown.
exportJson(c) ==
    [res |-> IF Dumpable(c) THEN "ok" ELSE "Unknown",
     doc |-> [ok |-> TRUE, top |-> <<>>, source |-> <<Str(c.source)>>, custom |-> Obj(c.custom),
              sec |-> [s \in DOMAIN c.sec |-> Obj(c.sec[s] @@ [l \in {x \in ListsOf(s) : c.lists[x] # <<>>} |-> Str("array")])]]]

NonZero == {<<"runtime", "threadPoolSize">>, <<"runtime", "operationTimeoutMs">>, <<"transport", "usbTimeoutMs">>,
            <<"transport", "serialTimeoutMs">>, <<"transport", "tcpTimeoutMs">>, <<"transport", "maxRetries">>,
            <<"transport", "bufferSize">>, <<"workflow", "maxRetries">>, <<"workflow", "retryDelayMs">>,
            <<"workflow", "maxParallelStages">>, <<"job", "maxRetries">>, <<"job", "retryDelayMs">>, <<"job", "maxParallel">>,
            <<"job", "historyLimit">>, <<"dsp", "cacheSizeMb">>, <<"plugin", "maxPlugins">>, <<"gui", "windowWidth">>,
            <<"gui", "windowHeight">>}

validateConfig(c) ==
    /\ \A x \in NonZero : c.sec[x[1]][x[2]].n # 0
    /\ c.sec.dsp.repositoryPath # Str("") /\ c.sec.cli.outputFormat # Str("")

Raise(c, s, k, low, to) == IF c.sec[s][k].n < low THEN [c EXCEPT !.sec[s][k] = Num(to)] ELSE c

migrateConfig(c, from, to) ==
    LET one == IF from < 1 /\ to >= 1 THEN Raise(Raise(c, "runtime", "threadPoolSize", 2, 4), "transport", "maxRetries", 1, 3) ELSE c
    IN  IF from < 2 /\ to >= 2 THEN Raise(Raise(one, "job", "historyLimit", 1, 1000), "workflow", "maxParallelStages", 1, 4) ELSE one

------------------------------------------------------------------------------
Calls == cops < MaxConfigOps /\ cops' = cops + 1

Did(op, res, c, out) ==
    Calls /\ cman' = [cman EXCEPT !.config = c, !.before = cman.config, !.op = op, !.res = res, !.out = out]

Here == cman.config

\* A section got from the manager, edited, and put back.
Edited(c, x) == [c EXCEPT !.sec[x.s] = x.o @@ @, !.lists = x.l @@ @]

\* The nine set...Config() calls.
setConfig == UNCHANGED cdisk /\ \E x \in Settings : Did("set", "ok", Edited(Here, x), Here)

setCustomOption ==
    UNCHANGED cdisk /\ \E x \in CustomSettings : Did("set", "ok", [Here EXCEPT !.custom = (x.k :> x.v) @@ @], Here)

setConfigPath ==
    /\ Calls /\ UNCHANGED cdisk
    /\ \E p \in ConfigPaths : cman' = [cman EXCEPT !.path = p, !.pathSet = TRUE, !.op = "path"]

\* save(): the manager takes the configuration before it looks at the path and
\* the file; opening the file empties it, and what becomes of the write is
\* not asked.
save ==
    \E x \in Settings, src \in SaveSources :
        LET c == [Edited(Here, x) EXCEPT !.source = src]
            json == exportJson(c)
        IN  \/ ~cman.pathSet /\ Did("save", "ok", c, c) /\ UNCHANGED cdisk
            \/ cman.pathSet /\ json.res # "ok" /\ Did("save", json.res, c, c) /\ UNCHANGED cdisk
            \/ cman.pathSet /\ json.res = "ok" /\ Did("save", "InvalidArgument", c, c) /\ UNCHANGED cdisk
            \/ /\ cman.pathSet /\ json.res = "ok" /\ Did("save", "ok", c, c)
               /\ \E state \in {"whole", "torn"} : cdisk' = [cdisk EXCEPT ![cman.path] = [state |-> state, doc |-> json.doc, saved |-> c]]

FileAbsent == [state |-> "none"]

\* load() changes nothing in the manager; without a path, or when the file
\* does not open, it returns what the manager has.
load ==
    /\ UNCHANGED cdisk
    /\ \/ Did("load", "own", Here, Here)
       \/ /\ cman.pathSet /\ cdisk[cman.path] # FileAbsent
          /\ LET f == cdisk[cman.path]
                 r == parseConfigFromJson([f.doc EXCEPT !.ok = f.state = "whole"], Here)
             IN  Did("load", r.res, Here, r.config)

importJson ==
    /\ UNCHANGED cdisk
    /\ \E doc \in Docs : LET r == parseConfigFromJson(doc, Here) IN Did("import", r.res, r.config, doc)

migrate ==
    /\ UNCHANGED cdisk
    /\ \E from, to \in 0..2 : Did("migrate", "ok", Here, migrateConfig(Here, from, to))

NewManager == [config |-> DefaultConfig, before |-> DefaultConfig, path |-> "", pathSet |-> FALSE, op |-> "new", res |-> "ok", out |-> DefaultConfig]

\* The program ends and is started again: the files stay.
Restart == Calls /\ UNCHANGED cdisk /\ cman' = NewManager

\* The constructor.
Create == cman = NoManager /\ cman' = NewManager /\ UNCHANGED <<cops, cdisk>>

CInit == cman = NoManager /\ cdisk = [p \in ConfigPaths |-> FileAbsent] /\ cops = 0

CNext ==
    \/ Create
    \/ cman # NoManager /\ (setConfig \/ setCustomOption \/ setConfigPath \/ save \/ load \/ importJson \/ migrate \/ Restart)

------------------------------------------------------------------------------
(* Correctness.                                                              *)

Loaded == cman.op = "load" /\ cman.res = "ok"
Saved == cdisk[cman.path].saved

\* What save() put whole into a file is what any later load() from that path
\* returns, whatever was set, imported or saved elsewhere in between, after a
\* restart too: every option, the source and the free options.  No document
\* save() has written makes load() throw.
LoadReturnsSaved ==
    /\ cman.op = "load" => cman.res # "throws"
    /\ Loaded =>
          /\ cman.out.sec = Saved.sec /\ cman.out.source = Saved.source
          /\ \A k \in DOMAIN Saved.custom : cman.out.custom[k] = Saved.custom[k]

\* A document that does not parse, or whose source throws, changes nothing;
\* one that does changes the options it names and no other, and never an
\* option's type.
ImportIsExact ==
    cman.op = "import" =>
        /\ cman.res # "ok" => Here = cman.before
        /\ \A s \in DOMAIN Defaults : \A k \in DOMAIN Defaults[s] :
              /\ Here.sec[s][k] # cman.before.sec[s][k] => Given(cman.out, s, k)
              /\ Defaults[s][k].k # "str" => Here.sec[s][k].k = Defaults[s][k].k

\* A migration leaves a valid configuration valid, and changes nothing of it
\* but the size of the thread pool.
MigrationKeepsValid ==
    cman.op = "migrate" /\ validateConfig(cman.before) =>
        /\ validateConfig(cman.out)
        /\ cman.out = [cman.before EXCEPT !.sec.runtime.threadPoolSize = cman.out.sec.runtime.threadPoolSize]

ConfigIsExact == LoadReturnsSaved /\ ImportIsExact /\ MigrationKeepsValid

\* What the code does not keep: the lists do not come back, a save that
\* reports success may have left half a file, and one that reports failure has
\* changed the manager.
ListsSurvive == Loaded /\ cman.before.lists = NoLists => cman.out.lists = Saved.lists
SavedIsOnDisk == cman.op = "save" /\ cman.res = "ok" /\ cman.pathSet => cdisk[cman.path].state = "whole"
FailedSaveIsNone == cman.op = "save" /\ cman.res # "ok" => Here = cman.before
=============================================================================
