------------------------------ MODULE MCImages ------------------------------
(* Sectors, ELF programmers, firmware packages and the loader framework side *)
(* by side: one of them moves in a behaviour.                                *)
EXTENDS SectorMapping, ElfImage, Firmware, LoaderFramework, Packets, Config, RuntimeBridge, ScaffoldProtocol

\* ELF files with two segments at every distance, of either class and byte
\* order, and files with one field out of order.
Seg(type, fl, off, va, fs, ms) ==
    [type |-> type, flags |-> fl, offset |-> off, vaddr |-> va, paddr |-> va, filesz |-> fs, memsz |-> ms, align |-> 1]

Sect(type, idx, size) ==
    [nameIdx |-> idx, type |-> type, flags |-> 0, addr |-> 0, offset |-> 250, size |-> size, link |-> 0, info |-> 0,
     addralign |-> 1, entsize |-> 0]

MCSegs ==
    {Seg("Load", {"R", "X"}, o, v, fs, ms) : o \in {250, 252}, v \in {10, 11, 13}, fs \in 0..2, ms \in 0..3}
        \cup {Seg("Note", {"R"}, 250, 11, 1, 1), Seg("Load", {"R"}, 253, 1022, 1, 3), Seg("Load", {"R"}, 259, 12, 2, 2)}

File(cls, endian, segs) ==
    [magic |-> TRUE, cls |-> cls, endian |-> endian, size |-> 260, type |-> 2, machine |-> 40, version |-> 1, elfVersion |-> 1,
     entry |-> 7, phoff |-> 64, shoff |-> 190, flags |-> 3, ehsize |-> 64, phentsize |-> 56, phnum |-> Len(segs),
     shentsize |-> 64, shnum |-> 1, shstrndx |-> 0, segs |-> segs, sects |-> <<Sect("StrTab", 2, 5)>>]

Base == File(2, 1, <<Seg("Load", {"R", "X"}, 250, 10, 2, 3)>>)

MCElfFiles ==
    {File(c, 1, <<a, b>>) : c \in {2}, a \in MCSegs, b \in MCSegs}
        \cup {File(1, 2, <<a>>) : a \in MCSegs}
        \cup {[File(c, e, Base.segs) EXCEPT !.machine = m, !.elfVersion = v] :
                 c \in 0..3, e \in 0..3, m \in {0, 40}, v \in 0..1}
        \cup {[Base EXCEPT !.magic = FALSE], [Base EXCEPT !.size = 40], [Base EXCEPT !.size = 60],
              [Base EXCEPT !.phoff = 60], [Base EXCEPT !.phoff = 0], [Base EXCEPT !.phoff = 230], [Base EXCEPT !.phoff = 1010],
              [Base EXCEPT !.phentsize = 40], [Base EXCEPT !.shentsize = 40], [Base EXCEPT !.shoff = 250],
              [Base EXCEPT !.shstrndx = 4], [Base EXCEPT !.phnum = 0]}

\* Packages: directories with two entries that share names, partitions and
\* files in every way, the generator's templates, and hand-made ones.
Entry(n, p, f, t) == [name |-> n, part |-> p, file |-> f, type |-> t]

MCEntries == {Entry("boot", "", "", "Boot"), Entry("boot", "boot_b", "b.img", "Boot"), Entry("sys", "boot", "b.img", "System"),
              Entry("gpt", "", "", "GPT"), Entry("", "", "b.img", "Custom")}

MCFolders ==
    {[manifest |-> m, vendor |-> v, platform |-> "P", protocol |-> pr, entries |-> es,
      files |-> [x \in {"boot.bin", "b.img", "gpt.bin"} |-> IF x = "gpt.bin" THEN "c3" ELSE IF x = "b.img" THEN "c2" ELSE c]] :
        m \in BOOLEAN, v \in {"qualcomm", "any"}, pr \in {"", "sahara"}, c \in {"c1", ""},
        es \in {<<a, b>> : a \in MCEntries, b \in MCEntries} \cup {<<Entry("gpt", "", "", "GPT"), Entry("boot", "", "", "Boot"), Entry("sys", "", "b.img", "System")>>}}

Tmpl == [programmer |-> TRUE, gpt |-> TRUE, imageCount |-> 2, missing |-> {}, duplicate |-> "", corrupt |-> FALSE,
         badHashes |-> FALSE, badVendor |-> FALSE, badProtocol |-> FALSE, deps |-> <<>>]

MCTemplates == {Tmpl, [Tmpl EXCEPT !.gpt = FALSE], [Tmpl EXCEPT !.missing = {"prog", "boot"}], [Tmpl EXCEPT !.duplicate = "boot"],
                [Tmpl EXCEPT !.corrupt = TRUE], [Tmpl EXCEPT !.badHashes = TRUE], [Tmpl EXCEPT !.badVendor = TRUE],
                [Tmpl EXCEPT !.badProtocol = TRUE], [Tmpl EXCEPT !.imageCount = 0],
                [Tmpl EXCEPT !.deps = <<[required |-> TRUE, resolved |-> FALSE]>>]}

Img(n, p, d) == [name |-> n, part |-> p, type |-> "Custom", file |-> "f", data |-> d, hash |-> ""]

MCHandMade == {[vendor |-> "GENERIC", platform |-> "P", protocol |-> "ANY", deps |-> <<>>,
                images |-> <<Img("boot", "", "c1"), Img("x", "boot", d)>>] : d \in {"", "c2"}}

MCDeviceSpecs == {[vendor |-> "QUALCOMM", protocol |-> "SAHARA"], [vendor |-> "UNKNOWN", protocol |-> "UNKNOWN"]}

MCUpperOf == [qualcomm |-> "QUALCOMM", any |-> "ANY", sahara |-> "SAHARA", raw |-> "RAW", unknown_protocol |-> "UNKNOWN_PROTOCOL"]

\* Four loaders that differ in vendor, chipset, chip and key.
Ld(n, v, c, p, m, k, h) == [name |-> n, vendor |-> v, chipset |-> c, protocol |-> p, storage |-> "ufs", msm |-> m, pk |-> k, size |-> 1, hash |-> h]
MCLoaders == {Ld("a", "q", "c1", "sahara", 1, "k1", ""), Ld("b", "q", "c1", "sahara", 1, "", "h"),
              Ld("c", "q", "c2", "firehose", 2, "k1", ""), Ld("d", "m", "c1", "sahara", 1, "k2", "h")}
Q(v, c) == [vendor |-> v, chipset |-> c, protocol |-> "", storage |-> ""]
MCQueries == {Q("", ""), Q("q", ""), Q("", "c1")}
MCDevices == {[msm |-> 0, pk |-> "k1"], [msm |-> 1, pk |-> "k1"], [msm |-> 1, pk |-> ""]}
MCCriteria == {[vendor |-> v, protocol |-> "", chipset |-> c] : v \in {"", "q"}, c \in {"", "c1"}}

\* Every packet once with fields that differ and once with zeroes, the chip
\* id in both versions; commands with every field set, and with texts that are
\* empty or need escaping; answers flat, with children and nested too deep.
MCPackets ==
    {SaharaPacket(c, [i \in DOMAIN Params[c] |-> z * (10 + i)]) : c \in 1..19 \ {10}, z \in 0..1}
        \cup {SaharaPacket(10, <<1, 2, 3, 4, 5, 6>>), SaharaPacket(10, <<1, 2, 0, 0, 0, 0>>), ForeignPacket(0), ForeignPacket(20),
              SaharaPacket(10, <<1, 2, 0, 0, 0, 6>>), setV3(SaharaPacket(10, <<1, 2, 0, 0, 0, 0>>), TRUE)}

FieldsOfCommand(name) == {Attributes[name][i][2] : i \in DOMAIN Attributes[name]}
Filled(name, s, n) ==
    [x \in FieldsOfCommand(name) |-> CASE Default(name, x).k = "num" -> Num(n) [] Default(name, x).k = "str" -> Str(s)
                                       [] Default(name, x).k = "hex" -> IF n = 0 THEN Digits(0, "") ELSE Digits(4, "b")]
MCFirehoseFields ==
    [name \in DOMAIN Attributes |-> {Filled(name, s, n) : s \in {"", "a", "'q'"}, n \in {0, 2, 4, UINT32_MAX - 1}}]

Elem(name, attrs, kids, text) == [name |-> name, attributes |-> attrs, children |-> kids, content |-> text]
Resp(v) == Elem("response", <<<<"value", Str(v)>>, <<"raw_mode", Str("true")>>, <<"description", Str("why")>>>>, <<>>, Str(""))
MCXmlDocs ==
    {Resp("ACK"), Resp("NAK"), Resp(""), Elem("poke", <<<<"data", Digits(3, "b")>>, <<"size", Num(UINT32_MAX + 1)>>>>, <<>>, Str("")),
     Elem("data", <<>>, <<Resp("ACK"), Resp("NAK")>>, Str("")), Elem("log", <<>>, <<>>, Str("t")), Elem("log", <<>>, <<>>, Str(" t ")), Elem("log", <<>>, <<>>, Str(" ")),
     Elem("log", <<<<"note", Str("'q'")>>>>, <<>>, Str("a&b")), Elem("log", <<>>, <<>>, Str("'q'")),
     Elem("data", <<<<"value", Str("ACK")>>>>, <<Elem("log", <<>>, <<Resp("NAK")>>, Str(""))>>, Str("")),
     Elem("data", <<>>, <<Elem("log", <<>>, <<>>, Str("t")), Resp("ACK")>>, Str("")),
     Elem("a", <<>>, <<Elem("b", <<>>, <<Elem("c", <<>>, <<Elem("d", <<>>, <<Elem("e", <<>>, <<Resp("ACK")>>, Str(""))>>, Str(""))>>, Str(""))>>, Str(""))>>, Str(""))}

\* Options of each type, a list, a free option, a text JSON cannot hold;
\* documents that name some of them, with values of the wrong type, and one
\* that does not parse.
Section(s, o, l) == [s |-> s, o |-> o, l |-> l]
MCSettings ==
    {Section("runtime", [threadPoolSize |-> Num(1)], <<>>), Section("gui", [theme |-> Str("true")], <<>>),
     Section("plugin", [enableHotReload |-> Bool(TRUE)], [blacklist |-> <<Str("p")>>]),
     Section("vendor", <<>>, [vendorOptions |-> <<Str("p")>>, preferredVendors |-> <<NotUtf8>>])}
MCCustomSettings == {[k |-> "a", v |-> Str("x")]}
Doc(sec, top, source, custom) == [ok |-> TRUE, sec |-> sec, top |-> top, source |-> source, custom |-> custom]
MCDocs ==
    {Doc([runtime |-> Obj([threadPoolSize |-> Str("x"), logLevel |-> Num(5), other |-> Num(1)])], <<>>, <<>>, NoObj),
     Doc([plugin |-> Obj([enableHotReload |-> Num(1)]), job |-> NoObj],
         [blacklist |-> Arr(<<Str("q"), Num(1)>>), pluginPaths |-> NoArr], <<Str("api")>>, Obj([a |-> Bool(TRUE)])),
     Doc([job |-> Obj([historyLimit |-> Num(UINT32_MAX + 1)])], <<>>, <<Str("other")>>, NoObj),
     Doc([gui |-> Obj([theme |-> Str("light")])], <<>>, <<Num(1)>>, NoObj),
     [Doc(<<>>, <<>>, <<>>, NoObj) EXCEPT !.ok = FALSE]}

\* Payloads up to and past the size two bytes can tell, codes of one and two.
MCWireMessages == {[code |-> c, payload |-> [i \in 1..n |-> (i * 3) % 16]] : c \in {0, 1, 2, 16, 18, 258}, n \in {0, 1, 2, 5, 255, 256, 258}}

MCInit == WInit /\ BInit /\ CInit /\ PInit /\ Init /\ EInit /\ FInit /\ LInit

MCVars == <<wvars, bvars, cvars, pvars, vars, evars, fvars, lvars>>

ImagesNext ==
    \/ EInit /\ FInit /\ LInit /\ Next /\ UNCHANGED <<evars, fvars, lvars>>
    \/ Init /\ FInit /\ LInit /\ ENext /\ UNCHANGED <<vars, fvars, lvars>>
    \/ Init /\ EInit /\ LInit /\ FNext /\ UNCHANGED <<vars, evars, lvars>>
    \/ /\ Init /\ EInit /\ FInit /\ lput.n = 0 /\ lman = "none"
       /\ RepositoryNext /\ UNCHANGED <<vars, evars, fvars>>
    \/ /\ Init /\ EInit /\ FInit /\ lrepo = {} /\ lfind = Idle
       /\ CacheNext /\ UNCHANGED <<vars, evars, fvars>>

FormatsNext ==
    \/ CInit /\ PInit /\ ImagesNext /\ UNCHANGED <<cvars, pvars>>
    \/ CInit /\ Init /\ EInit /\ FInit /\ LInit /\ PNext /\ UNCHANGED <<cvars, vars, evars, fvars, lvars>>
    \/ PInit /\ Init /\ EInit /\ FInit /\ LInit /\ CNext /\ UNCHANGED <<pvars, vars, evars, fvars, lvars>>

StudioNext ==
    \/ BInit /\ FormatsNext /\ UNCHANGED bvars
    \/ CInit /\ PInit /\ Init /\ EInit /\ FInit /\ LInit /\ BNext /\ UNCHANGED <<cvars, pvars, vars, evars, fvars, lvars>>

MCNext ==
    \/ WInit /\ StudioNext /\ UNCHANGED wvars
    \/ BInit /\ CInit /\ PInit /\ Init /\ EInit /\ FInit /\ LInit /\ WNext /\ UNCHANGED <<bvars, cvars, pvars, vars, evars, fvars, lvars>>

\* What is read from a file is what is in it, or it is refused (programmers,
\* firmware packages and loaders); what is sent is what was meant, and is read
\* back as that (packets, frames and the sectors a range of bytes lies in).
FormatsAreExact ==
    /\ ElfIsExact /\ FirmwareIsExact /\ LoadersAreExact
    /\ PacketsAreExact /\ WireIsExact /\ SectorsAreExact

MCSpec == MCInit /\ [][MCNext]_MCVars
=============================================================================
