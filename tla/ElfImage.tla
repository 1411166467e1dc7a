------------------------------ MODULE ElfImage ------------------------------
(* A programmer's way from an ELF file to the device: ElfParser and          *)
(* ElfInspector read the headers, ElfValidator judges them,                  *)
(* MemoryImageBuilder lays the segments out, VirtualProgrammer sends and     *)
(* starts the image while another thread may cancel.                         *)
EXTENDS Integers, Sequences, FiniteSets, SequencesExt

CONSTANTS
    ElfFiles,    \* the files read: records of the header's fields and tables
    Required,    \* the values of m_requiredFlags tried, sets of "R", "W", "X"
    W64,         \* stands for 2^64
    Chunk,       \* m_transferChunkSize
    ProgFaults,  \* what a VirtualProgrammer can be told to fail in
    MaxCalls     \* bound on the calls of a VirtualProgrammer

ASSUME ElfAssumption == W64 \in Nat /\ Chunk \in Nat \ {0}

VARIABLES
    efile,       \* the file being read
    eparsed,     \* what parse(), validate() and inspect() made of it
    emem,        \* the MemoryImage
    prog         \* the VirtualProgrammer and the threads in it

evars == <<efile, eparsed, emem, prog>>

------------------------------------------------------------------------------
(* Headers.  The layouts are the ELF standard's, field by field with widths; *)
(* the readers fetch by explicit offset, and what they fetch from elsewhere, *)
(* or in the wrong byte order, is Garbage.                                   *)

Garbage == 999

Ehdr(cls) ==
    LET w == IF cls = 2 THEN 8 ELSE 4
    IN  <<<<"ident", 16>>, <<"type", 2>>, <<"machine", 2>>, <<"elfVersion", 4>>, <<"entry", w>>,
          <<"phoff", w>>, <<"shoff", w>>, <<"flags", 4>>, <<"ehsize", 2>>, <<"phentsize", 2>>,
          <<"phnum", 2>>, <<"shentsize", 2>>, <<"shnum", 2>>, <<"shstrndx", 2>>>>

Phdr(cls) ==
    IF cls = 2
    THEN <<<<"type", 4>>, <<"flags", 4>>, <<"offset", 8>>, <<"vaddr", 8>>, <<"paddr", 8>>,
           <<"filesz", 8>>, <<"memsz", 8>>, <<"align", 8>>>>
    ELSE <<<<"type", 4>>, <<"offset", 4>>, <<"vaddr", 4>>, <<"paddr", 4>>, <<"filesz", 4>>,
           <<"memsz", 4>>, <<"flags", 4>>, <<"align", 4>>>>

Shdr(cls) ==
    LET w == IF cls = 2 THEN 8 ELSE 4
    IN  <<<<"nameIdx", 4>>, <<"type", 4>>, <<"flags", w>>, <<"addr", w>>, <<"offset", w>>,
          <<"size", w>>, <<"link", 4>>, <<"info", 4>>, <<"addralign", w>>, <<"entsize", w>>>>

\* The field at every offset, with its width.
FieldsOf(layout) ==
    LET at(j) == FoldLeft(LAMBDA s, x : s + x[2], 0, SubSeq(layout, 1, j - 1))
    IN  {<<at(j), layout[j][2], layout[j][1]>> : j \in 1..Len(layout)}

Fields == [Eh1 |-> FieldsOf(Ehdr(1)), Eh2 |-> FieldsOf(Ehdr(2)), Ph1 |-> FieldsOf(Phdr(1)), Ph2 |-> FieldsOf(Phdr(2)),
           Sh1 |-> FieldsOf(Shdr(1)), Sh2 |-> FieldsOf(Shdr(2))]

\* readU16(), readU32() and readU64(), on a record laid out as layout says.
readU(rec, layout, at, swaps) ==
    LET hit == {x \in Fields[layout] : x[1] = at[1] /\ x[2] = at[2]}
    IN  IF hit # {} /\ swaps THEN rec[(CHOOSE x \in hit : TRUE)[3]] ELSE Garbage

\* The parser swaps the bytes of a big-endian file, the inspector never does;
\* the host is little-endian.
Swaps(f, reader) == reader = "parser" \/ f.endian # 2

\* Of the bytes of e_ident behind the class and the order, the version stands
\* for the three.
NoHeader == [version |-> 0, type |-> 0, machine |-> 0, elfVersion |-> 0, entry |-> 0, phoff |-> 0, shoff |-> 0,
             flags |-> 0, ehsize |-> 0, phentsize |-> 0, phnum |-> 0, shentsize |-> 0, shnum |-> 0,
             shstrndx |-> 0]

\* Where the readers look for a field of the header, and how wide they read.
EhAt(wide) ==
    IF wide
    THEN [type |-> <<16, 2>>, machine |-> <<18, 2>>, elfVersion |-> <<20, 4>>, entry |-> <<24, 8>>,
          phoff |-> <<32, 8>>, shoff |-> <<40, 8>>, flags |-> <<48, 4>>, ehsize |-> <<52, 2>>,
          phentsize |-> <<54, 2>>, phnum |-> <<56, 2>>, shentsize |-> <<58, 2>>, shnum |-> <<60, 2>>,
          shstrndx |-> <<62, 2>>]
    ELSE [type |-> <<16, 2>>, machine |-> <<18, 2>>, elfVersion |-> <<20, 4>>, entry |-> <<24, 4>>,
          phoff |-> <<28, 4>>, shoff |-> <<32, 4>>, flags |-> <<36, 4>>, ehsize |-> <<40, 2>>,
          phentsize |-> <<42, 2>>, phnum |-> <<44, 2>>, shentsize |-> <<46, 2>>, shnum |-> <<48, 2>>,
          shstrndx |-> <<50, 2>>]

fieldsAt(f, reader, at) ==
    [k \in DOMAIN at |-> readU(f, IF f.cls = 2 THEN "Eh2" ELSE "Eh1", at[k], Swaps(f, reader))]

fields(f, reader, wide) == [version |-> f.version] @@ fieldsAt(f, reader, EhAt(wide))

\* Short files, and classes or byte orders that are not given, leave the
\* header's defaults.
readHeader(f) ==
    IF f.size < 52 \/ f.cls = 0 \/ f.endian = 0 THEN NoHeader
    ELSE IF f.cls = 2 /\ f.size >= 64 THEN fields(f, "parser", TRUE)
    ELSE IF f.cls = 1 THEN fields(f, "parser", FALSE)
    ELSE NoHeader

\* readProgramHeader32() and readProgramHeader64().
PhAt(cls) ==
    IF cls = 2
    THEN [type |-> <<0, 4>>, flags |-> <<4, 4>>, offset |-> <<8, 8>>, vaddr |-> <<16, 8>>,
          paddr |-> <<24, 8>>, filesz |-> <<32, 8>>, memsz |-> <<40, 8>>, align |-> <<48, 8>>]
    ELSE [type |-> <<0, 4>>, offset |-> <<4, 4>>, vaddr |-> <<8, 4>>, paddr |-> <<12, 4>>,
          filesz |-> <<16, 4>>, memsz |-> <<20, 4>>, flags |-> <<24, 4>>, align |-> <<28, 4>>]

readProgramHeader(f, i) ==
    LET at == PhAt(f.cls)
    IN  [k \in DOMAIN at |-> readU(f.segs[i], IF f.cls = 2 THEN "Ph2" ELSE "Ph1", at[k], Swaps(f, "parser"))]

\* readSectionHeader32() and readSectionHeader64().
ShAt(cls) ==
    IF cls = 2
    THEN [nameIdx |-> <<0, 4>>, type |-> <<4, 4>>, flags |-> <<8, 8>>, addr |-> <<16, 8>>,
          offset |-> <<24, 8>>, size |-> <<32, 8>>, link |-> <<40, 4>>, info |-> <<44, 4>>,
          addralign |-> <<48, 8>>, entsize |-> <<56, 8>>]
    ELSE [nameIdx |-> <<0, 4>>, type |-> <<4, 4>>, flags |-> <<8, 4>>, addr |-> <<12, 4>>,
          offset |-> <<16, 4>>, size |-> <<20, 4>>, link |-> <<24, 4>>, info |-> <<28, 4>>,
          addralign |-> <<32, 4>>, entsize |-> <<36, 4>>]

readSectionHeader(f, i) ==
    LET at == ShAt(f.cls)
    IN  [k \in DOMAIN at |-> readU(f.sects[i], IF f.cls = 2 THEN "Sh2" ELSE "Sh1", at[k], Swaps(f, "parser"))]

------------------------------------------------------------------------------
(* Parsing and judging.  Additions of 64-bit values wrap.                    *)

Plus(a, b) == (a + b) % W64

TableEnd(off, n, size) == Plus(off, n * size)

MinPh(cls) == IF cls = 2 THEN 56 ELSE 32
MinSh(cls) == IF cls = 2 THEN 64 ELSE 40

\* Warnings do not make a header invalid and are left out.
validateHeader(f, h) ==
    /\ f.cls # 0 /\ f.endian # 0
    /\ h.elfVersion = 1 /\ h.machine # 0
    /\ h.phnum > 0 => h.phentsize >= MinPh(f.cls)
    /\ h.shnum > 0 => h.shentsize >= MinSh(f.cls)
    /\ h.phoff > 0 => /\ h.phoff >= (IF h.ehsize > 0 THEN h.ehsize ELSE 52)
                      /\ TableEnd(h.phoff, h.phnum, h.phentsize) <= f.size
    /\ h.shoff > 0 => TableEnd(h.shoff, h.shnum, h.shentsize) <= f.size

Loadable(ph) == ph.type = "Load"

endVaddr(ph) == Plus(ph.vaddr, ph.memsz)

Overlap(a, b) == Loadable(a) /\ Loadable(b) /\ a.vaddr < endVaddr(b) /\ b.vaddr < endVaddr(a)

NoOverlap(phs) == \A i, j \in 1..Len(phs) : i < j => ~Overlap(phs[i], phs[j])

\* The segment's bytes lie in the file.
InFile(ph, size) == ph.filesz <= size /\ ph.offset <= size - ph.filesz

validateProgramHeaders(phs, size) ==
    /\ \A i \in 1..Len(phs) : phs[i].type = "Null" \/ InFile(phs[i], size)
    /\ NoOverlap(phs)

\* The entries of a table the parser reads: it stops where the next one would
\* not fit in the file.
Entries(f, off, n, entry, min) ==
    IF n > 0 /\ entry > 0 /\ off > 0 /\ off < f.size
    THEN CHOOSE k \in 0..n :
            /\ \A i \in 0..(k - 1) : Plus(Plus(off, i * entry), min) <= f.size
            /\ k = n \/ Plus(Plus(off, k * entry), min) > f.size
    ELSE 0

\* A section is named when the table of names is a string table of the file
\* that reaches to the name.
Named(sh, strtab, size) ==
    /\ strtab.type = "StrTab" /\ strtab.offset < size
    /\ sh.nameIdx < Min({strtab.size, size - strtab.offset})

\* The result of parse(), from the header and the tables it has read; a file
\* whose segments are wrong is still returned, as one that is not valid.
Parsed(f, h, phs, shs) ==
    IF ~f.magic \/ ~validateHeader(f, h)
    THEN [ok |-> FALSE, header |-> NoHeader, phs |-> <<>>, names |-> {}, valid |-> FALSE]
    ELSE [ok |-> TRUE, header |-> h, phs |-> phs,
          names |-> {i \in DOMAIN shs : h.shstrndx < Len(shs) /\ Named(shs[i], shs[h.shstrndx + 1], f.size)},
          valid |-> validateProgramHeaders(phs, f.size)]

ParsedFrom(f, h) ==
    Parsed(f, h, [i \in 1..Entries(f, h.phoff, h.phnum, h.phentsize, MinPh(f.cls)) |-> readProgramHeader(f, i)],
                 [i \in 1..Entries(f, h.shoff, h.shnum, h.shentsize, MinSh(f.cls)) |-> readSectionHeader(f, i)])

parse(f) == ParsedFrom(f, readHeader(f))

\* ElfValidator::validate(), its errors.
validate(f, h, phs) ==
    /\ f.magic /\ h.elfVersion = 1 /\ h.machine # 0
    /\ (h.phoff > 0 \/ h.phnum > 0) => TableEnd(h.phoff, h.phnum, h.phentsize) <= f.size
    /\ (h.shoff > 0 \/ h.shnum > 0) => TableEnd(h.shoff, h.shnum, h.shentsize) <= f.size
    /\ NoOverlap(phs)

\* The header as the inspector keeps it: without e_version, which it does not read.
Seen(h) == [k \in DOMAIN h \ {"elfVersion"} |-> h[k]]

\* ElfInspector::inspect(): every class but the second is read as 32 bits, and
\* of a short file only e_ident is.
inspect(f) ==
    LET h == IF f.cls = 2 /\ f.size >= 64 THEN fields(f, "inspector", TRUE)
             ELSE IF f.cls # 2 /\ f.size >= 52 THEN fields(f, "inspector", FALSE)
             ELSE [NoHeader EXCEPT !.version = f.version]
    IN  IF ~f.magic \/ f.size < 7 THEN [ok |-> FALSE]
        ELSE [ok |-> TRUE, header |-> Seen(h), is64Bit |-> f.cls = 2, isLittleEndian |-> f.endian = 1,
              hasProgramHeaders |-> h.phnum > 0 /\ h.phentsize > 0, hasSectionHeaders |-> h.shnum > 0 /\ h.shentsize > 0]

------------------------------------------------------------------------------
(* The memory image.  The byte at position p of the file has the value p;    *)
(* positions of data are never 0, the value of what is filled in.            *)

isSegmentRequired(ph, required) == Loadable(ph) /\ required \subseteq ph.flags

\* The bytes of a segment: what the file holds, filled up to memsz.
SegmentBytes(ph, size) ==
    LET held == IF ph.filesz > 0 /\ InFile(ph, size) THEN ph.filesz ELSE 0
        n    == IF held < ph.memsz THEN ph.memsz ELSE held
    IN  [k \in 1..n |-> IF k <= held THEN ph.offset + k - 1 ELSE 0]

\* The copies of several segments into one buffer of total bytes, the later
\* over the earlier; one that does not fit is left out, and one that fits only
\* because the sum wraps goes astray.
layOut(segs, low, total, size) ==
    LET copy(img, ph) ==
            LET at == (ph.vaddr - low) % W64
                b  == SegmentBytes(ph, size)
            IN  IF Plus(at, Len(b)) > total THEN img
                ELSE IF at + Len(b) > total THEN [img EXCEPT !.stray = TRUE]
                ELSE [img EXCEPT !.bytes = [k \in 1..total |-> IF k \in (at + 1)..(at + Len(b)) THEN b[k - at] ELSE @[k]]]
    IN  FoldLeft(copy, [bytes |-> [k \in 1..total |-> 0], stray |-> FALSE], segs)

SumOf(op(_), s) == FoldLeft(LAMBDA n, x : Plus(n, op(x)), 0, s)

NoImage == [ok |-> FALSE, sort |-> TRUE, segs |-> <<>>]

\* A buffer past the memory there is throws.
build(p, f, required, sort) ==
    LET req   == SelectSeq(p.phs, LAMBDA ph : isSegmentRequired(ph, required))
        segs  == IF sort THEN SortSeq(req, LAMBDA a, b : a.vaddr < b.vaddr) ELSE req
        low   == segs[1].vaddr
        high  == Max({0} \cup {endVaddr(segs[i]) : i \in 1..Len(segs)})
        total == (high - low) % W64
        img   == IF Len(segs) = 1 THEN [bytes |-> SegmentBytes(segs[1], f.size), stray |-> FALSE]
                 ELSE layOut(segs, low, total, f.size)
    IN  IF ~p.ok \/ ~p.valid \/ req = <<>> THEN NoImage
        ELSE IF Len(segs) > 1 /\ total >= W64 \div 2 THEN NoImage
        ELSE [ok |-> TRUE, sort |-> sort, low |-> low, high |-> high, file |-> SumOf(LAMBDA ph : ph.filesz, segs),
              mem |-> SumOf(LAMBDA ph : ph.memsz, segs), entry |-> p.header.entry,
              image |-> img.bytes, stray |-> img.stray, segs |-> segs]

------------------------------------------------------------------------------
(* VirtualProgrammer.  pc is the point the caller has reached, in execute()  *)
(* or in one stage called alone; every stage but the first and the transfer  *)
(* begins with checkCancelled().  res is "started" when startExecution() has *)
(* succeeded and "ok" when a stage called alone has.                         *)

NoFile == [size |-> 0]

NotRead == [ok |-> FALSE]

EInit ==
    /\ efile = NoFile
    /\ eparsed = NotRead
    /\ emem = NotRead
    /\ prog = [pc |-> "idle", chain |-> FALSE, state |-> "Idle", cancelled |-> FALSE, cancelPc |-> "none", at |-> "none",
               image |-> <<>>, loaded |-> FALSE, executed |-> FALSE, total |-> 0, sent |-> 0, res |-> "none",
               fault |-> "none", calls |-> 0]

Judged(f, p) == p @@ [judged |-> p.ok /\ validate(f, p.header, p.phs), seen |-> inspect(f)]

Read ==
    /\ prog.pc = "idle" /\ efile = NoFile
    /\ \E f \in ElfFiles :
          /\ efile' = f
          /\ eparsed' = Judged(f, parse(f))
    /\ UNCHANGED <<emem, prog>>

Build ==
    /\ efile # NoFile /\ emem = NotRead
    /\ \E r \in Required, sort \in BOOLEAN : emem' = build(eparsed, efile, r, sort)
    /\ UNCHANGED <<efile, eparsed, prog>>

Goes(pc, state) == prog' = [prog EXCEPT !.pc = pc, !.state = state]

Fails(res) == prog' = [prog EXCEPT !.pc = "done", !.state = "Failed", !.res = res]

\* A stage has succeeded: execute() goes on, a caller of the stage alone is done.
Succeeds(next, state) ==
    prog' = IF prog.chain THEN [prog EXCEPT !.pc = next, !.state = state] ELSE [prog EXCEPT !.pc = "done", !.state = state, !.res = "ok"]

MayEnter == prog.pc \in {"idle", "done"} /\ prog.calls < MaxCalls

\* A call begins, with the faults set as its caller likes; m_cancelled stays
\* what it was.
Begins(chain, fault) ==
    [prog EXCEPT !.chain = chain, !.fault = fault, !.res = "none", !.calls = @ + 1,
                 !.at = IF prog.cancelled THEN "before" ELSE "none", !.sent = IF chain THEN 0 ELSE @]

\* loadImage(), alone or as the first stage of execute().  A failed one keeps
\* the image of an earlier call.
Loads(p, n) ==
    IF p.fault = "load" THEN [p EXCEPT !.pc = "done", !.state = "Failed", !.res = "InvalidElf"]
    ELSE [p EXCEPT !.pc = IF p.chain THEN "verifyCheck" ELSE "done", !.res = IF p.chain THEN "none" ELSE "ok",
                   !.state = "ImageLoaded", !.loaded = TRUE, !.total = n]

\* The first call takes the image that was built, whose file is then gone;
\* later ones give the same image again.
loadImage ==
    /\ MayEnter
    /\ \E chain \in BOOLEAN, fault \in ProgFaults \cup {"none"} :
          \/ /\ emem.ok
             /\ efile' = NoFile /\ eparsed' = NotRead /\ emem' = NotRead
             /\ prog' = Loads([Begins(chain, fault) EXCEPT !.image = <<emem.file>>], emem.file)
          \/ /\ prog.image # <<>> /\ UNCHANGED <<efile, eparsed, emem>>
             /\ prog' = Loads(Begins(chain, fault), prog.image[1])

\* One of the other stages is called alone, with or without a loaded image.
callStage ==
    /\ MayEnter /\ efile = NoFile
    /\ \E fault \in ProgFaults \cup {"none"}, stage \in {"verifyCheck", "prepareCheck", "transfer", "startCheck"} :
          prog' = [Begins(FALSE, fault) EXCEPT !.pc = stage]

\* checkCancelled() and the test of m_state that follows it, before the stage
\* named next.
Checks == [verifyCheck |-> "verifyTest", prepareCheck |-> "prepareTest", chunkCheck |-> "chunkTest",
           startCheck |-> "startTest"]

\* Mutant: a cancellation is not looked for before the start.
checkCancelledButStart ==
    /\ prog.pc \in DOMAIN Checks
    /\ Goes(Checks[prog.pc], IF prog.cancelled /\ prog.pc # "startCheck" THEN "Cancelled" ELSE prog.state)

checkCancelled ==
    /\ prog.pc \in DOMAIN Checks
    /\ Goes(Checks[prog.pc], IF prog.cancelled THEN "Cancelled" ELSE prog.state)

Tests == [verifyTest |-> "verify", prepareTest |-> "prepare", chunkTest |-> "chunk", startTest |-> "start"]

testState ==
    /\ prog.pc \in DOMAIN Tests
    /\ prog' = IF prog.state = "Cancelled"
               THEN [prog EXCEPT !.pc = "done", !.res = "cancelled"]
               ELSE [prog EXCEPT !.pc = Tests[prog.pc]]

verifyImage ==
    prog.pc = "verify" /\ IF prog.fault = "verify" \/ ~prog.loaded THEN Fails("InvalidElf") ELSE Succeeds("prepareCheck", "ImageVerified")

prepareExecution ==
    prog.pc = "prepare" /\ IF prog.fault = "prepare" \/ ~prog.loaded THEN Fails("InvalidElf") ELSE Succeeds("transfer", "TransferReady")

MoreOrDone(sent) == IF sent < prog.total THEN "chunkCheck" ELSE "transferred"

\* transferImage() up to its loop.
transferImage ==
    /\ prog.pc = "transfer"
    /\ IF prog.fault = "transfer" \/ ~prog.loaded THEN Fails("InvalidElf")
       ELSE IF prog.fault = "timeout" THEN Fails("TransportTimeout")
       ELSE prog' = [prog EXCEPT !.pc = MoreOrDone(0), !.state = "Transferring", !.sent = 0]

transferChunk ==
    /\ prog.pc = "chunk"
    /\ LET sent == prog.sent + Min({prog.total - prog.sent, Chunk})
       IN  prog' = [prog EXCEPT !.pc = MoreOrDone(sent), !.state = "Transferring", !.sent = sent]

transferEnds == prog.pc = "transferred" /\ Succeeds("startCheck", "Executing")

startExecution ==
    /\ prog.pc = "start"
    /\ IF prog.fault = "start" \/ ~prog.loaded THEN Fails("InvalidElf")
       ELSE prog' = [prog EXCEPT !.pc = "done", !.state = "Completed", !.res = "started", !.executed = TRUE]

\* cancel() stores the flag and then the state; at is where the call was that
\* the first one met.  It has nothing to do with the reading of a file.
cancelFlag ==
    /\ prog.cancelPc # "flag" /\ efile = NoFile
    /\ prog' = [prog EXCEPT !.cancelled = TRUE, !.cancelPc = "flag", !.at = IF prog.cancelled THEN @ ELSE prog.pc]

cancelState ==
    /\ prog.cancelPc = "flag"
    /\ prog' = [prog EXCEPT !.state = "Cancelled", !.cancelPc = "done"]

ENext ==
    \/ Read \/ Build \/ loadImage
    \/ UNCHANGED <<efile, eparsed, emem>>
       /\ (callStage \/ checkCancelled \/ testState \/ verifyImage \/ prepareExecution \/ transferImage
              \/ transferChunk \/ transferEnds \/ startExecution \/ cancelFlag \/ cancelState)

------------------------------------------------------------------------------
(* Properties.                                                             *)

\* What parse() takes for the header is what the file says, for either class
\* and byte order, and ElfInspector agrees, in the fields it reads, for the
\* host's byte order.
HeadersReadBack ==
    eparsed.ok =>
        /\ \A k \in DOMAIN NoHeader : eparsed.header[k] = efile[k]
        /\ eparsed.seen.ok
        /\ efile.endian = 1 => eparsed.seen.header = Seen(eparsed.header)
        /\ \A i \in 1..Len(eparsed.phs) : eparsed.phs[i] = efile.segs[i]

\* ElfValidator accepts what the parser accepts, when the tables are there.
ValidatorAgrees ==
    (/\ eparsed.ok /\ eparsed.valid
     /\ efile.phoff > 0 \/ efile.phnum = 0
     /\ efile.shoff > 0 \/ efile.shnum = 0) => eparsed.judged

\* The addresses of the segment are 64-bit values, and it is not cut in memory.
Ordinary(ph) == ph.vaddr + ph.memsz < W64 /\ ph.filesz <= ph.memsz

\* Built from sorted segments, every address of the image holds the byte its
\* segment puts there, and zero where no segment does; nothing is written
\* beside it.
ImageIsExact ==
    (emem.ok /\ emem.sort /\ \A i \in 1..Len(emem.segs) : Ordinary(emem.segs[i])) =>
        /\ ~emem.stray /\ emem.mem <= Len(emem.image)
        /\ Len(emem.image) = emem.high - emem.low
        /\ \A k \in 1..Len(emem.image) :
              LET a  == emem.low + k - 1
                  on == {ph \in Range(emem.segs) : ph.vaddr <= a /\ a < ph.vaddr + ph.memsz}
              IN  /\ on = {} => emem.image[k] = 0
                  /\ \A ph \in on : emem.image[k] = IF a - ph.vaddr < ph.filesz
                                                    THEN ph.offset + (a - ph.vaddr) ELSE 0

\* A cancel() that comes before the last check, in this call or in an earlier
\* one, never ends in a started programmer; one that execute() has started has
\* been transferred whole, and none is started that was not loaded.
StartIsHonest ==
    prog.res = "started" =>
        /\ prog.at \in {"none", "startTest", "start", "done"} /\ prog.loaded /\ prog.executed
        /\ prog.chain => prog.sent = prog.total

\* A programmer reaches the device as its file describes it, or not at all.
ElfIsExact == HeadersReadBack /\ ValidatorAgrees /\ ImageIsExact /\ StartIsHonest

(* What the code does not keep.                                              *)

\* A segment with more bytes in the file than in memory is only warned about.
TruncatedStillLoads ==
    emem.ok /\ emem.sort => \A i \in 1..Len(emem.segs) :
        LET ph == emem.segs[i]
        IN  (ph.vaddr + ph.memsz < W64 /\ ph.filesz > 0 /\ ph.memsz > 0) =>
                emem.image[ph.vaddr - emem.low + 1] = ph.offset

\* A programmer that says Cancelled has not been started.
CancelledNotStarted == prog.state = "Cancelled" => prog.res # "started"

\* A programmer started by its stages has been transferred.
StagesInOrder == prog.res = "started" => prog.sent = prog.total

\* Segments that are not sorted, or whose addresses wrap, stay in the image.
CopiesStayInside == emem.ok => ~emem.stray

\* The inspector reads every file the parser reads.
InspectorFollowsOrder == eparsed.ok => eparsed.seen.header = Seen(eparsed.header)
=============================================================================
