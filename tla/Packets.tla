------------------------------ MODULE Packets -------------------------------
(* What the two protocols put on the wire and take off it: the nineteen      *)
(* Sahara packets, the thirteen Firehose commands and their XML, and the     *)
(* ChunkEngine that cuts a payload into pieces.                              *)
EXTENDS Config, FiniteSets, SequencesExt

CONSTANTS
    SaharaPackets,     \* the packets that are sent
    FirehoseFields,    \* command name -> the field values it is sent with
    XmlDocs,           \* elements sent as answers
    kMaxXmlDepth,      \* the nesting the XML parser follows, 64 in the code
    ChunkSize,         \* m_config.chunkSize
    Payload,           \* bytes streamed
    MaxWriteRetries    \* m_config.maxRetries: any number above 0 is one retry

ASSUME PacketAssumption == ChunkSize \in Nat \ {0} /\ Payload \in Nat /\ kMaxXmlDepth \in Nat

VARIABLES
    spkt,              \* a Sahara packet on its way
    fxml,              \* a Firehose command or answer on its way
    chunk              \* a ChunkEngine, the stream it runs and its target

pvars == <<spkt, fxml, chunk>>

------------------------------------------------------------------------------
(* Sahara.  A packet is its command, its fields by name and m_isV3; a buffer *)
(* is the 32-bit words written and the number of bytes of them at hand.      *)

Class(len, params) == [len |-> len, params |-> params]

\* length() and the constructor's parameters of the packets 1 to 9.
TransferClasses == <<
    Class(48, <<"version", "versionSupported", "cmdPacketLength", "mode">>),
    Class(48, <<"version", "versionSupported", "status", "mode">>),
    Class(20, <<"imageId", "dataOffset", "dataLength">>), Class(16, <<"imageId", "status">>), Class(8, <<>>),
    Class(12, <<"imageTxStatus">>), Class(8, <<>>), Class(8, <<>>), Class(16, <<"memTableAddr", "memTableLen">>)>>

\* The same of the packets 10 to 19.
CommandClasses == <<
    Class(16, <<"chipIdLo", "chipIdHi", "serialNum", "msmId", "oemId", "modelId">>), Class(8, <<>>),
    Class(12, <<"mode">>), Class(12, <<"clientCmd">>), Class(16, <<"clientCmd", "respLength">>),
    Class(16, <<"clientCmd", "dataLength">>), Class(16, <<"clientCmd", "status">>),
    Class(20, <<"imageId", "dataOffset", "dataLength">>), Class(16, <<"imageId", "status">>), Class(8, <<>>)>>

Classes == TransferClasses \o CommandClasses

Params == [c \in 1..19 |-> Classes[c].params]

\* The constructors.  A chip id is of version 3 when one of the four fields
\* that only version 3 has is not zero, until setV3() says otherwise.
SaharaPacket(cmd, args) ==
    [cmd |-> cmd, v3 |-> cmd = 10 /\ \E i \in 3..6 : args[i] # 0,
     f |-> [x \in Range(Params[cmd]) |-> args[CHOOSE i \in DOMAIN Params[cmd] : Params[cmd][i] = x]]]

setV3(p, v3) == [p EXCEPT !.v3 = v3]

\* A packet of a command that is none of the nineteen.
ForeignPacket(cmd) == [cmd |-> cmd, v3 |-> FALSE, f |-> <<>>]

canSerialize(p) == p.cmd \in 1..19

pktLength(p) == IF p.v3 THEN 40 ELSE Classes[p.cmd].len

\* The fields the serializer's switch writes after command and length.
Written(p) ==
    CASE p.cmd = 1  -> <<p.f.version, p.f.versionSupported, p.f.cmdPacketLength, p.f.mode>>
      [] p.cmd = 2  -> <<p.f.version, p.f.versionSupported, p.f.status, p.f.mode>>
      [] p.cmd \in {3, 17} -> <<p.f.imageId, p.f.dataOffset, p.f.dataLength>>
      [] p.cmd \in {4, 18} -> <<p.f.imageId, p.f.status>>
      [] p.cmd \in {5, 7, 8, 11, 19} -> <<>>
      [] p.cmd = 6  -> <<p.f.imageTxStatus>>
      [] p.cmd = 9  -> <<p.f.memTableAddr, p.f.memTableLen>>
      [] p.cmd = 10 -> <<p.f.chipIdLo, p.f.chipIdHi>>
                           \o (IF p.v3 THEN <<p.f.serialNum, p.f.msmId, p.f.oemId, p.f.modelId>> ELSE <<>>)
      [] p.cmd = 12 -> <<p.f.mode>>
      [] p.cmd = 13 -> <<p.f.clientCmd>>
      [] p.cmd = 14 -> <<p.f.clientCmd, p.f.respLength>>
      [] p.cmd = 15 -> <<p.f.clientCmd, p.f.dataLength>>
      [] p.cmd = 16 -> <<p.f.clientCmd, p.f.status>>

\* resize(length()) pads with zeroes the packets the code pads.
Serialized(p) ==
    LET body == <<p.cmd, pktLength(p)>> \o Written(p)
        pads == p.cmd \in {1, 2} \/ p.v3
        words == IF pads THEN [i \in 1..(pktLength(p) \div 4) |-> IF i <= Len(body) THEN body[i] ELSE 0] ELSE body
    IN  [words |-> words, size |-> 4 * Len(words)]

\* serialize(): InvalidPacket for a command it does not know.
serializePacket(p) ==
    IF canSerialize(p) THEN [ok |-> TRUE, buf |-> Serialized(p)] ELSE [ok |-> FALSE, buf |-> [words |-> <<>>, size |-> 0]]

readU32(b, off) == IF off + 4 > b.size THEN 0 ELSE b.words[(off \div 4) + 1]

requiredPacketLength(cmd) ==
    IF cmd \in 1..19 THEN <<48, 48, 20, 16, 8, 12, 8, 8, 16, 16, 8, 12, 12, 16, 16, 16, 20, 16, 8>>[cmd] ELSE 0

isComplete(b) == b.size >= 8 /\ b.size >= readU32(b, 4)

Rejected == [ok |-> FALSE, pkt |-> [cmd |-> 0, v3 |-> FALSE, f |-> <<>>]]

\* Mutant: a short chip id is read like a long one.
parseAnyChip(b, cmd) ==
    IF cmd \notin 1..19 THEN Rejected
    ELSE [ok |-> TRUE, pkt |-> setV3(SaharaPacket(cmd, [i \in DOMAIN Params[cmd] |-> readU32(b, 4 + 4 * i)]), cmd = 10)]

\* parseCommand(): every constructor's arguments are the words from offset 8
\* on; the last four of a chip id are read only in a packet of 40 bytes, which
\* is then of version 3 whatever they are.
parseCommand(b, cmd) ==
    LET v3 == cmd = 10 /\ readU32(b, 4) >= 40
        arg(i) == IF cmd = 10 /\ i > 2 /\ ~v3 THEN 0 ELSE readU32(b, 4 + 4 * i)
    IN  IF cmd \notin 1..19 THEN Rejected
        ELSE [ok |-> TRUE, pkt |-> setV3(SaharaPacket(cmd, [i \in DOMAIN Params[cmd] |-> arg(i)]), v3)]

parsePacket(b) ==
    LET cmd == readU32(b, 0)
        len == readU32(b, 4)
    IN  IF b.size < 8 \/ b.size < len \/ len < requiredPacketLength(cmd) THEN Rejected ELSE parseCommand(b, cmd)

NoPacket == [stage |-> "none"]

\* A packet is serialised, arrives cut, extended or with another command or
\* length in its header, and is parsed.
SendPacket ==
    /\ spkt.stage = "none"
    /\ \E p \in SaharaPackets :
          LET r == serializePacket(p)
          IN  spkt' = [stage |-> IF r.ok THEN "sent" ELSE "refused", p |-> p, whole |-> r.buf]
    /\ UNCHANGED <<fxml, chunk>>

Arrivals(b) ==
    {[b EXCEPT !.size = n] : n \in 0..b.size}
        \cup {[words |-> Append(b.words, 77), size |-> b.size + 4]}
        \cup {[b EXCEPT !.words[1] = c] : c \in 0..20}
        \cup {[b EXCEPT !.words[2] = n] : n \in {0, 7, 8, 12, 15, 16, 20, 39, 40, 47, 48, 60}}

ReceivePacket ==
    /\ spkt.stage = "sent"
    /\ \E b \in Arrivals(spkt.whole) :
          spkt' = [stage |-> "parsed", p |-> spkt.p, whole |-> spkt.whole, buf |-> b, complete |-> isComplete(b), res |-> parsePacket(b)]
    /\ UNCHANGED <<fxml, chunk>>

------------------------------------------------------------------------------
(* Firehose.                                                                 *)

\* The characters that are escaped: & < > in a content, quotes too in an
\* attribute; an escaped text holds an & of its own.
Special(x, texts) == x.k = "str" /\ (x.s \in texts \/ x.esc > 0)

Markup == {"a&b", "<q>"}

escapeContent(x) == IF Special(x, Markup) THEN [x EXCEPT !.esc = @ + 1] ELSE x

escapeAttribute(x) == IF Special(x, Markup \cup {"'q'"}) THEN [x EXCEPT !.esc = @ + 1] ELSE x

\* trim(): the white space around a text, which may be all of it.
trimText(x) == IF x.s = " t " THEN Str("t") ELSE IF x.s = " " THEN Str("") ELSE x

Sector == <<<<"SECTOR_SIZE", "sectorSize">>, <<"NUM_SECTOR_SIZE", "numSectorSize">>, <<"PARTITION_ID", "partitionId">>,
            <<"START_SECTOR", "startSector">>, <<"physical_partition", "physicalPartition">>>>

Optional == <<<<"filename", "filename">>, <<"label", "label">>>>

Memory == <<<<"MemoryName", "memoryName">>>>

\* The attributes toXml() writes and fromXml() looks for, with their fields.
FlashAttributes == [
    configure |-> Memory \o <<<<"ZLPAwareHost", "zlpAwareHost">>, <<"SkipWrite", "skipWrite">>,
        <<"MaxPayloadSizeToTarget", "maxPayloadSizeToTarget">>, <<"MaxPayloadSizeFromTarget", "maxPayloadSizeFromTarget">>,
        <<"Mode", "mode">>>>,
    program |-> Sector \o <<<<"num_partition_sectors", "numPartitionSectors">>>> \o Optional,
    read |-> Sector, erase |-> Sector \o Optional,
    peek |-> <<<<"address", "address">>, <<"size", "size">>>>]

OtherAttributes == [
    poke |-> <<<<"address", "address">>, <<"size", "size">>, <<"data", "data">>>>,
    patch |-> <<<<"byte_offset", "byteOffset">>, <<"size", "size">>, <<"data", "data">>, <<"filename", "filename">>,
        <<"SECTOR_SIZE", "sectorSize">>, <<"START_SECTOR", "startSector">>, <<"PARTITION_ID", "partitionId">>,
        <<"physical_partition", "physicalPartition">>>>,
    reset |-> <<<<"value", "value">>>>, power |-> <<<<"value", "value">>>>, NOP |-> <<>>, getstorageinfo |-> <<>>,
    getsha256digest |-> Sector, configurememory |-> Memory \o <<<<"Config", "config">>>>]

Attributes == FlashAttributes @@ OtherAttributes

\* What fromXml() puts where the attribute is missing or no number.
Default(name, field) ==
    CASE field = "memoryName" -> Str("ufs")
      [] field = "config" -> Str("all")
      [] field = "value" -> Str("reset")
      [] field \in {"filename", "label"} -> Str("")
      [] field = "data" /\ name = "poke" -> Digits(0, "")
      [] field = "sectorSize" -> Num(4096)
      [] field = "zlpAwareHost" -> Num(1)
      [] field = "size" /\ name = "peek" -> Num(256)
      [] field \in {"maxPayloadSizeToTarget", "maxPayloadSizeFromTarget"} -> Num(1048576)
      [] OTHER -> Num(0)

Empty(x) == (x.k = "str" /\ x.s = "") \/ (x.k = "hex" /\ x.n = 0)

\* filename and label of program and erase, and the data of a poke, are
\* written when there are any.
toXml(name, f) ==
    LET all == [i \in DOMAIN Attributes[name] |-> <<Attributes[name][i][1], f[Attributes[name][i][2]]>>]
        optional == CASE name \in {"program", "erase"} -> {"filename", "label"} [] name = "poke" -> {"data"} [] OTHER -> {}
    IN  [name |-> name, attributes |-> SelectSeq(all, LAMBDA a : a[1] \notin optional \/ ~Empty(a[2])), children |-> <<>>, content |-> Str("")]

HasAttribute(e, a) == \E i \in DOMAIN e.attributes : e.attributes[i][1] = a

\* The first attribute of that name.
getAttribute(e, a, default) ==
    IF HasAttribute(e, a) THEN SelectSeq(e.attributes, LAMBDA x : x[1] = a)[1][2] ELSE default

getUintAttribute(e, a, default) ==
    LET r == fromCharsUint32(getAttribute(e, a, Str(""))) IN IF r.ok THEN Num(r.value) ELSE default

\* fromHex(): an odd number of digits is no bytes.
fromHex(x) == IF x.k = "hex" /\ x.n % 2 = 0 THEN x ELSE Digits(0, "")

fromXml(e) ==
    LET name == e.name
        at(field) == Attributes[name][CHOOSE i \in DOMAIN Attributes[name] : Attributes[name][i][2] = field][1]
        val(field) == LET d == Default(name, field)
                      IN  CASE d.k = "num" -> getUintAttribute(e, at(field), d)
                            [] d.k = "hex" -> fromHex(getAttribute(e, at(field), d))
                            [] d.k = "str" -> getAttribute(e, at(field), d)
    IN  [field \in {Attributes[name][i][2] : i \in DOMAIN Attributes[name]} |-> val(field)]

------------------------------------------------------------------------------
(* The XML engine, token by token.                                           *)

Token(t, e) == [t |-> t, name |-> e.name, attributes |-> e.attributes, content |-> e.content]

RECURSIVE serializeXml(_)
serializeXml(e) ==
    LET attrs == [i \in DOMAIN e.attributes |-> <<e.attributes[i][1], escapeAttribute(e.attributes[i][2])>>]
        x == [e EXCEPT !.attributes = attrs]
        text == [e EXCEPT !.content = escapeContent(@)]
    IN  IF e.children = <<>> /\ e.content = Str("") THEN <<Token("self", x)>>
        ELSE <<Token("open", x)>>
                 \o (IF e.content # Str("") THEN <<Token("text", text)>> ELSE <<>>)
                 \o FlattenSeq([i \in DOMAIN e.children |-> serializeXml(e.children[i])])
                 \o <<Token("close", e)>>

Element(tok) == [name |-> tok.name, attributes |-> tok.attributes, children |-> <<>>, content |-> Str("")]

NoElement == [ok |-> FALSE, e |-> [name |-> "", attributes |-> <<>>, children |-> <<>>, content |-> Str("")], rest |-> <<>>]

\* parseXmlRecursive(): the tag of a child that is not self-closing has been
\* taken off before the recursion, which takes the next tag for it; a closing
\* tag of any name, and the end of the text, end an element.
RECURSIVE parseElement(_, _), parseChildren(_, _, _)
parseElement(toks, depth) ==
    IF depth >= kMaxXmlDepth \/ toks = <<>> THEN NoElement
    ELSE IF Head(toks).t = "self" THEN [ok |-> TRUE, e |-> Element(Head(toks)), rest |-> Tail(toks)]
    ELSE IF Head(toks).t = "open" THEN parseChildren(Element(Head(toks)), Tail(toks), depth)
    ELSE NoElement
parseChildren(e, toks, depth) ==
    IF toks = <<>> THEN [ok |-> TRUE, e |-> e, rest |-> <<>>]
    ELSE LET k == Head(toks)
         IN  CASE k.t = "close" -> [ok |-> TRUE, e |-> e, rest |-> Tail(toks)]
               [] k.t = "text" ->
                     parseChildren([e EXCEPT !.content = IF trimText(k.content) # Str("") THEN trimText(k.content) ELSE @], Tail(toks), depth)
               [] k.t = "self" -> parseChildren([e EXCEPT !.children = Append(@, Element(k))], Tail(toks), depth)
               [] k.t = "open" ->
                     LET r == parseElement(Tail(toks), depth + 1)
                         child == [Element(k) EXCEPT !.children = r.e.children, !.content = r.e.content]
                     IN  IF r.ok THEN parseChildren([e EXCEPT !.children = Append(@, child)], r.rest, depth) ELSE NoElement

parseXml(toks) == parseElement(toks, 0)

\* parseFirehoseXml().
parseFirehoseXml(toks) ==
    LET r == parseXml(toks)
    IN  IF r.ok /\ r.e.name \in DOMAIN Attributes THEN [ok |-> TRUE, name |-> r.e.name, f |-> fromXml(r.e)]
        ELSE [ok |-> FALSE, name |-> "", f |-> <<>>]

isAck(e) == getAttribute(e, "value", Str("")) = Str("ACK")
isNak(e) == getAttribute(e, "value", Str("")) = Str("NAK")
nakDescription(e) == getAttribute(e, "description", Str(""))

\* FirehoseResponse::fromXml(): of a text that does not parse, nothing is set.
responseFromXml(toks) ==
    LET r == parseXml(toks)
    IN  [ack |-> r.ok /\ isAck(r.e), nak |-> r.ok /\ isNak(r.e), commandName |-> IF r.ok THEN r.e.name ELSE "",
         nakDesc |-> IF r.ok THEN nakDescription(r.e) ELSE Str(""),
         rawMode |-> r.ok /\ getAttribute(r.e, "raw_mode", Str("")) = Str("true")]

NoXml == [stage |-> "none"]

SendCommand ==
    /\ fxml.stage = "none"
    /\ \E name \in DOMAIN Attributes : \E f \in FirehoseFields[name] :
          fxml' = [stage |-> "sent", kind |-> "command", name |-> name, f |-> f, e |-> toXml(name, f),
                   toks |-> serializeXml(toXml(name, f))]
    /\ UNCHANGED <<spkt, chunk>>

SendAnswer ==
    /\ fxml.stage = "none"
    /\ \E e \in XmlDocs : fxml' = [stage |-> "sent", kind |-> "answer", name |-> e.name, f |-> <<>>, e |-> e, toks |-> serializeXml(e)]
    /\ UNCHANGED <<spkt, chunk>>

\* The document arrives whole, or only its first tokens do.
ReceiveXml ==
    /\ fxml.stage = "sent"
    /\ \E n \in 0..Len(fxml.toks) :
          LET got == SubSeq(fxml.toks, 1, n)
          IN  fxml' = [fxml EXCEPT !.stage = "parsed"] @@
                      [n |-> n, xml |-> parseXml(got), cmd |-> parseFirehoseXml(got), resp |-> responseFromXml(got)]
    /\ UNCHANGED <<spkt, chunk>>

------------------------------------------------------------------------------
(* ChunkEngine: one stream at a time; cancel(), reset() and                  *)
(* setResumeOffset() from any thread.  resetIn records a reset() during the  *)
(* stream.  A responseFn that is not given is one that always succeeds.      *)

IdleChunk == [pc |-> "idle", dir |-> "to", cancelled |-> FALSE, total |-> 0, sent |-> 0, target |-> <<>>,
              resume |-> 0, result |-> "none", resetIn |-> FALSE]

Quiet == UNCHANGED <<spkt, fxml>>

StreamFails(c, error) == [c EXCEPT !.pc = "done", !.result = error]

\* A stream of n bytes is called, which looks at m_cancelled first.
Called(dir, n, pc) ==
    LET c == [chunk EXCEPT !.dir = dir, !.total = n, !.sent = 0, !.target = <<>>, !.result = "none", !.resetIn = FALSE]
    IN  IF c.cancelled THEN StreamFails(c, "Cancelled") ELSE [c EXCEPT !.pc = pc]

MayCall == chunk.pc \in {"idle", "done"} /\ Quiet

streamToTarget == MayCall /\ \E n \in 0..Payload : chunk' = Called("to", n, "loop")

\* The offset is checked before m_cancelled is; the length is clamped.
streamToTargetPartial ==
    /\ MayCall
    /\ \E off \in 0..Payload, len \in 0..(Payload + 1) :
          chunk' = IF off >= Payload THEN StreamFails([chunk EXCEPT !.total = 0, !.sent = 0, !.target = <<>>], "InvalidArgument")
                   ELSE Called("to", IF len < Payload - off THEN len ELSE Payload - off, "loop")

\* It waits for the answer to its command first.
streamFromTarget == MayCall /\ \E n \in 0..Payload : chunk' = Called("from", n, "answer")

FirstAnswer ==
    /\ chunk.pc = "answer" /\ Quiet
    /\ \E ok \in BOOLEAN : chunk' = IF ok THEN [chunk EXCEPT !.pc = "loop"] ELSE StreamFails(chunk, "error")

NextChunk(c) == IF c.total - c.sent < ChunkSize THEN c.total - c.sent ELSE ChunkSize

Bytes(c) == [i \in 1..NextChunk(c) |-> c.sent + i]

\* while (remaining > 0 && !m_cancelled): what was read there decides whether
\* the loop goes on.
LoopTest ==
    /\ chunk.pc = "loop" /\ Quiet
    /\ chunk' = [chunk EXCEPT !.pc = IF chunk.sent < chunk.total /\ ~chunk.cancelled
                                     THEN (IF chunk.dir = "to" THEN "write" ELSE "read") ELSE "ended"]

\* m_cancelled is read once more behind the loop; only streamToTarget() keeps
\* where it stopped.
StreamEnds ==
    /\ chunk.pc = "ended" /\ Quiet
    /\ chunk' = IF chunk.cancelled THEN StreamFails(chunk, "Cancelled")
                ELSE [chunk EXCEPT !.pc = "done", !.result = "ok", !.resume = IF chunk.dir = "to" THEN chunk.sent ELSE @]

\* writeFn: it may fail before or after the bytes have reached the target.
Wrote(ok, stored, onFailure) ==
    LET c == [chunk EXCEPT !.target = IF ok \/ stored THEN @ \o Bytes(chunk) ELSE @]
    IN  IF ok THEN [c EXCEPT !.pc = "response"] ELSE IF onFailure = "again" THEN [c EXCEPT !.pc = "again"] ELSE StreamFails(c, "error")

WriteChunk ==
    /\ chunk.pc = "write" /\ Quiet
    /\ \E ok, stored \in BOOLEAN : chunk' = Wrote(ok, stored, IF MaxWriteRetries > 0 THEN "again" ELSE "error")

\* The one retry does not look at m_cancelled.
RetryChunk == chunk.pc = "again" /\ Quiet /\ \E ok, stored \in BOOLEAN : chunk' = Wrote(ok, stored, "error")

Acknowledged(c, ok) == IF ok THEN [c EXCEPT !.sent = @ + NextChunk(c), !.pc = "loop"] ELSE StreamFails(c, "error")

ChunkResponse == chunk.pc = "response" /\ Quiet /\ \E ok \in BOOLEAN : chunk' = Acknowledged(chunk, ok)

\* readFn fails, or returns what it was asked for or less, nothing included.
ReadChunk ==
    /\ chunk.pc = "read" /\ Quiet
    /\ \/ \E n \in 0..NextChunk(chunk) :
             chunk' = [chunk EXCEPT !.target = @ \o SubSeq(Bytes(chunk), 1, n), !.sent = @ + n, !.pc = "loop"]
       \/ chunk' = StreamFails(chunk, "error")

CancelChunks == Quiet /\ chunk' = [chunk EXCEPT !.cancelled = TRUE]

ResetChunks ==
    Quiet /\ chunk' = [chunk EXCEPT !.cancelled = FALSE, !.resume = 0, !.resetIn = @ \/ chunk.pc \notin {"idle", "done"}]

setResumeOffset == Quiet /\ chunk' = [chunk EXCEPT !.resume = Payload]

------------------------------------------------------------------------------
PInit == spkt = NoPacket /\ fxml = NoXml /\ chunk = IdleChunk

PNext ==
    \/ fxml = NoXml /\ chunk = IdleChunk /\ (SendPacket \/ ReceivePacket)
    \/ spkt = NoPacket /\ chunk = IdleChunk /\ (SendCommand \/ SendAnswer \/ ReceiveXml)
    \/ /\ spkt = NoPacket /\ fxml = NoXml
       /\ \/ streamToTarget \/ streamToTargetPartial \/ streamFromTarget \/ FirstAnswer \/ LoopTest \/ StreamEnds
          \/ WriteChunk \/ RetryChunk \/ ChunkResponse \/ ReadChunk \/ CancelChunks \/ ResetChunks \/ setResumeOffset

------------------------------------------------------------------------------
(* Correctness.                                                              *)

\* A packet that arrives whole, or with bytes behind it, is the packet that
\* was sent; one that is cut is never taken for complete nor parsed; none of
\* an unknown command is sent.
SaharaRoundTrip ==
    /\ spkt.stage = "refused" => spkt.p.cmd \notin 1..19
    /\ spkt.stage = "parsed" =>
           /\ (spkt.buf.size >= spkt.whole.size /\ SubSeq(spkt.buf.words, 1, Len(spkt.whole.words)) = spkt.whole.words) =>
                  spkt.complete /\ spkt.res = [ok |-> TRUE, pkt |-> spkt.p]
           /\ spkt.buf.size < spkt.whole.size => ~spkt.complete /\ ~spkt.res.ok

\* Whatever arrives, a packet that is accepted is of a known command, and no
\* field of it comes from behind the length it declares.
FieldsInPacket ==
    spkt.stage = "parsed" /\ spkt.res.ok =>
        /\ spkt.complete /\ spkt.res.pkt.cmd \in 1..19
        /\ 8 + 4 * Len(Written(spkt.res.pkt)) <= readU32(spkt.buf, 4)

\* A command that arrives is the command that was sent, as long as no text of
\* it needed escaping; a command that is cut is no command.
CommandsRoundTrip ==
    fxml.stage = "parsed" /\ fxml.kind = "command" =>
        /\ fxml.n = 0 => ~fxml.cmd.ok
        /\ (fxml.n > 0 /\ \A x \in DOMAIN fxml.f : escapeAttribute(fxml.f[x]) = fxml.f[x]) =>
               /\ fxml.cmd.ok /\ fxml.cmd.name = fxml.name
               /\ \A x \in DOMAIN fxml.f : fxml.cmd.f[x] = fxml.f[x]

\* An answer with no element and no text below its children, and no text
\* that changes on the way, is read as it was sent, the name and description
\* the response keeps too; an answer counts as ACK only by the attribute of
\* its outermost element.
Flat(e) == \A i \in DOMAIN e.children : e.children[i].children = <<>> /\ e.children[i].content = Str("")
Unchanged(e) ==
    /\ trimText(escapeContent(e.content)) = e.content
    /\ \A i \in DOMAIN e.attributes : escapeAttribute(e.attributes[i][2]) = e.attributes[i][2]
    /\ \A i \in DOMAIN e.children : \A j \in DOMAIN e.children[i].attributes :
          escapeAttribute(e.children[i].attributes[j][2]) = e.children[i].attributes[j][2]
AnswersAreRead ==
    fxml.stage = "parsed" /\ fxml.kind = "answer" =>
        /\ fxml.n = Len(fxml.toks) /\ Flat(fxml.e) /\ Unchanged(fxml.e) =>
              /\ fxml.xml.ok /\ fxml.xml.e = fxml.e
              /\ fxml.resp.commandName = fxml.e.name /\ fxml.resp.nakDesc = nakDescription(fxml.e)
        /\ fxml.resp.ack => isAck(fxml.e) /\ ~fxml.resp.nak

\* A stream that succeeds, with no reset() while it ran, has delivered every
\* byte, in order (a chunk whose first write was reported failed may be there
\* twice); one that was cancelled or failed never reports success.
StreamIsExact ==
    chunk.result = "ok" /\ ~chunk.resetIn =>
        /\ Range(chunk.target) = 1..chunk.total
        /\ \A i, j \in DOMAIN chunk.target : i < j /\ chunk.target[i] > chunk.target[j] => chunk.target[i] - chunk.target[j] < ChunkSize
        /\ chunk.sent = chunk.total

PacketsAreExact == SaharaRoundTrip /\ FieldsInPacket /\ CommandsRoundTrip /\ AnswersAreRead /\ StreamIsExact

\* What the code does not keep: escapes are never undone; an element below a
\* child is lost; a stream that succeeds may have written a chunk twice, and
\* after cancel() and reset() while it runs may have stopped halfway.
EscapesAreUndone ==
    fxml.stage = "parsed" /\ fxml.kind = "command" /\ fxml.n > 0 => \A x \in DOMAIN fxml.f : fxml.cmd.f[x] = fxml.f[x]
NestedSurvives == fxml.stage = "parsed" /\ fxml.kind = "answer" /\ fxml.n = Len(fxml.toks) => fxml.xml.ok /\ fxml.xml.e = fxml.e
SuccessIsComplete == chunk.result = "ok" => chunk.sent = chunk.total
WrittenOnce == chunk.result = "ok" => Len(chunk.target) = chunk.total
=============================================================================
