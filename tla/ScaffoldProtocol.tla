--------------------------- MODULE ScaffoldProtocol ---------------------------
(* The MediaTek and UNISOC protocols: their frames, the discovery that asks  *)
(* a device whether it speaks one of them, and the session's handshake, over *)
(* a line on which answers may be refused, late or arrive in pieces.         *)
EXTENDS Integers, Sequences, FiniteSets, SequencesExt

CONSTANTS
    B,              \* values of a byte, 0 .. B - 1; with 16 of them 0xAA is 10 and 0x55 is 5
    WireMessages,   \* messages given to the encoders: [code, payload]
    MaxExchanges    \* bound on the calls of a behaviour

VARIABLES
    wirecheck,      \* the message the encoders were given last
    line,           \* the device's bytes the host has not read
    device,         \* which format it speaks, and the requests it has yet to answer
    hcall,          \* the call of the host under way
    wsession,       \* m_transport of the session, per format, and what the last open() returned
    verdict,        \* the last probe() or open(): what it returned, and whether the line was silent before
    exchanges

wvars == <<wirecheck, line, device, hcall, wsession, verdict, exchanges>>

\* The two wire formats: the magic of requests and responses, the bytes of a
\* command or status, and how much a probe and a handshake want to read.
Formats ==
    [mediatek |-> [request |-> <<10, 5>>, response |-> <<5, 10>>, width |-> 2, probeMin |-> 6, openMin |-> 6],
     unisoc   |-> [request |-> <<>>,      response |-> <<>>,      width |-> 1, probeMin |-> 1, openMin |-> 3]]

\* Commands, small: Probe and Handshake; the version each session sends.
Probe == 1
Handshake == 2
VersionPayload == [mediatek |-> <<2, 0, 0, 0>>, unisoc |-> <<1, 0>>]

------------------------------------------------------------------------------
(* Frames.                                                                   *)

\* The lowest w bytes of n, the low one first.
LE(n, w) == [i \in 1..w |-> (n \div (B ^ (i - 1))) % B]
OfLE(s) == FoldRightDomain(LAMBDA i, acc : acc * B + s[i], s, 0)

\* A payload's size is cast to two bytes, and so much of it is sent.
makePacket(magic, width, code, payload) ==
    LET len == Len(payload) % (B ^ 2) IN magic \o LE(code, width) \o LE(len, 2) \o SubSeq(payload, 1, len)

makeRequestPacket(v, cmd, payload) == makePacket(Formats[v].request, Formats[v].width, cmd, payload)

makeResponsePacket(v, status, payload) == makePacket(Formats[v].response, Formats[v].width, status, payload)

\* encode() of a Response: UNISOC's keeps the low byte of the reason only.
encodeResponse(v, success, reason, payload) ==
    makeResponsePacket(v, IF v = "mediatek" /\ success THEN 0 ELSE reason % (B ^ Formats[v].width), payload)

WireError == [ok |-> FALSE, code |-> 0, payload |-> <<>>]

\* A frame whose payload is not all there is accepted with none.
decodeFrame(v, magic, d) ==
    LET m   == Len(magic)
        w   == Formats[v].width
        hdr == m + w + 2
        len == OfLE(SubSeq(d, m + w + 1, hdr))
    IN  IF Len(d) < hdr \/ SubSeq(d, 1, m) # magic THEN WireError
        ELSE [ok |-> TRUE, code |-> OfLE(SubSeq(d, m + 1, m + w)),
              payload |-> IF hdr + len <= Len(d) THEN SubSeq(d, hdr + 1, hdr + len) ELSE <<>>]

decodeRequest(v, d) == decodeFrame(v, Formats[v].request, d)

decodeResponse(v, d) == decodeFrame(v, Formats[v].response, d)

\* decodeEvent() skips the magic and the status unseen.
decodeEvent(v, d) ==
    LET f == decodeFrame(v, SubSeq(d, 1, Len(Formats[v].response)), d) IN IF f.ok THEN [f EXCEPT !.code = 0] ELSE WireError

encodes ==
    /\ wirecheck = <<>> /\ exchanges = 0
    /\ \E m \in WireMessages : wirecheck' = <<m>>
    /\ UNCHANGED <<line, device, hcall, wsession, verdict, exchanges>>

------------------------------------------------------------------------------
(* The host's calls: a write, then a read that may time out.                 *)

NoHostCall == [op |-> "none", v |-> "none", quiet |-> FALSE]

\* A request written to the device; a refused write ends the call.
Asked(op, v, cmd, payload) ==
    /\ wirecheck = <<>> /\ hcall = NoHostCall /\ exchanges < MaxExchanges
    /\ exchanges' = exchanges + 1
    /\ LET quiet == line = <<>> /\ device.asked = <<>>
       IN  \/ /\ hcall' = [op |-> op, v |-> v, quiet |-> quiet]
              /\ device' = [device EXCEPT !.asked = Append(@, makeRequestPacket(v, cmd, payload))]
              /\ UNCHANGED verdict
           \/ /\ verdict' = [op |-> op, v |-> v, quiet |-> quiet, ok |-> FALSE]
              /\ UNCHANGED <<hcall, device>>

probe(v) == Asked("probe", v, Probe, <<>>) /\ UNCHANGED <<wirecheck, line, wsession>>

\* open() keeps the transport whatever handshake() says.
open(v) ==
    /\ Asked("open", v, Handshake, VersionPayload[v])
    /\ wsession' = [wsession EXCEPT ![v] = TRUE]
    /\ UNCHANGED <<wirecheck, line>>

close(v) ==
    /\ wsession[v] /\ hcall = NoHostCall
    /\ wsession' = [wsession EXCEPT ![v] = FALSE]
    /\ UNCHANGED <<wirecheck, line, device, hcall, verdict, exchanges>>

\* Mutant: any answer of the right size is one of this protocol.
DetectedAnything(v, d) == Len(d) >= Formats[v].probeMin

\* What the bytes read mean to the call.
Detected(v, d) ==
    /\ Len(d) >= Formats[v].probeMin
    /\ IF v = "mediatek" THEN SubSeq(d, 1, 2) = Formats[v].response ELSE d[1] = 0

Agreed(v, d) ==
    /\ Len(d) >= Formats[v].openMin
    /\ SubSeq(d, 1, Len(Formats[v].response)) = Formats[v].response
    /\ OfLE(SubSeq(d, Len(Formats[v].response) + 1, Len(Formats[v].response) + Formats[v].width)) = 0

CallEnded(ok) ==
    /\ verdict' = [op |-> hcall.op, v |-> hcall.v, quiet |-> hcall.quiet, ok |-> ok]
    /\ hcall' = NoHostCall
    /\ UNCHANGED <<wirecheck, device, wsession, exchanges>>

\* The read takes what has arrived, at least the bytes asked for.
readAnswer ==
    /\ hcall # NoHostCall
    /\ LET least == IF hcall.op = "probe" THEN Formats[hcall.v].probeMin ELSE Formats[hcall.v].openMin
       IN  \E n \in least..Len(line) :
              /\ line' = SubSeq(line, n + 1, Len(line))
              /\ CallEnded(IF hcall.op = "probe" THEN Detected(hcall.v, SubSeq(line, 1, n)) ELSE Agreed(hcall.v, SubSeq(line, 1, n)))

readTimesOut ==
    /\ hcall # NoHostCall
    /\ CallEnded(FALSE) /\ UNCHANGED line

------------------------------------------------------------------------------
(* The device (external): it answers requests of its own format, now or      *)
(* later, and may refuse a handshake; other bytes it drops.                  *)

deviceAnswers ==
    /\ device.asked # <<>>
    /\ LET v == device.speaks
           r == IF v = "silent" THEN WireError ELSE decodeRequest(v, Head(device.asked))
       IN  IF r.ok
           THEN \E st \in IF r.code = Probe THEN {0} ELSE {0, 2} :
                   /\ line' = line \o makeResponsePacket(v, st, IF st = 0 THEN <<0, 1>> ELSE <<>>)
                   /\ device' = [device EXCEPT !.asked = Tail(@), !.agreed = @ \/ (r.code = Handshake /\ st = 0)]
           ELSE /\ device' = [device EXCEPT !.asked = Tail(@)]
                /\ UNCHANGED line
    /\ UNCHANGED <<wirecheck, hcall, wsession, verdict, exchanges>>

------------------------------------------------------------------------------
WInit ==
    /\ wirecheck = <<>> /\ line = <<>> /\ hcall = NoHostCall /\ exchanges = 0
    /\ device = [speaks |-> "none", asked |-> <<>>, agreed |-> FALSE]
    /\ wsession = [v \in DOMAIN Formats |-> FALSE]
    /\ verdict = [op |-> "none", v |-> "none", quiet |-> FALSE, ok |-> FALSE]

\* A device is plugged in.
plugIn ==
    /\ device.speaks = "none" /\ wirecheck = <<>>
    /\ \E v \in DOMAIN Formats \cup {"silent"} : device' = [device EXCEPT !.speaks = v]
    /\ UNCHANGED <<wirecheck, line, hcall, wsession, verdict, exchanges>>

WNext ==
    \/ device.speaks = "none" /\ encodes
    \/ plugIn
    \/ /\ device.speaks # "none"
       /\ \/ \E v \in DOMAIN Formats : probe(v) \/ open(v) \/ close(v)
          \/ readAnswer \/ readTimesOut \/ deviceAnswers

------------------------------------------------------------------------------
(* Correctness.                                                              *)

\* What an encoder wrote, the decoder of its format reads, also with bytes of
\* the next frame behind it, as long as the payload's size fits two bytes;
\* and no response is taken for a request or the other way round.
FramesAreExact ==
    \A i \in DOMAIN wirecheck, v \in DOMAIN Formats :
        LET m   == wirecheck[i]
            req == makeRequestPacket(v, m.code % (B ^ Formats[v].width), m.payload)
            res == encodeResponse(v, m.code = 0, m.code, m.payload)
            got == [ok |-> TRUE, code |-> m.code % (B ^ Formats[v].width), payload |-> m.payload]
        IN  Len(m.payload) < B ^ 2 =>
                /\ decodeRequest(v, req \o <<0, 1>>) = got
                /\ decodeResponse(v, res) = got
                /\ decodeEvent(v, res).payload = m.payload
                /\ v = "mediatek" => ~decodeRequest(v, res).ok /\ ~decodeResponse(v, req).ok

\* A probe that finds MediaTek has a MediaTek device before it, whatever was
\* left on the line; one that finds UNISOC, if nothing was left on the line.
ProbeIsHonest ==
    verdict.op = "probe" /\ verdict.ok /\ (verdict.quiet \/ verdict.v = "mediatek") => device.speaks = verdict.v

\* A session opened over a quiet line is one the device agreed to.
OpenedIsAgreed == verdict.op = "open" /\ verdict.ok /\ verdict.quiet => device.agreed /\ device.speaks = verdict.v

WireIsExact == FramesAreExact /\ ProbeIsHonest /\ OpenedIsAgreed

\* What the code does not keep: the late answer to a probe that timed out is
\* read as the answer to the next call, a session whose handshake failed stays
\* open, a frame cut short is accepted, and UNISOC's encoder turns a failure
\* whose reason has a zero low byte into success.
LateAnswersAreDropped == verdict.op = "open" /\ verdict.ok => device.agreed
FailedIsClosed == verdict.op = "open" /\ ~verdict.ok /\ hcall = NoHostCall => ~wsession[verdict.v]
CutIsRefused ==
    \A i \in DOMAIN wirecheck, v \in DOMAIN Formats :
        LET f == makeRequestPacket(v, 1, wirecheck[i].payload) IN ~decodeRequest(v, SubSeq(f, 1, Len(f) - 1)).ok
FailureIsKept ==
    \A i \in DOMAIN wirecheck, v \in DOMAIN Formats :
        wirecheck[i].code # 0 => decodeResponse(v, encodeResponse(v, FALSE, wirecheck[i].code, <<>>)).code # 0
=============================================================================
