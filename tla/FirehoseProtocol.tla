-------------------------- MODULE FirehoseProtocol --------------------------
(***************************************************************************)
(* A Firehose device as the library drives it: FirehoseAdapter (open,      *)
(* close, the operations of IFlashDevice), FirehoseProtocol (configure     *)
(* with retries, commands) and FirehoseStreamEngine (chunked transfers).   *)
(*                                                                         *)
(* One thread operates, another may cancel between any two exchanges.  A   *)
(* unit of data stands for a block of bytes.  The device and the link are  *)
(* external: the device answers each command and each chunk with one       *)
(* message, a failed write may have arrived all the same, a write may be   *)
(* cut short although it is reported as done, a read may bring less than   *)
(* was asked for, and an answer may come after its timeout.                *)
(***************************************************************************)
EXTENDS Integers, Sequences

CONSTANTS
    ChunkTo, ChunkFrom,  \* maxPayloadSizeToTarget, maxPayloadSizeFromTarget
    Retries,             \* maxConfigureRetries
    MaxLen,              \* the longest transfer, in units
    MaxCalls             \* bound on operations and cancels

ASSUME FirehoseAssumption ==
    /\ ChunkTo \in Nat \ {0} /\ ChunkFrom \in Nat \ {0} /\ Retries \in Nat
    /\ MaxLen \in Nat /\ MaxCalls \in Nat

VARIABLES
    opened, topen,       \* m_open of the adapter; the transport is open
    configured, phase,   \* m_configured, m_phase
    cancelled,           \* m_cancelled of the protocol
    engine, stopped,     \* m_streamEngine exists; its m_cancelled
    pc, op, len,         \* where the operating thread is; its call
    attempt,             \* of performConfigure()
    sent, got,           \* totalSent; allData
    res,                 \* result of the last call
    link,                \* external: the answers under way to the host
    stored,              \* external: what the device holds of the last <program>
    ready,               \* external: the device has been configured since its start
    acked,               \* history: the device has accepted the command of this call
    early,               \* history: a <program> reached a device not configured
    foul,                \* history: something was still under way when the call began,
                         \* or one of its writes arrived otherwise than reported
    calls

adapter == <<opened, topen>>
proto   == <<configured, phase>>
flags   == <<cancelled, engine, stopped>>
call    == <<op, len, attempt>>
device  == <<link, stored, ready, acked, early>>
vars    == <<adapter, proto, flags, pc, call, sent, got, res, device, foul, calls>>

Init ==
    /\ opened = FALSE /\ topen = FALSE
    /\ configured = FALSE /\ phase = "Idle"
    /\ cancelled = FALSE /\ engine = FALSE /\ stopped = FALSE
    /\ pc = "idle" /\ op = "none" /\ len = 0 /\ attempt = 0 /\ sent = 0 /\ got = <<>>
    /\ res = "none"
    /\ link = <<>> /\ stored = <<>> /\ ready = FALSE /\ acked = FALSE /\ early = FALSE
    /\ foul = FALSE /\ calls = 0

Call == calls < MaxCalls /\ calls' = calls + 1

\* A call begins; answers of earlier exchanges may still be under way.
Begins == pc = "idle" /\ Call /\ foul' = (link # <<>>)

------------------------------------------------------------------------------
(* The link and the device.                                                *)

Msg(kind, unit) == [kind |-> kind, unit |-> unit]

Units(from, to) == [k \in 1..(to - from + 1) |-> Msg("raw", from + k - 1)]

\* The units a transfer of n units consists of.
Whole(n) == [k \in 1..n |-> k]

\* A write that fails: nothing happens, or it has arrived all the same.
Lost(delivered) == UNCHANGED <<device, foul>> \/ (delivered /\ foul' = TRUE)

\* A command other than <program>: one answer, for <read> with data behind it.
\* One that arrives cut short is refused, or not answered before the timeout.
DeviceCommand ==
    \E ok \in BOOLEAN :
        /\ acked' = ok
        /\ ready' = IF ok /\ op \in {"open", "reset"} THEN op = "open" ELSE ready
        /\ \E k \in 0..len :
              link' = link \o <<Msg(IF ok THEN "ACK" ELSE "NAK", 0)>>
                           \o IF op = "read" /\ ok THEN Units(1, k) ELSE <<>>
        /\ UNCHANGED <<stored, early>>

\* <program> is answered chunk by chunk.
DeviceProgram ==
    /\ stored' = <<>> /\ early' = (early \/ ~ready)
    /\ UNCHANGED <<link, ready, acked>>

DeviceChunk(from, to) ==
    \E ok \in BOOLEAN :
        /\ link' = Append(link, Msg(IF ok THEN "ACK" ELSE "NAK", 0))
        /\ stored' = IF ok THEN stored \o [k \in 1..(to - from) |-> from + k] ELSE stored
        /\ UNCHANGED <<ready, acked, early>>

\* A chunk that arrives cut short.
DeviceCut(from, to) ==
    \E n \in 1..(to - from - 1) :
        /\ link' \in {link} \cup {Append(link, Msg(a, 0)) : a \in {"ACK", "NAK"}}
        /\ stored' = stored \o [k \in 1..n |-> from + k]
        /\ UNCHANGED <<ready, acked, early>>

\* A write of a chunk that is reported as done: nobody looks at the count.
Written(from, to) ==
    \/ DeviceChunk(from, to) /\ UNCHANGED foul
    \/ DeviceCut(from, to) /\ foul' = TRUE

\* A read that runs into its timeout: the answer is lost, or still to come.
TimesOut == link' \in {<<>>, link}

------------------------------------------------------------------------------
(* FirehoseAdapter::open(), close() and FirehoseProtocol::performConfigure. *)

Return(r) == pc' = "idle" /\ res' = r

resetState ==
    /\ phase' = "Idle" /\ cancelled' = FALSE /\ configured' = FALSE
    /\ engine' = FALSE /\ stopped' = FALSE

open ==
    /\ Begins
    /\ op' = "open" /\ len' = 0 /\ attempt' = 0
    /\ \/ opened /\ Return("ok") /\ UNCHANGED topen
       \/ ~opened /\ Return("err") /\ UNCHANGED topen
       \/ ~opened /\ ~topen /\ pc' = "configure" /\ topen' = TRUE /\ UNCHANGED res
    /\ UNCHANGED <<opened, proto, flags, sent, got, device>>

close ==
    /\ pc = "idle" /\ Call
    /\ op' = "close" /\ Return("ok")
    /\ opened' = FALSE /\ topen' = FALSE /\ resetState /\ link' = <<>> /\ foul' = FALSE
    /\ UNCHANGED <<len, attempt, sent, got, stored, ready, acked, early>>

\* handshake() failed: open() closes the transport and nothing else.
openFails == Return("err") /\ topen' = FALSE /\ link' = <<>>

\* The head of the retry loop, then one attempt's write.
configure ==
    /\ pc = "configure"
    /\ \/ /\ attempt >= Retries
          /\ openFails /\ phase' = "Error"
          /\ UNCHANGED <<attempt, stored, ready, acked, early, foul>>
       \/ /\ attempt < Retries /\ cancelled
          /\ openFails
          /\ UNCHANGED <<phase, attempt, stored, ready, acked, early, foul>>
       \/ /\ attempt < Retries /\ ~cancelled
          /\ \/ DeviceCommand /\ pc' = "configured" /\ UNCHANGED <<attempt, foul>>
             \/ Lost(DeviceCommand) /\ attempt' = attempt + 1 /\ UNCHANGED pc
          /\ UNCHANGED <<res, topen, phase>>
    /\ UNCHANGED <<opened, configured, flags, op, len, sent, got, calls>>

\* Mutant: a timeout does not count as an attempt.
configureAnswerWaits ==
    /\ pc = "configured"
    /\ \/ /\ ~cancelled /\ link # <<>> /\ Head(link).kind = "ACK"
          /\ link' = Tail(link)
          /\ configured' = TRUE /\ phase' = "FirehoseReady" /\ opened' = TRUE
          /\ Return("ok") /\ UNCHANGED attempt
       \/ /\ ~cancelled /\ TimesOut
          /\ pc' = "configure" /\ UNCHANGED <<attempt, configured, phase, opened, res>>
    /\ UNCHANGED <<topen, flags, op, len, sent, got, stored, ready, acked, early, foul, calls>>

\* The answer to <configure>; anything but an ACK costs an attempt.
configureAnswer ==
    /\ pc = "configured"
    /\ \/ /\ ~cancelled /\ link # <<>> /\ Head(link).kind = "ACK"
          /\ link' = Tail(link)
          /\ configured' = TRUE /\ phase' = "FirehoseReady" /\ opened' = TRUE
          /\ Return("ok") /\ UNCHANGED attempt
       \/ /\ \/ cancelled /\ UNCHANGED link
             \/ ~cancelled /\ link # <<>> /\ Head(link).kind # "ACK" /\ link' = Tail(link)
             \/ ~cancelled /\ TimesOut
          /\ pc' = "configure" /\ attempt' = attempt + 1
          /\ UNCHANGED <<configured, phase, opened, res>>
    /\ UNCHANGED <<topen, flags, op, len, sent, got, stored, ready, acked, early, foul, calls>>

------------------------------------------------------------------------------
(* Commands without data: "erase" stands for erase, peek, poke, patch and  *)
(* configureMemory, "power" for the ones that do not look at the answer.   *)

command ==
    /\ Begins
    /\ op' \in {"erase", "power", "reset"} /\ len' = 0 /\ acked' = FALSE
    /\ IF opened THEN pc' = "command" /\ UNCHANGED res ELSE Return("err")
    /\ UNCHANGED <<adapter, proto, flags, attempt, sent, got, link, stored, ready, early>>

\* sendXmlCommand()
sendCommand ==
    /\ pc = "command"
    /\ \/ cancelled /\ Return("err") /\ UNCHANGED <<device, foul>>
       \/ ~cancelled /\ DeviceCommand /\ pc' = "answer" /\ UNCHANGED <<res, foul>>
       \/ ~cancelled /\ Lost(DeviceCommand) /\ Return("err")
    /\ UNCHANGED <<adapter, proto, flags, call, sent, got, calls>>

\* Mutant: reset() is the only command whose answer is looked at.
acceptsAnything(kind) == (op = "reset") => kind = "ACK"

\* What the caller of sendCommand() takes for success.
accepts(kind) == (op = "reset" => kind = "ACK") /\ (op = "erase" => kind # "NAK")

receiveResponse ==
    /\ pc = "answer"
    /\ \/ /\ cancelled
          /\ Return("err") /\ UNCHANGED <<link, configured, phase, opened>>
       \/ /\ ~cancelled /\ TimesOut
          /\ Return("err") /\ UNCHANGED <<configured, phase, opened>>
       \/ /\ ~cancelled /\ link # <<>>
          /\ link' = Tail(link)
          /\ Return(IF accepts(Head(link).kind) THEN "ok" ELSE "err")
          /\ IF op = "reset" /\ accepts(Head(link).kind)
             THEN configured' = FALSE /\ phase' = "Finished" /\ opened' = FALSE
             ELSE UNCHANGED <<configured, phase, opened>>
    /\ UNCHANGED <<topen, flags, call, sent, got, stored, ready, acked, early, foul, calls>>

------------------------------------------------------------------------------
(* program() and read() with FirehoseStreamEngine.                         *)

\* The engine is made by the first transfer, with a cancel flag of its own.
transfer ==
    /\ Begins
    /\ op' \in {"program", "read"} /\ len' \in 0..MaxLen
    /\ IF ~opened \/ ~configured
       THEN Return("err") /\ UNCHANGED <<phase, engine>>
       ELSE /\ phase' = "Transferring" /\ engine' = TRUE
            /\ pc' = op' /\ UNCHANGED res
    /\ UNCHANGED <<adapter, configured, cancelled, stopped, attempt, sent, got, device>>

transferFails == Return("err") /\ phase' = "Error"

\* streamToDevice() and streamFromDevice() begin with the command.
announce ==
    /\ pc \in {"program", "read"}
    /\ sent' = 0 /\ got' = <<>>
    /\ LET delivered == IF op = "program" THEN DeviceProgram ELSE DeviceCommand
       IN  \/ stopped /\ transferFails /\ UNCHANGED <<device, foul>>
           \/ ~stopped /\ Lost(delivered) /\ transferFails
           \/ /\ ~stopped /\ delivered
              /\ pc' = IF op = "program" THEN "chunk" ELSE "readAnswer"
              /\ UNCHANGED <<res, phase, foul>>
    /\ UNCHANGED <<adapter, configured, flags, call, calls>>

Least(a, b) == IF a < b THEN a ELSE b

\* Mutant: every chunk has the full size.
chunkSizeFull == ChunkTo

chunkSize == Least(len - sent, ChunkTo)

\* The head of the loop, and the first write of a chunk.
sendChunk ==
    /\ pc = "chunk"
    /\ \/ stopped /\ transferFails /\ UNCHANGED <<device, foul>>
       \/ /\ ~stopped /\ sent = len
          /\ Return("ok") /\ phase' = "FirehoseReady" /\ UNCHANGED <<device, foul>>
       \/ /\ ~stopped /\ sent # len
          /\ \/ Written(sent, sent + chunkSize) /\ pc' = "chunkAnswer"
             \/ Lost(DeviceChunk(sent, sent + chunkSize)) /\ pc' = "again"
          /\ UNCHANGED <<res, phase>>
    /\ UNCHANGED <<adapter, configured, flags, call, sent, got, calls>>

\* Mutant: the retry goes on with the next chunk.
sendChunkAgainSkips ==
    /\ pc = "again"
    /\ \/ stopped /\ transferFails /\ UNCHANGED <<device, foul>>
       \/ ~stopped /\ Lost(DeviceChunk(sent, sent + chunkSize)) /\ transferFails
       \/ /\ ~stopped /\ link' = Append(link, Msg("ACK", 0)) /\ pc' = "chunkAnswer"
          /\ UNCHANGED <<res, phase, stored, ready, acked, early, foul>>
    /\ UNCHANGED <<adapter, configured, flags, call, sent, got, calls>>

\* A failed write of a chunk is tried once more.
sendChunkAgain ==
    /\ pc = "again"
    /\ \/ stopped /\ transferFails /\ UNCHANGED <<device, foul>>
       \/ ~stopped /\ Lost(DeviceChunk(sent, sent + chunkSize)) /\ transferFails
       \/ /\ ~stopped /\ Written(sent, sent + chunkSize) /\ pc' = "chunkAnswer"
          /\ UNCHANGED <<res, phase>>
    /\ UNCHANGED <<adapter, configured, flags, call, sent, got, calls>>

\* Mutant: a refused chunk counts as sent.
chunkAnswerIgnoresNak ==
    /\ pc = "chunkAnswer"
    /\ \/ stopped /\ transferFails /\ UNCHANGED <<link, sent>>
       \/ ~stopped /\ TimesOut /\ transferFails /\ UNCHANGED sent
       \/ /\ ~stopped /\ link # <<>> /\ link' = Tail(link)
          /\ sent' = sent + chunkSize /\ pc' = "chunk" /\ UNCHANGED <<res, phase>>
    /\ UNCHANGED <<adapter, configured, flags, call, got, stored, ready, acked, early, foul, calls>>

chunkAnswer ==
    /\ pc = "chunkAnswer"
    /\ \/ stopped /\ transferFails /\ UNCHANGED <<link, sent>>
       \/ ~stopped /\ TimesOut /\ transferFails /\ UNCHANGED sent
       \/ /\ ~stopped /\ link # <<>> /\ link' = Tail(link)
          /\ IF Head(link).kind = "NAK" THEN transferFails /\ UNCHANGED sent
             ELSE sent' = sent + chunkSize /\ pc' = "chunk" /\ UNCHANGED <<res, phase>>
    /\ UNCHANGED <<adapter, configured, flags, call, got, stored, ready, acked, early, foul, calls>>

readAnswer ==
    /\ pc = "readAnswer"
    /\ \/ stopped /\ transferFails /\ UNCHANGED link
       \/ ~stopped /\ TimesOut /\ transferFails
       \/ /\ ~stopped /\ link # <<>> /\ link' = Tail(link)
          /\ IF Head(link).kind = "NAK" THEN transferFails
             ELSE pc' = "fetch" /\ UNCHANGED <<res, phase>>
    /\ UNCHANGED <<adapter, configured, flags, call, sent, got, stored, ready, acked, early, foul, calls>>

fetchSize == Least(len - Len(got), ChunkFrom)

\* Mutant: a timeout is taken for the end of the data.
receiveChunkShort ==
    /\ pc = "fetch"
    /\ \/ stopped /\ transferFails /\ UNCHANGED <<link, got>>
       \/ ~stopped /\ Len(got) = len /\ Return("ok") /\ UNCHANGED <<phase, link, got>>
       \/ ~stopped /\ Len(got) # len /\ TimesOut /\ Return("ok") /\ UNCHANGED <<phase, got>>
    /\ UNCHANGED <<adapter, configured, flags, call, sent, stored, ready, acked, early, foul, calls>>

\* The raw data arrives as a stream: a piece is whatever comes next, at most
\* what was asked for.  A read that brings nothing changes nothing.
receiveChunk ==
    /\ pc = "fetch"
    /\ \/ stopped /\ transferFails /\ UNCHANGED <<link, got>>
       \/ /\ ~stopped /\ Len(got) = len
          /\ Return("ok") /\ UNCHANGED <<phase, link, got>>
       \/ /\ ~stopped /\ Len(got) # len /\ TimesOut
          /\ transferFails /\ UNCHANGED got
       \/ /\ ~stopped /\ Len(got) # len
          /\ \E n \in 1..Least(fetchSize, Len(link)) :
                /\ got' = got \o [k \in 1..n |-> link[k].unit]
                /\ link' = SubSeq(link, n + 1, Len(link))
          /\ UNCHANGED <<pc, res, phase>>
    /\ UNCHANGED <<adapter, configured, flags, call, sent, stored, ready, acked, early, foul, calls>>

------------------------------------------------------------------------------

\* FirehoseProtocol::cancel(), from the other thread.
cancel ==
    /\ Call
    /\ cancelled' = TRUE /\ stopped' = engine
    /\ UNCHANGED <<adapter, proto, engine, pc, call, sent, got, res, device, foul>>

Working == configure \/ configureAnswer \/ sendCommand \/ receiveResponse \/ announce
           \/ sendChunk \/ sendChunkAgain \/ chunkAnswer \/ readAnswer \/ receiveChunk

Next == open \/ close \/ command \/ transfer \/ Working \/ cancel

Spec == Init /\ [][Next]_vars

\* The thread inside a call keeps going: every exchange ends, by its timeout
\* at the latest.
FairSpec == Spec /\ WF_vars(Working)

------------------------------------------------------------------------------
(* Properties.                                                             *)

\* Every variable has its type.
TypeOK ==
    /\ {opened, topen, configured, cancelled, engine, stopped, ready, acked, early, foul} \subseteq BOOLEAN
    /\ phase \in {"Idle", "FirehoseReady", "Transferring", "Finished", "Error"}
    /\ pc \in {"idle", "configure", "configured", "command", "answer", "program", "read",
               "chunk", "again", "chunkAnswer", "readAnswer", "fetch"}
    /\ op \in {"none", "open", "close", "erase", "power", "reset", "program", "read"}
    /\ len \in 0..MaxLen /\ attempt \in 0..Retries /\ sent \in 0..MaxLen
    /\ got \in Seq(0..MaxLen) /\ stored \in Seq(1..MaxLen)
    /\ link \in Seq([kind : {"ACK", "NAK", "raw"}, unit : 0..MaxLen])
    /\ res \in {"none", "ok", "err"}

Done(o) == pc = "idle" /\ op = o /\ res = "ok"

\* program() succeeds only when the device holds all the data, each unit once
\* and in order, whatever chunks were retried, answered late, refused or cut
\* short: unless something of an earlier call was still under way when it
\* began, or one of its own writes arrived otherwise than reported.
ProgramStoresAll == Done("program") /\ ~foul => stored = Whole(len)

\* read() succeeds only with all the data asked for, in order, in pieces of
\* whatever size: with the same exceptions.
ReadReturnsAll == Done("read") /\ ~foul => got = Whole(len)

\* A transfer that succeeds has moved everything, in either direction.
TransfersAreWhole == ProgramStoresAll /\ ReadReturnsAll

\* An erase, poke or patch that succeeds was accepted by the device, after any
\* calls, timeouts and cancels: unless an answer of an earlier call was still
\* under way when it began.
SuccessIsTheDevices == Done("erase") /\ ~foul => acked

\* docs/architecture/Firehose.md:9, "Every command expects a response - Firehose
\* is strictly command/response": the response an erase, poke or patch succeeds
\* with is the one to it, never that of an earlier command.
EveryAnswerIsItsOwn == Done("erase") => acked

\* Every call returns, however the link behaves and whenever cancel() comes.
CallsReturn == []<>(pc = "idle")

\* A write through the library is a delivery as FlashDelivery describes it.
Streaming == op = "program" /\ pc \in {"chunk", "again", "chunkAnswer"}

Delivery == INSTANCE FlashDelivery WITH
    want    <- IF op = "program" THEN len ELSE 0,
    have    <- IF foul \/ ~(Streaming \/ Done("program")) THEN 0
               ELSE IF stored = Whole(Len(stored)) THEN Len(stored) ELSE -1,
    verdict <- IF op # "program" THEN "none" ELSE IF foul THEN "foul"
               ELSE IF pc # "idle" THEN "busy" ELSE res

WritesAreDeliveries == Delivery!DSpec

\* The same of a transfer, on any link.
EveryTransferIsWhole ==
    /\ Done("program") => stored = Whole(len)
    /\ Done("read") => got = Whole(len)

\* docs/architecture/Firehose.md:89, of <configure>: "Must be sent before most
\* other commands": no <program> reaches a device that is not configured.
ConfigureComesFirst == ~early

\* docs/architecture/Firehose.md:244, "Cancellation via atomic flag": once
\* cancelled, the protocol hands the device no more data until it is reset.
CancelStopsTransfers == [][cancelled /\ cancelled' => Len(stored') <= Len(stored)]_vars

\* docs/architecture/Firehose.md:64, "Busy -> Configured: operation complete":
\* after a transfer that succeeded the protocol is ready again.
PhaseReturns == (Done("program") \/ Done("read")) => phase = "FirehoseReady"
=============================================================================
