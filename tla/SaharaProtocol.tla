--------------------------- MODULE SaharaProtocol ---------------------------
(***************************************************************************)
(* The host side of the Sahara protocol:                                   *)
(* lib/src/core/protocols/sahara/SaharaProtocol.cpp and the transition     *)
(* table of SaharaStateMachine.cpp.                                        *)
(*                                                                         *)
(* The device and the transport are external: a read delivers any packet   *)
(* the parser accepts, or fails; a write sends everything, fails, or sends *)
(* less than it was given and still reports success (PosixTcpBackend and   *)
(* PosixSerialBackend do when the time is up), which no caller notices. A  *)
(* call is cut at each of its reads, the points where cancel() of another  *)
(* thread can take effect through the transport.                           *)
(***************************************************************************)
EXTENDS Integers, FiniteSets

CONSTANTS
    MaxVersion,  \* device versions are 0..MaxVersion
    Word,        \* offsets and lengths are 0..Word-1 (2^32 in the code)
    DataSize,    \* programmerData.size()
    MaxCalls     \* bound on the calls of the client

ASSUME SaharaAssumption ==
    /\ MaxVersion \in Nat /\ Word \in Nat \ {0} /\ MaxCalls \in Nat
    /\ DataSize \in 0..(Word - 1)

hostVer    == 3   \* DefaultVersion
hostVerSup == 2   \* DefaultVersionSupported

VARIABLES
    pc,       \* the read the current call waits at, "idle" between calls
    phase,    \* m_phase
    sm,       \* m_stateMachine.m_currentState
    version,  \* m_negotiatedVersion
    hello,    \* history: the versions of the last HELLO
    info,     \* m_deviceInfo: the session each identity field was learned in, 0 if never
    cut,      \* the transport was cancelled
    asked,    \* cancel() was called and the transport not reopened since
    result,   \* what the last call returned
    chunk,    \* history: the byte range last written, offset and length
    owed,     \* history: ranges asked for in this upload and not wholly sent
    said,     \* history: those of them the transport said it had written
    acks,     \* history: replies received since the client called reset()
    session,  \* history: handshakes begun
    calls

call == <<pc, phase, sm, result>>
vars == <<call, version, hello, info, cut, asked, chunk, owed, said, acks, session, calls>>

Fields == {"chip", "serial", "msm", "pkhash"}
Waits  == {"hello", "chipId", "query1", "query2", "query3", "chunk", "doneResp", "resetResp"}
Phases == {"Idle", "Handshake", "Transferring", "WaitingForProgrammer", "Finished", "Error"}

------------------------------------------------------------------------------
(* SaharaStateMachine.                                                     *)

\* s_transitions as {from, event} -> to; event 0 is the first match of its two rows.
Table ==
    {<<0, 0, 1>>, <<1, 1, 2>>, <<1, 11, 11>>, <<2, 2, 3>>, <<3, 3, 4>>, <<4, 4, 5>>,
     <<5, 0, 3>>, <<3, 5, 6>>, <<6, 6, 7>>, <<7, 7, 8>>, <<8, 0, 1>>, <<3, 8, 9>>,
     <<9, 9, 10>>, <<10, 0, 12>>}
    \cup {<<s, 10, 11>> : s \in 1..7} \cup {<<s, 12, 11>> : s \in 0..10}

\* Mutant: an event without a row leaves the table instead of the state alone.
transitionFallsThrough(s, e) ==
    IF \E t \in Table : t[1] = s /\ t[2] = e
    THEN (CHOOSE t \in Table : t[1] = s /\ t[2] = e)[3]
    ELSE 13

\* An event without a row for the current state is an error every caller ignores.
transition(s, e) ==
    IF \E t \in Table : t[1] = s /\ t[2] = e
    THEN (CHOOSE t \in Table : t[1] = s /\ t[2] = e)[3]
    ELSE s

HelloReceived     == 1
HelloResponseSent == 2
ReadDataReceived  == 3
DataSent          == 4
EndImageReceived  == 5
ResetRequested    == 8
ResetResponseRecv == 9
ErrorOccurred     == 10

------------------------------------------------------------------------------
(* The other end of the transport.                                         *)

Versions == 0..MaxVersion

\* Mutant: the device's own version is never offered.
selectVersionNotDevice(ver, sup) == IF hostVer >= sup /\ hostVer <= ver THEN hostVer ELSE sup

selectVersion(ver, sup) ==
    IF hostVer >= sup /\ hostVer <= ver THEN hostVer
    ELSE IF ver >= hostVerSup /\ ver <= hostVer THEN ver ELSE sup

\* receivePacket(expected): END_IMAGE passes for every expected command.
receivePacket(expected) == {expected, "EndImage"}

\* A cancelled transport delivers nothing more; any other read may succeed.
delivered == ~cut

Init ==
    /\ pc = "idle" /\ phase = "Idle" /\ sm = 1 /\ result = "none"
    /\ version = 0 /\ hello = <<0, 0>>
    /\ info = [f \in Fields |-> 0]
    /\ cut = FALSE /\ asked = FALSE
    /\ chunk = <<0, 0>> /\ owed = {} /\ said = {} /\ acks = {}
    /\ session = 0 /\ calls = 0

Await(w)   == pc' = w /\ result' = result
Return(r)  == pc' = "idle" /\ result' = r
Begin      == pc = "idle" /\ calls < MaxCalls /\ calls' = calls + 1

------------------------------------------------------------------------------
(* handshake().                                                            *)

handshake ==
    /\ Begin
    /\ phase' = "Handshake"
    /\ session' = session + 1
    /\ Await("hello")
    /\ UNCHANGED <<sm, version, hello, info, cut, asked, chunk, owed, said, acks>>

failHandshake(s, r) ==
    /\ sm' = transition(s, ErrorOccurred)
    /\ phase' = "Error"
    /\ Return(r)

\* HELLO arrives, or nothing, or a packet that is neither HELLO nor END_IMAGE.
recvHelloFails ==
    /\ pc = "hello"
    /\ failHandshake(sm, "error")
    /\ UNCHANGED <<version, hello, info, cut, asked, chunk, owed, said, acks, session, calls>>

\* An END_IMAGE read as a HelloPacket yields arbitrary version fields, so the
\* two packets differ in nothing the host can see.
recvHello ==
    /\ pc = "hello"
    /\ delivered
    /\ \E ver, sup \in Versions :
          LET v == selectVersion(ver, sup) IN
          /\ hello' = <<ver, sup>>
          /\ version' = v
          /\ \/ /\ v < hostVerSup \/ v > hostVer \/ v < sup \/ v > ver
                /\ failHandshake(sm, "ProtocolMismatch")
             \/ /\ ~(v < hostVerSup \/ v > hostVer \/ v < sup \/ v > ver)
                /\ \/ failHandshake(transition(sm, HelloReceived), "error")   \* HELLO_RESP not sent
                   \/ /\ sm' = transition(transition(sm, HelloReceived), HelloResponseSent)
                      /\ phase' = phase
                      /\ Await(IF v >= 3 THEN "chipId" ELSE "query1")
    /\ UNCHANGED <<info, cut, asked, chunk, owed, said, acks, session, calls>>

learn(fields) == info' = [f \in Fields |-> IF f \in fields THEN session ELSE info[f]]

\* V3: READ_CHIPID, else the V2 queries.  An END_IMAGE is read as if it were a
\* READ_CHIPID, so the fields it sets are arbitrary but of this session.
recvChipId ==
    /\ pc = "chipId"
    /\ \/ /\ delivered
          /\ learn({"chip", "serial", "msm"})
          /\ phase' = "Idle"
          /\ Return("ok")
       \/ /\ Await("query1")
          /\ UNCHANGED <<phase, info>>
    /\ UNCHANGED <<sm, version, hello, cut, asked, chunk, owed, said, acks, session, calls>>

Query == [query1 |-> "serial", query2 |-> "msm", query3 |-> "pkhash"]
After == [query1 |-> "query2", query2 |-> "query3", query3 |-> "idle"]

endHandshake == phase' = "Idle" /\ Return("ok")

\* performV2Discovery: one EXECUTE request and its response.  A failure ends
\* the discovery and is only logged; a response may carry no usable payload.
performV2Discovery ==
    /\ pc \in DOMAIN Query
    /\ \/ endHandshake /\ UNCHANGED info
       \/ /\ delivered
          /\ learn({Query[pc]}) \/ UNCHANGED info
          /\ IF pc = "query3" THEN endHandshake ELSE Await(After[pc]) /\ UNCHANGED phase
    /\ UNCHANGED <<sm, version, hello, cut, asked, chunk, owed, said, acks, session, calls>>

------------------------------------------------------------------------------
(* uploadProgrammer().                                                     *)

uploadProgrammer ==
    /\ Begin
    /\ phase' = "Transferring"
    /\ chunk' = <<0, 0>> /\ owed' = {} /\ said' = {}
    /\ Await("chunk")
    /\ UNCHANGED <<sm, version, hello, info, cut, asked, acks, session>>

\* Mutant: the end of the range is computed first and may wrap around.
outOfRangeWraps(off, len) == (off + len) % Word > DataSize

outOfRange(off, len) == len > DataSize \/ off > DataSize - len

\* A write that reports success: write() returns a count that
\* uploadProgrammer() does not look at, so a shorter one passes as well.
written(off, len) ==
    /\ chunk' = <<off, len>>
    /\ \/ UNCHANGED <<owed, said>>
       \/ /\ len > 0
          /\ owed' = owed \cup {<<off, len>>}
          /\ said' = said \cup {<<off, len>>}

\* Mutant: a chunk that could not be written is not noticed.
sendChunkIgnoresFailure(off, len) ==
    /\ sm' = transition(transition(sm, ReadDataReceived), DataSent)
    /\ Await("chunk")
    /\ \/ written(off, len)
       \/ owed' = owed \cup {<<off, len>>} /\ UNCHANGED <<chunk, said>>

\* The write reports success and the loop goes on, or it fails and the call
\* returns.
sendChunk(off, len) ==
    \/ /\ written(off, len)
       /\ sm' = transition(transition(sm, ReadDataReceived), DataSent)
       /\ Await("chunk")
    \/ /\ owed' = owed \cup {<<off, len>>}
       /\ sm' = transition(sm, ReadDataReceived)
       /\ Return("error")
       /\ UNCHANGED <<chunk, said>>

recvReadData ==
    /\ pc = "chunk"
    /\ delivered
    /\ \E off, len \in 0..(Word - 1) :
          IF outOfRange(off, len)
          THEN /\ sm' = transition(sm, ReadDataReceived)
               /\ owed' = owed \cup {<<off, len>>}
               /\ Return("InvalidPacket")
               /\ UNCHANGED <<chunk, said>>
          ELSE sendChunk(off, len)
    /\ UNCHANGED <<phase, version, hello, info, cut, asked, acks, session, calls>>

recvEndImage ==
    /\ pc = "chunk"
    /\ delivered
    /\ \/ /\ sm' = transition(sm, EndImageReceived)
          /\ phase' = "WaitingForProgrammer"
          /\ Return("ok")
       \/ /\ Return("SaharaNakReadDataError")
          /\ UNCHANGED <<sm, phase>>
    /\ UNCHANGED <<version, hello, info, cut, asked, chunk, owed, said, acks, session, calls>>

------------------------------------------------------------------------------
(* reset().                                                                *)

reset ==
    /\ Begin
    /\ acks' = {}
    /\ \/ Await("doneResp")
       \/ Return("error")
    /\ UNCHANGED <<phase, sm, version, hello, info, cut, asked, chunk, owed, said, session>>

recvDoneResp ==
    /\ pc = "doneResp"
    /\ delivered
    /\ \E p \in receivePacket("DoneResp") : acks' = acks \cup {p}
    /\ \/ sm' = transition(sm, ResetRequested) /\ Await("resetResp")
       \/ UNCHANGED sm /\ Return("error")
    /\ UNCHANGED <<phase, version, hello, info, cut, asked, chunk, owed, said, session, calls>>

recvResetResp ==
    /\ pc = "resetResp"
    /\ delivered
    /\ \E p \in receivePacket("ResetResp") : acks' = acks \cup {p}
    /\ sm' = transition(sm, ResetResponseRecv)
    /\ phase' = "Finished"
    /\ Return("ok")
    /\ UNCHANGED <<version, hello, info, cut, asked, chunk, owed, said, session, calls>>

\* A read of uploadProgrammer() or reset() that fails returns at once.
recvFails ==
    /\ pc \in {"chunk", "doneResp", "resetResp"}
    /\ Return("error")
    /\ UNCHANGED <<phase, sm, version, hello, info, cut, asked, chunk, owed, said, acks, session, calls>>

------------------------------------------------------------------------------
\* Mutant: only m_cancelled is set, which nothing in the protocol reads.
cancelFlagOnly ==
    /\ asked' = TRUE
    /\ UNCHANGED <<call, version, hello, info, cut, chunk, owed, said, acks, session, calls>>

\* cancel() of any thread: m_cancelled is never read, the transport does the work.
cancel ==
    /\ cut' = TRUE /\ asked' = TRUE
    /\ UNCHANGED <<call, version, hello, info, chunk, owed, said, acks, session, calls>>

resetState ==
    /\ Begin
    /\ phase' = "Idle" /\ sm' = 1 /\ version' = 0
    /\ info' = [f \in Fields |-> 0]
    /\ UNCHANGED <<pc, result, hello, cut, asked, chunk, owed, said, acks, session>>

\* External: the client reopens the transport, which clears its cancel flag.
reopen ==
    /\ pc = "idle" /\ asked
    /\ cut' = FALSE /\ asked' = FALSE
    /\ UNCHANGED <<call, version, hello, info, chunk, owed, said, acks, session, calls>>

Client == handshake \/ uploadProgrammer \/ reset \/ resetState \/ reopen
Host   == recvHello \/ recvHelloFails \/ recvChipId \/ performV2Discovery
          \/ recvReadData \/ recvEndImage \/ recvDoneResp \/ recvResetResp \/ recvFails

Next == Client \/ Host \/ cancel

Spec == Init /\ [][Next]_vars

\* A blocked read returns: it times out after DefaultTimeoutMs.
FairSpec == Spec /\ WF_vars(Host)

------------------------------------------------------------------------------
(* Properties.                                                             *)

\* Every variable has its type.
TypeOK ==
    /\ pc \in Waits \cup {"idle"}
    /\ phase \in Phases
    /\ sm \in 0..12
    /\ version \in Versions
    /\ hello \in Versions \X Versions
    /\ info \in [Fields -> 0..session]
    /\ cut \in BOOLEAN /\ asked \in BOOLEAN
    /\ chunk \in (0..(Word - 1)) \X (0..(Word - 1))
    /\ owed \subseteq (0..(Word - 1)) \X (0..(Word - 1))
    /\ said \subseteq (0..(Word - 1)) \X (0..(Word - 1))
    /\ acks \subseteq {"DoneResp", "ResetResp", "EndImage"}
    /\ session \in 0..MaxCalls
    /\ result \in {"none", "ok", "error", "ProtocolMismatch", "InvalidPacket", "SaharaNakReadDataError"}

\* The versions both ends can speak.
common == {v \in hostVerSup..hostVer : hello[2] <= v /\ v <= hello[1]}

\* handshake() goes past HELLO exactly when the two version ranges meet, and
\* then with the highest version both ends speak: selectVersion followed by
\* the range test rejects no device that could be served.
BestVersion ==
    /\ pc \in {"chipId", "query1", "query2", "query3"}
          => version \in common /\ \A v \in common : v <= version
    /\ (result = "ProtocolMismatch" /\ pc = "idle" /\ phase = "Error") => common = {}

\* Every chunk handed to the transport lies inside the programmer image,
\* whatever offset and length the device asks for.
ChunksInImage == chunk[1] + chunk[2] <= DataSize

\* An upload that succeeded.
uploaded == pc = "idle" /\ phase = "WaitingForProgrammer" /\ result = "ok"

\* uploadProgrammer() reports success only when no range the device asked for
\* was refused or failed to be written on the way: whatever did not reach the
\* device whole, the transport had reported as written.
UploadIsComplete == uploaded => owed \subseteq said

\* "Upload the programmer": a successful upload sent every range the device
\* asked for.  Fails: the count write() returns is not looked at.
UploadIsWhole == uploaded => owed = {}

\* What deviceInfo() reports after a successful handshake was learned in it.
\* Fails: handshake() sets the fields this device sends and keeps the others.
IdentityIsOfThisDevice ==
    (pc = "idle" /\ phase = "Idle" /\ result = "ok") => \A f \in Fields : info[f] \in {0, session}

\* A cancelled transport ends every call, although the device may keep
\* asking for data for ever and uploadProgrammer() has no bound of its own.
CancelEndsCall == (pc # "idle" /\ asked) ~> pc = "idle"

\* SaharaProtocol.cpp:160, the comment in reset(): "DONE_REQ (0x05) ->
\* DONE_RESP (0x06) -> RESET_REQ (0x07) -> RESET_RESP (0x08)": success means
\* both replies arrived.
ResetFollowsProtocol ==
    (pc = "idle" /\ phase = "Finished" /\ result = "ok") => {"DoneResp", "ResetResp"} \subseteq acks

\* SaharaStateMachine.cpp:48, "WaitingResetResp -> Finished": a protocol that
\* has finished has its state machine in Finished.
MachineFinishes == phase = "Finished" => sm = 12
==============================================================================
