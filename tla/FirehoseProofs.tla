--------------------------- MODULE FirehoseProofs ---------------------------
(***************************************************************************)
(* Proofs about FirehoseProtocol, for transfers and chunks of every size   *)
(* and any number of calls.                                                *)
(*                                                                         *)
(* As long as nothing foul has happened in a call, what is under way to    *)
(* the host is determined by the place its thread is at (Quiet), and so is *)
(* what the device holds of a write (Held), whenever a cancel() or a       *)
(* timeout comes: what they leave behind is found by the next call.        *)
(***************************************************************************)
EXTENDS FirehoseProtocol, SequenceTheorems, TLAPS

\* The call each place belongs to, and what its numbers are bounded by there.
Places ==
    /\ pc \in {"configure", "configured"} => op = "open"
    /\ pc \in {"command", "answer"} => op \in {"erase", "power", "reset"}
    /\ pc \in {"program", "chunk", "again", "chunkAnswer"} => op = "program"
    /\ pc \in {"read", "readAnswer", "fetch"} => op = "read"
    /\ pc = "configured" => attempt < Retries
    /\ pc = "chunk" => sent <= len
    /\ pc \in {"again", "chunkAnswer"} => sent < len
    /\ pc = "readAnswer" => got = <<>>
    /\ pc = "fetch" => Len(got) <= len
    /\ pc = "idle" /\ op = "program" => res # "none"

\* What is under way to the host in a call that is not foul.
Quiet ==
    ~foul =>
        /\ pc \in {"command", "program", "read", "chunk", "again"} => link = <<>>
        /\ pc \in {"answer", "chunkAnswer"} => Len(link) = 1
        /\ pc = "answer" /\ link[1].kind # "NAK" => acked
        /\ pc = "readAnswer" =>
              \/ Len(link) = 1 /\ link[1].kind = "NAK"
              \/ \E k \in 0..len : link = <<Msg("ACK", 0)>> \o Units(1, k)
        /\ pc = "fetch" =>
              /\ got = Whole(Len(got))
              /\ \E k \in Len(got)..len : link = Units(Len(got) + 1, k)

\* What the device holds while a program is under way, and what its answer to
\* the last chunk says of it.
Held ==
    ~foul =>
        /\ pc \in {"chunk", "again"} => stored = Whole(sent)
        /\ pc = "chunkAnswer" =>
              \/ stored = Whole(sent) /\ link[1].kind = "NAK"
              \/ stored = Whole(sent + chunkSize) /\ link[1].kind = "ACK"

\* The inductive invariants: the types, then the answers, then the transfers.
Bounded == TypeOK /\ Places
AnswerInv == Bounded /\ Quiet /\ SuccessIsTheDevices
TransferInv == AnswerInv /\ Held /\ TransfersAreWhole

-----------------------------------------------------------------------------
(* Types.                                                                  *)

\* What the link carries.
Messages == [kind : {"ACK", "NAK", "raw"}, unit : 0..MaxLen]

\* The types of the link and the device.
DeviceTypes ==
    /\ link \in Seq(Messages) /\ stored \in Seq(1..MaxLen)
    /\ ready \in BOOLEAN /\ acked \in BOOLEAN /\ early \in BOOLEAN

\* The types of everything else.
HostTypes ==
    /\ opened \in BOOLEAN /\ topen \in BOOLEAN /\ configured \in BOOLEAN
    /\ cancelled \in BOOLEAN /\ engine \in BOOLEAN /\ stopped \in BOOLEAN
    /\ phase \in {"Idle", "FirehoseReady", "Transferring", "Finished", "Error"}
    /\ pc \in {"idle", "configure", "configured", "command", "answer", "program", "read",
               "chunk", "again", "chunkAnswer", "readAnswer", "fetch"}
    /\ op \in {"none", "open", "close", "erase", "power", "reset", "program", "read"}
    /\ len \in 0..MaxLen /\ attempt \in 0..Retries /\ sent \in 0..MaxLen
    /\ got \in Seq(0..MaxLen)
    /\ res \in {"none", "ok", "err"}

\* The typing invariant in its parts.
LEMMA TypesApart == TypeOK <=> HostTypes /\ DeviceTypes /\ foul \in BOOLEAN
<1> DEFINE F == {opened, topen, configured, cancelled, engine, stopped, ready, acked, early, foul} \subseteq BOOLEAN
           B == /\ opened \in BOOLEAN /\ topen \in BOOLEAN /\ configured \in BOOLEAN
                /\ cancelled \in BOOLEAN /\ engine \in BOOLEAN /\ stopped \in BOOLEAN
                /\ ready \in BOOLEAN /\ acked \in BOOLEAN /\ early \in BOOLEAN /\ foul \in BOOLEAN
<1>1. F <=> B
  BY Zenon
<1> HIDE DEF F
<1>2. QED
  BY <1>1, Zenon DEF F, TypeOK, HostTypes, DeviceTypes, Messages

\* A message and the units of a transfer are messages.
LEMMA MessageTypes ==
    /\ \A k \in {"ACK", "NAK"} : Msg(k, 0) \in Messages /\ <<Msg(k, 0)>> \in Seq(Messages)
    /\ \A k \in 0..MaxLen : Units(1, k) \in Seq(Messages) /\ Len(Units(1, k)) = k
<1> USE FirehoseAssumption
<1>1. ASSUME NEW k \in {"ACK", "NAK"} PROVE Msg(k, 0) \in Messages /\ <<Msg(k, 0)>> \in Seq(Messages)
  <2>1. Msg(k, 0) \in Messages
    BY DEF Msg, Messages
  <2>2. QED
    BY <2>1
<1>2. ASSUME NEW k \in 0..MaxLen PROVE Units(1, k) \in Seq(Messages) /\ Len(Units(1, k)) = k
  <2>1. Units(1, k) = [u \in 1..k |-> Msg("raw", u)]
    BY DEF Units
  <2>2. \A u \in 1..k : Msg("raw", u) \in Messages
    BY DEF Msg, Messages
  <2>3. QED
    BY <2>1, <2>2
<1>3. QED
  BY <1>1, <1>2

\* The device answers a command with messages.
LEMMA CommandTypes == ASSUME DeviceTypes, len \in 0..MaxLen, DeviceCommand PROVE DeviceTypes'
<1> USE FirehoseAssumption
<1>1. PICK ok \in BOOLEAN :
         /\ acked' = ok
         /\ ready' = IF ok /\ op \in {"open", "reset"} THEN op = "open" ELSE ready
         /\ \E k \in 0..len :
               link' = link \o <<Msg(IF ok THEN "ACK" ELSE "NAK", 0)>>
                            \o IF op = "read" /\ ok THEN Units(1, k) ELSE <<>>
         /\ UNCHANGED <<stored, early>>
  BY DEF DeviceCommand
<1>2. PICK k \in 0..len :
         link' = link \o <<Msg(IF ok THEN "ACK" ELSE "NAK", 0)>>
                      \o IF op = "read" /\ ok THEN Units(1, k) ELSE <<>>
  BY <1>1
<1> DEFINE A == <<Msg(IF ok THEN "ACK" ELSE "NAK", 0)>>
           D == IF op = "read" /\ ok THEN Units(1, k) ELSE <<>>
<1>3. A \in Seq(Messages)
  BY MessageTypes
<1>4. D \in Seq(Messages)
  BY MessageTypes
<1>5. link' = link \o A \o D
  BY <1>2
<1> HIDE DEF A, D
<1>6. link' \in Seq(Messages)
  BY <1>3, <1>4, <1>5 DEF DeviceTypes
<1>7. ready' \in BOOLEAN
  BY <1>1 DEF DeviceTypes
<1>8. QED
  BY <1>1, <1>6, <1>7 DEF DeviceTypes

\* A <program> empties what the device holds.
LEMMA ProgramTypes == ASSUME DeviceTypes, DeviceProgram PROVE DeviceTypes'
<1>1. early' \in BOOLEAN
  BY DEF DeviceTypes, DeviceProgram
<1>2. stored' \in Seq(1..MaxLen)
  BY DEF DeviceTypes, DeviceProgram
<1>3. QED
  BY <1>1, <1>2 DEF DeviceTypes, DeviceProgram

\* A chunk has between one unit and ChunkTo, and ends within the transfer.
LEMMA ChunkIsWithin ==
    ASSUME sent \in Nat, len \in Nat, sent < len
    PROVE  chunkSize \in 1..ChunkTo /\ sent + chunkSize <= len
BY FirehoseAssumption DEF chunkSize, Least

\* A chunk is answered with a message and may be stored.
LEMMA ChunkTypes ==
    ASSUME DeviceTypes, HostTypes, sent < len, DeviceChunk(sent, sent + chunkSize)
    PROVE  DeviceTypes'
<1> USE FirehoseAssumption
<1> DEFINE C == [k \in 1..((sent + chunkSize) - sent) |-> sent + k]
<1>1. PICK ok \in BOOLEAN :
         /\ link' = Append(link, Msg(IF ok THEN "ACK" ELSE "NAK", 0))
         /\ stored' = IF ok THEN stored \o C ELSE stored
         /\ UNCHANGED <<ready, acked, early>>
  BY DEF DeviceChunk
<1>2. sent \in Nat /\ len \in Nat /\ len <= MaxLen /\ chunkSize \in Nat /\ sent + chunkSize <= len
  BY ChunkIsWithin DEF HostTypes
<1>3. C \in Seq(1..MaxLen)
  BY <1>2
<1> HIDE DEF C
<1>4. stored' \in Seq(1..MaxLen)
  <2>1. stored \o C \in Seq(1..MaxLen)
    BY <1>3 DEF DeviceTypes
  <2>2. QED
    BY <1>1, <2>1 DEF DeviceTypes
<1>5. link' \in Seq(Messages)
  BY <1>1, MessageTypes DEF DeviceTypes
<1>6. QED
  BY <1>1, <1>4, <1>5 DEF DeviceTypes

\* So may the first part of one.
LEMMA CutTypes ==
    ASSUME DeviceTypes, HostTypes, sent < len, DeviceCut(sent, sent + chunkSize)
    PROVE  DeviceTypes'
<1> USE FirehoseAssumption
<1>1. PICK n \in 1..((sent + chunkSize) - sent - 1) :
         /\ link' \in {link} \cup {Append(link, Msg(a, 0)) : a \in {"ACK", "NAK"}}
         /\ stored' = stored \o [k \in 1..n |-> sent + k]
         /\ UNCHANGED <<ready, acked, early>>
  BY DEF DeviceCut
<1> DEFINE C == [k \in 1..n |-> sent + k]
<1>2. sent \in Nat /\ len \in Nat /\ len <= MaxLen /\ chunkSize \in Nat /\ sent + chunkSize <= len
  BY ChunkIsWithin DEF HostTypes
<1>3. n \in Nat /\ sent + n <= len
  BY <1>2
<1>4. C \in Seq(1..MaxLen)
  BY <1>2, <1>3
<1>5. stored' \in Seq(1..MaxLen)
  <2>1. stored' = stored \o C
    BY <1>1
  <2> HIDE DEF C
  <2>2. QED
    BY <1>4, <2>1 DEF DeviceTypes
<1>6. link' \in Seq(Messages)
  <2>1. CASE link' = link
    BY <2>1 DEF DeviceTypes
  <2>2. ASSUME NEW a \in {"ACK", "NAK"}, link' = Append(link, Msg(a, 0)) PROVE link' \in Seq(Messages)
    BY <2>2, MessageTypes DEF DeviceTypes
  <2>3. QED
    BY <1>1, <2>1, <2>2
<1>7. QED
  BY <1>1, <1>5, <1>6 DEF DeviceTypes

\* What a read takes from the link are units, and it leaves messages.
LEMMA FetchedTypes ==
    ASSUME HostTypes, DeviceTypes, Places, pc = "fetch", NEW n \in 1..Least(fetchSize, Len(link)),
           got' = got \o [k \in 1..n |-> link[k].unit], link' = SubSeq(link, n + 1, Len(link))
    PROVE  got' \in Seq(0..MaxLen) /\ link' \in Seq(Messages) /\ Len(got') = Len(got) + n
<1> USE FirehoseAssumption
<1>1. link \in Seq(Messages) /\ Len(link) \in Nat /\ got \in Seq(0..MaxLen)
  BY DEF DeviceTypes, HostTypes
<1>2. n \in Nat /\ n <= Len(link)
  <2>1. Len(got) \in Nat /\ Len(got) <= len /\ len \in Nat
    BY DEF Places, HostTypes
  <2>2. fetchSize \in Nat
    BY <2>1 DEF fetchSize, Least
  <2>3. QED
    BY <1>1, <2>2 DEF Least
<1> DEFINE U == [k \in 1..n |-> link[k].unit]
<1>3. U \in Seq(0..MaxLen) /\ Len(U) = n
  <2>1. \A k \in 1..n : link[k] \in Messages
    BY <1>1, <1>2
  <2>2. \A k \in 1..n : link[k].unit \in 0..MaxLen
    BY <2>1 DEF Messages
  <2>3. QED
    BY <1>2, <2>2
<1>4. got' = got \o U
  OBVIOUS
<1> HIDE DEF U
<1>5. got' \in Seq(0..MaxLen) /\ Len(got') = Len(got) + n
  <2>1. got \o U \in Seq(0..MaxLen) /\ Len(got \o U) = Len(got) + Len(U)
    BY <1>1, <1>3, ConcatProperties
  <2>2. QED
    BY <1>3, <1>4, <2>1
<1>6. link' \in Seq(Messages)
  BY <1>1, <1>2
<1>7. QED
  BY <1>5, <1>6

\* Every step keeps the types of the host's side.
LEMMA HostStep == ASSUME HostTypes, DeviceTypes, Places, [Next]_vars PROVE HostTypes'
<1> USE FirehoseAssumption DEF HostTypes
<1>1. CASE open
  <2>1. UNCHANGED <<cancelled, engine, stopped>>
    BY <1>1 DEF open, Begins, flags
  <2>2. opened' \in BOOLEAN
    BY <1>1 DEF open
  <2>3. topen' \in BOOLEAN
    BY <1>1 DEF open
  <2>4. configured' \in BOOLEAN
    BY <1>1 DEF open, proto
  <2>5. phase' \in {"Idle", "FirehoseReady", "Transferring", "Finished", "Error"}
    BY <1>1 DEF open, proto
  <2>6. len' \in 0..MaxLen /\ sent' = sent /\ got' = got /\ op' \in {op, "open"}
    BY <1>1 DEF open, call
  <2>7. attempt' \in 0..Retries
    BY <1>1 DEF open, Begins, call, Places
  <2>8. pc' \in {pc, "idle", "configure", "configured"} /\ res' \in {res, "ok", "err"}
    BY <1>1 DEF open, Return
  <2>9. QED
    BY <2>1, <2>2, <2>3, <2>4, <2>5, <2>6, <2>7, <2>8
<1>2. CASE close
  BY <1>2 DEF close, Call, Return, resetState
<1>3. CASE command
  BY <1>3 DEF command, Begins, Call, Return, adapter, proto, flags
<1>4. CASE transfer
  BY <1>4 DEF transfer, Begins, Call, Return, adapter
<1>5. CASE configure
  <2>1. UNCHANGED <<cancelled, engine, stopped>>
    BY <1>5 DEF configure, flags
  <2>2. opened' \in BOOLEAN
    BY <1>5 DEF configure, openFails
  <2>3. topen' \in BOOLEAN
    BY <1>5 DEF configure, openFails
  <2>4. configured' \in BOOLEAN
    BY <1>5 DEF configure
  <2>5. phase' \in {"Idle", "FirehoseReady", "Transferring", "Finished", "Error"}
    BY <1>5 DEF configure
  <2>6. len' \in 0..MaxLen /\ sent' = sent /\ got' = got /\ op' \in {op, "open"}
    BY <1>5 DEF configure, call
  <2>7. attempt' \in 0..Retries
    BY <1>5 DEF configure, call, Places
  <2>8. pc' \in {pc, "idle", "configure", "configured"} /\ res' \in {res, "ok", "err"}
    BY <1>5 DEF configure, Return, openFails
  <2>9. QED
    BY <2>1, <2>2, <2>3, <2>4, <2>5, <2>6, <2>7, <2>8
<1>6. CASE configureAnswer
  <2>1. UNCHANGED <<cancelled, engine, stopped>>
    BY <1>6 DEF configureAnswer, flags
  <2>2. opened' \in BOOLEAN
    BY <1>6 DEF configureAnswer
  <2>3. topen' \in BOOLEAN
    BY <1>6 DEF configureAnswer
  <2>4. configured' \in BOOLEAN
    BY <1>6 DEF configureAnswer
  <2>5. phase' \in {"Idle", "FirehoseReady", "Transferring", "Finished", "Error"}
    BY <1>6 DEF configureAnswer
  <2>6. len' \in 0..MaxLen /\ sent' = sent /\ got' = got /\ op' \in {op, "open"}
    BY <1>6 DEF configureAnswer, call
  <2>7. attempt' \in 0..Retries
    BY <1>6 DEF configureAnswer, call, Places
  <2>8. pc' \in {pc, "idle", "configure", "configured"} /\ res' \in {res, "ok", "err"}
    BY <1>6 DEF configureAnswer, Return
  <2>9. QED
    BY <2>1, <2>2, <2>3, <2>4, <2>5, <2>6, <2>7, <2>8
<1>7. CASE sendCommand
  BY <1>7 DEF sendCommand, Return, adapter, proto, flags, call
<1>8. CASE receiveResponse
  <2>1. UNCHANGED <<cancelled, engine, stopped>>
    BY <1>8 DEF receiveResponse, flags
  <2>2. opened' \in BOOLEAN
    BY <1>8 DEF receiveResponse
  <2>3. topen' \in BOOLEAN
    BY <1>8 DEF receiveResponse
  <2>4. configured' \in BOOLEAN
    BY <1>8 DEF receiveResponse
  <2>5. phase' \in {"Idle", "FirehoseReady", "Transferring", "Finished", "Error"}
    BY <1>8 DEF receiveResponse
  <2>6. len' \in 0..MaxLen /\ sent' = sent /\ got' = got /\ op' \in {op, "open"}
    BY <1>8 DEF receiveResponse, call
  <2>7. attempt' \in 0..Retries
    BY <1>8 DEF receiveResponse, call, Places
  <2>8. pc' \in {pc, "idle", "configure", "configured"} /\ res' \in {res, "ok", "err"}
    BY <1>8 DEF receiveResponse, Return
  <2>9. QED
    BY <2>1, <2>2, <2>3, <2>4, <2>5, <2>6, <2>7, <2>8
<1>9. CASE announce
  BY <1>9 DEF announce, transferFails, Return, adapter, flags, call
<1>10. CASE sendChunk
  BY <1>10 DEF sendChunk, transferFails, Return, adapter, flags, call
<1>11. CASE sendChunkAgain
  BY <1>11 DEF sendChunkAgain, transferFails, Return, adapter, flags, call
<1>12. CASE chunkAnswer
  <2>1. sent + chunkSize \in 0..MaxLen
    BY <1>12, ChunkIsWithin DEF chunkAnswer, Places
  <2>2. QED
    BY <1>12, <2>1 DEF chunkAnswer, transferFails, Return, adapter, flags, call
<1>13. CASE readAnswer
  BY <1>13 DEF readAnswer, transferFails, Return, adapter, flags, call
<1>14. CASE receiveChunk
  <2>1. got' \in Seq(0..MaxLen)
    <3>1. CASE UNCHANGED got
      BY <3>1
    <3>2. ASSUME NEW n \in 1..Least(fetchSize, Len(link)),
                 got' = got \o [k \in 1..n |-> link[k].unit], link' = SubSeq(link, n + 1, Len(link))
          PROVE  got' \in Seq(0..MaxLen)
      <4>1. pc = "fetch"
        BY <1>14 DEF receiveChunk
      <4>2. QED
        BY <3>2, <4>1, FetchedTypes
    <3>3. QED
      BY <1>14, <3>1, <3>2 DEF receiveChunk
  <2>2. QED
    BY <1>14, <2>1 DEF receiveChunk, transferFails, Return, adapter, flags, call
<1>15. CASE cancel
  BY <1>15 DEF cancel, adapter, proto, call
<1>16. CASE UNCHANGED vars
  BY <1>16 DEF vars, adapter, proto, flags, call
<1>17. QED
  BY <1>1, <1>2, <1>3, <1>4, <1>5, <1>6, <1>7, <1>8, <1>9, <1>10, <1>11, <1>12, <1>13, <1>14, <1>15, <1>16 DEF Next, Working

\* Every step keeps the types of the link and the device.
LEMMA DeviceStep == ASSUME HostTypes, DeviceTypes, Places, [Next]_vars PROVE DeviceTypes'
<1>1. UNCHANGED device => DeviceTypes'
  BY DEF DeviceTypes, device
<1>2. len \in 0..MaxLen
  BY DEF HostTypes
<1>3. DeviceCommand \/ DeviceProgram => DeviceTypes'
  BY <1>2, CommandTypes, ProgramTypes
<1>4. sent < len /\ (DeviceChunk(sent, sent + chunkSize) \/ DeviceCut(sent, sent + chunkSize)) => DeviceTypes'
  BY ChunkTypes, CutTypes
<1>5. link' \in {<<>>, link} \/ (link # <<>> /\ link' = Tail(link)) => link' \in Seq(Messages)
  <2>1. link \in Seq(Messages) /\ <<>> \in Seq(Messages)
    BY DEF DeviceTypes
  <2>2. link # <<>> => Tail(link) \in Seq(Messages)
    BY <2>1
  <2>3. QED
    BY <2>1, <2>2
<1>6. CASE open \/ transfer \/ cancel \/ UNCHANGED vars
  BY <1>1, <1>6 DEF open, transfer, cancel, vars
<1>7. CASE close \/ command
  BY <1>5, <1>7 DEF close, command, DeviceTypes
<1>8. CASE configure
  <2>1. CASE DeviceCommand \/ UNCHANGED device
    BY <1>1, <1>3, <2>1
  <2>2. CASE openFails /\ UNCHANGED <<stored, ready, acked, early>>
    BY <1>5, <2>2 DEF openFails, DeviceTypes
  <2>3. QED
    BY <1>8, <2>1, <2>2 DEF configure, Lost
<1>9. CASE configureAnswer \/ receiveResponse \/ chunkAnswer \/ readAnswer
  <2>1. UNCHANGED <<stored, ready, acked, early>>
    BY <1>9 DEF configureAnswer, receiveResponse, chunkAnswer, readAnswer
  <2>2. link' \in {<<>>, link} \/ (link # <<>> /\ link' = Tail(link))
    <3>1. TimesOut => link' \in {<<>>, link}
      BY DEF TimesOut
    <3>2. QED
      BY <1>9, <3>1 DEF configureAnswer, receiveResponse, chunkAnswer, readAnswer
  <2>3. QED
    BY <1>5, <2>1, <2>2 DEF DeviceTypes
<1>10. CASE sendCommand \/ announce
  BY <1>1, <1>3, <1>10 DEF sendCommand, announce, Lost
<1>11. CASE sendChunk \/ sendChunkAgain
  <2>1. CASE UNCHANGED device
    BY <1>1, <2>1
  <2>2. CASE ~UNCHANGED device
    <3>1. sent < len
      BY <1>11, <2>2 DEF sendChunk, sendChunkAgain, Places, HostTypes
    <3>2. QED
      BY <1>4, <1>11, <2>2, <3>1 DEF sendChunk, sendChunkAgain, Lost, Written
  <2>3. QED
    BY <2>1, <2>2
<1>12. CASE receiveChunk
  <2>1. UNCHANGED <<stored, ready, acked, early>>
    BY <1>12 DEF receiveChunk
  <2>2. CASE link' \in {<<>>, link}
    BY <1>5, <2>1, <2>2 DEF DeviceTypes
  <2>3. ASSUME NEW n \in 1..Least(fetchSize, Len(link)),
               got' = got \o [k \in 1..n |-> link[k].unit], link' = SubSeq(link, n + 1, Len(link))
        PROVE  DeviceTypes'
    <3>1. pc = "fetch"
      BY <1>12 DEF receiveChunk
    <3>2. link' \in Seq(Messages)
      BY <2>3, <3>1, FetchedTypes
    <3>3. QED
      BY <2>1, <3>2 DEF DeviceTypes
  <2>4. QED
    BY <1>12, <2>2, <2>3 DEF receiveChunk, TimesOut
<1>13. QED
  BY <1>6, <1>7, <1>8, <1>9, <1>10, <1>11, <1>12 DEF Next, Working

\* A piece of a read ends within it.
LEMMA FetchIsWithin ==
    ASSUME got \in Seq(0..MaxLen), len \in Nat, Len(got) <= len
    PROVE  /\ fetchSize \in Nat /\ Len(got) + fetchSize <= len
           /\ Len(got) # len => fetchSize >= 1
BY FirehoseAssumption DEF fetchSize, Least

\* Every step keeps the places of the calls.
LEMMA PlacesStep == ASSUME HostTypes, DeviceTypes, Places, [Next]_vars PROVE Places'
<1> USE DEF Places
<1>0. len \in Nat /\ sent \in Nat /\ attempt \in Nat /\ Retries \in Nat /\ got \in Seq(0..MaxLen)
  BY FirehoseAssumption DEF HostTypes
<1>1. CASE open
  BY <1>0, <1>1 DEF open, Begins, Call, Return, proto, flags
<1>2. CASE close
  BY <1>0, <1>2 DEF close, Call, Return, resetState
<1>3. CASE command
  BY <1>0, <1>3 DEF command, Begins, Call, Return, adapter, proto, flags
<1>4. CASE transfer
  BY <1>0, <1>4 DEF transfer, Begins, Call, Return, adapter
<1>5. CASE configure
  BY <1>0, <1>5 DEF configure, openFails, Return, flags
<1>6. CASE configureAnswer
  BY <1>0, <1>6 DEF configureAnswer, Return, flags
<1>7. CASE sendCommand
  BY <1>0, <1>7 DEF sendCommand, Return, adapter, proto, flags, call
<1>8. CASE receiveResponse
  BY <1>0, <1>8 DEF receiveResponse, Return, flags, call
<1>9. CASE announce
  BY <1>0, <1>9 DEF announce, transferFails, Return, adapter, flags, call
<1>10. CASE sendChunk
  BY <1>0, <1>10 DEF sendChunk, transferFails, Return, adapter, flags, call
<1>11. CASE sendChunkAgain
  BY <1>0, <1>11 DEF sendChunkAgain, transferFails, Return, adapter, flags, call
<1>12. CASE chunkAnswer
  <2>1. sent + chunkSize <= len
    BY <1>0, <1>12, ChunkIsWithin DEF chunkAnswer
  <2>2. QED
    BY <1>12, <2>1 DEF chunkAnswer, transferFails, Return, adapter, flags, call
<1>13. CASE readAnswer
  BY <1>0, <1>13 DEF readAnswer, transferFails, Return, adapter, flags, call
<1>14. CASE receiveChunk
  <2>1. Len(got') <= len
    <3>1. CASE UNCHANGED got
      BY <1>14, <3>1 DEF receiveChunk
    <3>2. ASSUME NEW n \in 1..Least(fetchSize, Len(link)),
                 got' = got \o [k \in 1..n |-> link[k].unit], link' = SubSeq(link, n + 1, Len(link))
          PROVE  Len(got') <= len
      <4>1. pc = "fetch" /\ fetchSize \in Nat /\ Len(got) + fetchSize <= len
        BY <1>0, <1>14, FetchIsWithin DEF receiveChunk
      <4>2. Len(got') = Len(got) + n
        BY <3>2, <4>1, FetchedTypes
      <4>3. n <= fetchSize
        <5>1. Len(link) \in Nat
          BY DEF DeviceTypes
        <5>2. QED
          BY <4>1, <5>1 DEF Least
      <4>4. QED
        BY <1>0, <4>1, <4>2, <4>3
    <3>3. QED
      BY <1>14, <3>1, <3>2 DEF receiveChunk
  <2>2. QED
    BY <1>14, <2>1 DEF receiveChunk, transferFails, Return, adapter, flags, call
<1>15. CASE cancel
  BY <1>0, <1>15 DEF cancel, adapter, proto, call
<1>16. CASE UNCHANGED vars
  BY <1>16 DEF vars, adapter, proto, flags, call
<1>17. QED
  BY <1>1, <1>2, <1>3, <1>4, <1>5, <1>6, <1>7, <1>8, <1>9, <1>10, <1>11, <1>12, <1>13, <1>14, <1>15, <1>16 DEF Next, Working

-----------------------------------------------------------------------------
(* The answers under way.                                                  *)

\* Bounded holds of a new adapter.
LEMMA InitBounded == Init => Bounded
<1> SUFFICES ASSUME Init PROVE Bounded
  OBVIOUS
<1> USE FirehoseAssumption DEF Init
<1>1. HostTypes
  <2>1. got \in Seq(0..MaxLen)
    OBVIOUS
  <2>2. /\ opened \in BOOLEAN /\ topen \in BOOLEAN /\ configured \in BOOLEAN
        /\ cancelled \in BOOLEAN /\ engine \in BOOLEAN /\ stopped \in BOOLEAN
    BY Zenon
  <2>3. phase = "Idle" /\ pc = "idle" /\ op = "none" /\ res = "none"
    OBVIOUS
  <2>4. len \in 0..MaxLen /\ attempt \in 0..Retries /\ sent \in 0..MaxLen
    OBVIOUS
  <2> QED
    BY <2>1, <2>2, <2>3, <2>4, Zenon DEF HostTypes
<1>2. DeviceTypes
  <2>1. link \in Seq(Messages) /\ stored \in Seq(1..MaxLen)
    OBVIOUS
  <2>2. ready \in BOOLEAN /\ acked \in BOOLEAN /\ early \in BOOLEAN
    BY Zenon
  <2>3. QED
    BY <2>1, <2>2 DEF DeviceTypes
<1>3. Places
  BY DEF Places
<1>4. foul \in BOOLEAN
  BY Zenon
<1>5. QED
  BY <1>1, <1>2, <1>3, <1>4, TypesApart DEF Bounded

\* What has made a call foul stays with it, and only a new call begins anew.
LEMMA FoulStep ==
    ASSUME foul \in BOOLEAN, [Next]_vars
    PROVE  /\ foul' \in BOOLEAN
           /\ ~foul' => ~foul \/ open \/ close \/ command \/ transfer
<1>1. CASE open \/ command \/ transfer
  BY <1>1 DEF open, command, transfer, Begins
<1>2. CASE close
  BY <1>2 DEF close
<1>3. Working => foul' \in {foul, TRUE}
  BY DEF Working, configure, configureAnswer, sendCommand, receiveResponse, announce, sendChunk, sendChunkAgain,
         chunkAnswer, readAnswer, receiveChunk, Lost, Written
<1>4. cancel \/ UNCHANGED vars => foul' = foul
  BY DEF cancel, vars
<1>5. QED
  BY <1>1, <1>2, <1>3, <1>4 DEF Next

\* Every step keeps Bounded.
LEMMA StepBounded == Bounded /\ [Next]_vars => Bounded'
<1> SUFFICES ASSUME Bounded, [Next]_vars PROVE Bounded'
  OBVIOUS
<1>1. HostTypes /\ DeviceTypes /\ Places /\ foul \in BOOLEAN
  BY TypesApart DEF Bounded
<1>2. HostTypes' /\ DeviceTypes' /\ Places' /\ foul' \in BOOLEAN
  BY <1>1, HostStep, DeviceStep, PlacesStep, FoulStep
<1>3. TypeOK'
  <2> DEFINE F == {opened', topen', configured', cancelled', engine', stopped', ready', acked', early', foul'} \subseteq BOOLEAN
  <2>1. F
    BY <1>2, Zenon DEF HostTypes, DeviceTypes
  <2> HIDE DEF F
  <2>2. QED
    BY <1>2, <2>1, Zenon DEF F, TypeOK, HostTypes, DeviceTypes, Messages
<1>4. QED
  BY <1>2, <1>3 DEF Bounded

\* The messages that carry a unit.
RawMessages == [kind : {"raw"}, unit : Nat]

\* The units behind the first a are messages, one for each.
LEMMA UnitsLen ==
    ASSUME NEW a \in Nat, NEW k \in Nat, a <= k
    PROVE  /\ Units(a + 1, k) \in Seq(RawMessages) /\ Len(Units(a + 1, k)) = k - a
           /\ \A u \in 1..(k - a) : Units(a + 1, k)[u] = Msg("raw", a + u)
<1> DEFINE n == k - a
<1>1. n \in Nat /\ k - (a + 1) + 1 = n
  OBVIOUS
<1>2. Units(a + 1, k) = [u \in 1..n |-> Msg("raw", (a + 1) + u - 1)]
  BY <1>1 DEF Units
<1>3. \A u \in 1..n : Msg("raw", (a + 1) + u - 1) = Msg("raw", a + u) /\ Msg("raw", a + u) \in RawMessages
  <2> TAKE u \in 1..n
  <2>1. (a + 1) + u - 1 = a + u /\ a + u \in Nat
    BY <1>1
  <2>2. QED
    BY <2>1 DEF Msg, RawMessages
<1> HIDE DEF n
<1>4. Units(a + 1, k) \in [1..n -> RawMessages]
  BY <1>2, <1>3
<1>5. Units(a + 1, k) \in Seq(RawMessages) /\ Len(Units(a + 1, k)) = n
  BY <1>1, <1>4
<1>6. \A u \in 1..n : Units(a + 1, k)[u] = Msg("raw", a + u)
  BY <1>2, <1>3
<1>7. QED
  BY <1>5, <1>6 DEF n

\* Taking the first f of the units that follow the first a leaves the ones
\* behind a + f, and makes a whole of a units one of a + f.
LEMMA TakeUnits ==
    ASSUME NEW a \in Nat, NEW k \in Nat, NEW f \in Nat, a + f <= k
    PROVE  /\ Whole(a) \o [u \in 1..f |-> Units(a + 1, k)[u].unit] = Whole(a + f)
           /\ SubSeq(Units(a + 1, k), f + 1, Len(Units(a + 1, k))) = Units((a + f) + 1, k)
<1>1. Len(Units(a + 1, k)) = k - a
  BY UnitsLen
<1>2. \A u \in 1..(k - a) : Units(a + 1, k)[u] = Msg("raw", a + u)
  BY UnitsLen
<1>3. \A u \in 1..f : Units(a + 1, k)[u].unit = a + u
  <2> TAKE u \in 1..f
  <2>1. u \in 1..(k - a) /\ Msg("raw", a + u).unit = a + u
    BY DEF Msg
  <2>2. QED
    BY <1>2, <2>1
<1>4. [u \in 1..f |-> Units(a + 1, k)[u].unit] = [u \in 1..f |-> a + u]
  BY <1>3
<1>5. Whole(a) \o [u \in 1..f |-> a + u] = Whole(a + f)
  <2> DEFINE A == Whole(a)  B == [u \in 1..f |-> a + u]  C == A \o B
  <2>1. A \in Seq(Nat) /\ Len(A) = a /\ \A u \in 1..a : A[u] = u
    BY DEF Whole
  <2>2. B \in Seq(Nat) /\ Len(B) = f /\ \A u \in 1..f : B[u] = a + u
    OBVIOUS
  <2> HIDE DEF A, B
  <2>3. C \in Seq(Nat) /\ Len(C) = a + f
    BY <2>1, <2>2
  <2>4. ASSUME NEW u \in 1..(a + f) PROVE C[u] = u
    <3>1. CASE u <= a
      BY <2>1, <2>2, <3>1
    <3>2. CASE u > a
      <4>1. C[u] = B[u - a]
        BY <2>1, <2>2, <3>2
      <4>2. u - a \in 1..f
        BY <3>2
      <4>3. QED
        BY <2>2, <4>1, <4>2
    <3>3. u <= a \/ u > a
      OBVIOUS
    <3>4. QED
      BY <3>1, <3>2, <3>3
  <2> HIDE DEF C
  <2>5. C = [u \in 1..(a + f) |-> u]
    BY <2>3, <2>4
  <2>6. QED
    BY <2>5 DEF A, B, C, Whole
<1>6. SubSeq(Units(a + 1, k), f + 1, k - a) = Units((a + f) + 1, k)
  <2> DEFINE A == Units(a + 1, k)  B == Units((a + f) + 1, k)
  <2>1. A \in Seq(RawMessages) /\ Len(A) = k - a
    BY UnitsLen
  <2>2. a + f \in Nat
    OBVIOUS
  <2>3. /\ B \in Seq(RawMessages) /\ Len(B) = k - (a + f)
        /\ \A u \in 1..(k - (a + f)) : B[u] = Msg("raw", (a + f) + u)
    BY <2>2, UnitsLen
  <2> DEFINE S == SubSeq(A, f + 1, k - a)
  <2>4. Len(S) = k - (a + f) /\ \A u \in 1..(k - (a + f)) : S[u] = A[u + f]
    BY <2>1
  <2>5. ASSUME NEW u \in 1..(k - (a + f)) PROVE S[u] = B[u]
    <3>1. u + f \in 1..(k - a) /\ a + (u + f) = (a + f) + u
      OBVIOUS
    <3>2. QED
      BY <1>2, <2>3, <2>4, <3>1
  <2>6. S \in Seq(RawMessages)
    BY <2>1
  <2> HIDE DEF A, B, S
  <2>7. S = B
    BY <2>3, <2>4, <2>5, <2>6
  <2>8. QED
    BY <2>7 DEF A, B, S
<1>7. QED
  BY <1>1, <1>4, <1>5, <1>6

\* A device that nothing is under way from answers a command with one message,
\* but for the units behind the ACK of a <read>.
LEMMA AnswerComes ==
    ASSUME HostTypes, link = <<>>, DeviceCommand
    PROVE  /\ op # "read" => Len(link') = 1 /\ (link'[1].kind # "NAK" => acked')
           /\ op = "read" => \/ Len(link') = 1 /\ link'[1].kind = "NAK"
                             \/ \E k \in 0..len : link' = <<Msg("ACK", 0)>> \o Units(1, k)
<1>1. PICK ok \in BOOLEAN, k \in 0..len :
         /\ acked' = ok
         /\ link' = link \o <<Msg(IF ok THEN "ACK" ELSE "NAK", 0)>>
                         \o IF op = "read" /\ ok THEN Units(1, k) ELSE <<>>
  BY DEF DeviceCommand
<1>2. k \in Nat /\ 0 + 1 = 1
  BY DEF HostTypes
<1>3. Units(1, k) \in Seq(RawMessages)
  <2>1. 0 \in Nat /\ 0 <= k
    BY <1>2
  <2>2. Units(0 + 1, k) \in Seq(RawMessages)
    BY <1>2, <2>1, UnitsLen
  <2>3. QED
    BY <1>2, <2>2
<1>4. Msg("NAK", 0).kind = "NAK" /\ Msg("ACK", 0).kind = "ACK"
  BY DEF Msg
<1>5. CASE ~ok
  <2>1. link' = <<Msg("NAK", 0)>>
    BY <1>1, <1>5
  <2>2. QED
    BY <1>4, <2>1
<1>6. CASE ok
  <2>1. CASE op = "read"
    <3>1. link' = <<>> \o <<Msg("ACK", 0)>> \o Units(1, k)
      BY <1>1, <1>6, <2>1
    <3> DEFINE A == <<Msg("ACK", 0)>>
    <3>2. <<>> \o A = A
      OBVIOUS
    <3>3. QED
      BY <2>1, <3>1, <3>2
  <2>2. CASE op # "read"
    <3>1. link' = <<Msg("ACK", 0)>>
      BY <1>1, <1>6, <2>2
    <3>2. QED
      BY <1>1, <1>6, <2>2, <3>1
  <2>3. QED
    BY <2>1, <2>2
<1>7. QED
  BY <1>5, <1>6

\* A chunk is answered with one message, which says whether it was stored.
LEMMA ChunkAnswered ==
    ASSUME NEW from \in Nat, NEW to \in Nat, link = <<>>, DeviceChunk(from, to)
    PROVE  /\ Len(link') = 1
           /\ \/ stored' = stored /\ link'[1].kind = "NAK"
              \/ stored' = stored \o [k \in 1..(to - from) |-> from + k] /\ link'[1].kind = "ACK"
<1>1. PICK ok \in BOOLEAN :
         /\ link' = Append(link, Msg(IF ok THEN "ACK" ELSE "NAK", 0))
         /\ stored' = IF ok THEN stored \o [k \in 1..(to - from) |-> from + k] ELSE stored
  BY DEF DeviceChunk
<1>2. Msg("NAK", 0).kind = "NAK" /\ Msg("ACK", 0).kind = "ACK"
  BY DEF Msg
<1>3. Len(link') = 1 /\ link'[1] = Msg(IF ok THEN "ACK" ELSE "NAK", 0)
  BY <1>1
<1>4. QED
  BY <1>1, <1>2, <1>3

\* A read goes on from the answer with all that is on the link.
LEMMA ReadGoesOn ==
    ASSUME Bounded, Quiet, ~foul, pc = "readAnswer", link # <<>>, Head(link).kind # "NAK", link' = Tail(link)
    PROVE  \E k \in 0..len : link' = Units(1, k)
<1>1. len \in Nat
  BY TypesApart DEF Bounded, HostTypes
<1>2. PICK k \in 0..len : link = <<Msg("ACK", 0)>> \o Units(1, k)
  BY DEF Quiet
<1>3. k \in Nat /\ 0 + 1 = 1
  BY <1>1
<1>4. Units(1, k) \in Seq(RawMessages)
  BY <1>3, UnitsLen
<1> DEFINE U == Units(1, k)  m == Msg("ACK", 0)
<1>5. U \in Seq(RawMessages) /\ link = <<m>> \o U
  BY <1>2, <1>4
<1> HIDE DEF U, m
<1>6. Tail(link) = U
  <2>1. U \in Seq(RawMessages \cup {m}) /\ <<m>> \in Seq(RawMessages \cup {m})
    BY <1>5
  <2>2. Len(link) = Len(U) + 1 /\ \A j \in 1..Len(U) : link[j + 1] = U[j]
    BY <1>5, <2>1
  <2>3. link \in Seq(RawMessages \cup {m})
    BY <1>5, <2>1
  <2>4. Tail(link) \in Seq(RawMessages \cup {m}) /\ Len(Tail(link)) = Len(U) /\ \A j \in 1..Len(U) : Tail(link)[j] = U[j]
    BY <2>2, <2>3
  <2> DEFINE T == Tail(link)
  <2> HIDE DEF T
  <2>5. T \in Seq(RawMessages \cup {m}) /\ Len(T) = Len(U) /\ \A j \in 1..Len(U) : T[j] = U[j]
    BY <2>4 DEF T
  <2>6. T = U
    BY <2>1, <2>5
  <2>7. QED
    BY <2>6 DEF T
<1>7. QED
  BY <1>2, <1>6 DEF U

\* A piece of a read continues what was got, and leaves the rest on the link;
\* a read that has got everything has left nothing on it.
LEMMA FetchGoesOn ==
    ASSUME Bounded, Quiet, ~foul, pc = "fetch"
    PROVE  /\ Len(got) = len => got = Whole(len)
           /\ \A n \in 1..Least(fetchSize, Len(link)) :
                /\ got' = got \o [k \in 1..n |-> link[k].unit]
                /\ link' = SubSeq(link, n + 1, Len(link))
                => /\ got' = Whole(Len(got'))
                   /\ \E k \in Len(got')..len : link' = Units(Len(got') + 1, k)
<1>1. len \in Nat /\ got \in Seq(0..MaxLen) /\ Len(got) <= len
  BY TypesApart DEF Bounded, HostTypes, Places
<1>2. got = Whole(Len(got))
  BY DEF Quiet
<1>3. PICK k \in Len(got)..len : link = Units(Len(got) + 1, k)
  BY DEF Quiet
<1> DEFINE a == Len(got)
<1>4. a \in Nat /\ k \in Nat /\ a <= k /\ k <= len
  BY <1>1, <1>3
<1>5. Len(link) = k - a
  BY <1>3, <1>4, UnitsLen
<1>6. ASSUME a = len PROVE got = Whole(len)
  BY <1>2, <1>6
<1>7. ASSUME NEW f \in 1..Least(fetchSize, Len(link)),
             got' = got \o [u \in 1..f |-> link[u].unit],
             link' = SubSeq(link, f + 1, Len(link))
      PROVE  /\ got' = Whole(Len(got'))
             /\ \E u \in Len(got')..len : link' = Units(Len(got') + 1, u)
  <2>1. fetchSize \in Nat
    BY <1>1, FetchIsWithin
  <2>2. f \in Nat /\ a + f <= k
    BY <1>4, <1>5, <2>1 DEF Least
  <2>3. got' = Whole(a) \o [u \in 1..f |-> Units(a + 1, k)[u].unit]
    BY <1>2, <1>3, <1>7
  <2>4. got' = Whole(a + f) /\ link' = Units((a + f) + 1, k)
    <3> HIDE DEF a
    <3>1. /\ Whole(a) \o [u \in 1..f |-> Units(a + 1, k)[u].unit] = Whole(a + f)
          /\ SubSeq(Units(a + 1, k), f + 1, Len(Units(a + 1, k))) = Units((a + f) + 1, k)
      BY <1>4, <2>2, TakeUnits
    <3>2. QED
      BY <1>3, <1>7, <2>3, <3>1 DEF a
  <2>5. Len(got') = a + f
    <3> HIDE DEF a
    <3>1. QED
      BY <1>4, <2>2, <2>4 DEF Whole
  <2>6. QED
    BY <1>4, <2>2, <2>4, <2>5
<1>8. QED
  BY <1>6, <1>7

\* Behind the only message there is none.
LEMMA OnlyMessage ==
    ASSUME NEW s \in Seq(Messages), Len(s) = 1
    PROVE  s # <<>> /\ Head(s) = s[1] /\ Tail(s) = <<>>
<1>1. s # <<>> /\ Head(s) = s[1]
  <2>1. s # <<>>
    BY EmptySeq
  <2>2. Head(s) = s[1]
    BY <2>1
  <2>3. QED
    BY <2>1, <2>2
<1>2. Tail(s) \in Seq(Messages) /\ Len(Tail(s)) = 0
  BY <1>1
<1> DEFINE T == Tail(s)
<1> HIDE DEF T
<1>3. T \in Seq(Messages) /\ Len(T) = 0
  BY <1>2 DEF T
<1>4. T = <<>>
  BY <1>3
<1>5. QED
  BY <1>1, <1>4 DEF T

\* Every step keeps Quiet.
LEMMA QuietStep == ASSUME Bounded, Quiet, [Next]_vars PROVE Quiet'
<1>1. HostTypes /\ DeviceTypes /\ Places /\ foul \in BOOLEAN
  BY TypesApart DEF Bounded
<1>2. CASE foul'
  BY <1>2 DEF Quiet
<1>3. CASE pc' \in {"idle", "configure", "configured"}
  BY <1>3 DEF Quiet
<1>4. ASSUME Working, ~foul' PROVE ~foul
  BY <1>1, <1>4, FoulStep DEF Working, open, close, command, transfer, Begins, configure, configureAnswer,
     sendCommand, receiveResponse, announce, sendChunk, sendChunkAgain, chunkAnswer, readAnswer, receiveChunk
<1>5. CASE open \/ command \/ transfer
  <2>1. link' = link /\ foul' = (link # <<>>)
    BY <1>5 DEF open, command, transfer, Begins, device
  <2>2. pc' \in {"idle", "configure", "command", "program", "read"}
    BY <1>5 DEF open, command, transfer, Return
  <2>3. QED
    BY <2>1, <2>2 DEF Quiet
<1>6. CASE close
  BY <1>3, <1>6 DEF close, Return
<1>7. CASE configure \/ configureAnswer \/ receiveResponse
  BY <1>3, <1>7 DEF configure, configureAnswer, receiveResponse, openFails, Return
<1>8. CASE sendCommand /\ ~foul'
  <2>1. ~foul /\ pc = "command" /\ link = <<>> /\ op # "read"
    BY <1>1, <1>4, <1>8 DEF sendCommand, Working, Quiet, Places
  <2>2. CASE DeviceCommand /\ pc' = "answer"
    BY <1>1, <2>1, <2>2, AnswerComes DEF Quiet
  <2>3. QED
    BY <1>3, <1>8, <2>2 DEF sendCommand, Return
<1>9. CASE announce /\ ~foul'
  <2>1. ~foul /\ link = <<>> /\ len' = len
    BY <1>4, <1>9 DEF announce, Working, call, Quiet
  <2>2. CASE op = "program" /\ DeviceProgram /\ pc' = "chunk"
    BY <2>1, <2>2 DEF DeviceProgram, Quiet
  <2>3. CASE op # "program" /\ DeviceCommand /\ pc' = "readAnswer"
    <3>1. op = "read"
      BY <1>1, <1>9, <2>3 DEF announce, Places
    <3>2. QED
      BY <1>1, <2>1, <2>3, <3>1, AnswerComes DEF Quiet
  <2>4. QED
    BY <1>3, <1>9, <2>2, <2>3 DEF announce, transferFails, Return
<1>10. CASE (sendChunk \/ sendChunkAgain) /\ ~foul'
  <2>1. ~foul /\ link = <<>>
    BY <1>4, <1>10 DEF sendChunk, sendChunkAgain, Working, Quiet
  <2>2. CASE pc' = "again" /\ UNCHANGED <<device, foul>>
    BY <2>1, <2>2 DEF Quiet, device
  <2>3. CASE DeviceChunk(sent, sent + chunkSize) /\ pc' = "chunkAnswer"
    <3>1. Len(link') = 1
      BY <2>1, <2>3, MessageTypes DEF DeviceChunk
    <3>2. QED
      BY <2>3, <3>1 DEF Quiet
  <2>4. QED
    BY <1>3, <1>10, <2>2, <2>3 DEF sendChunk, sendChunkAgain, Lost, Written, transferFails, Return
<1>11. CASE chunkAnswer /\ ~foul'
  <2>1. CASE pc' = "chunk"
    <3>1. ~foul /\ pc = "chunkAnswer" /\ link' = Tail(link)
      BY <1>4, <1>11, <2>1 DEF chunkAnswer, Working, transferFails, Return
    <3>2. Len(link) = 1
      BY <3>1 DEF Quiet
    <3>3. link' = <<>>
      BY <1>1, <3>1, <3>2, OnlyMessage DEF DeviceTypes
    <3>4. QED
      BY <2>1, <3>3 DEF Quiet
  <2>2. QED
    BY <1>3, <1>11, <2>1 DEF chunkAnswer, transferFails, Return
<1>12. CASE readAnswer /\ ~foul'
  <2>1. ~foul /\ pc = "readAnswer" /\ len' = len
    BY <1>4, <1>12 DEF readAnswer, Working, call
  <2>2. CASE link # <<>> /\ link' = Tail(link) /\ Head(link).kind # "NAK" /\ pc' = "fetch"
    <3>1. PICK k \in 0..len : link' = Units(1, k)
      BY <2>1, <2>2, ReadGoesOn
    <3>2. got' = <<>>
      BY <1>1, <1>12, <2>1 DEF readAnswer, Places
    <3>3. Len(got') = 0 /\ got' = Whole(0)
      BY <3>2 DEF Whole
    <3>4. k \in Len(got')..len' /\ link' = Units(Len(got') + 1, k)
      BY <2>1, <3>1, <3>3
    <3>5. QED
      BY <2>2, <3>3, <3>4 DEF Quiet
  <2>3. QED
    BY <1>3, <1>12, <2>2 DEF readAnswer, transferFails, Return
<1>13. CASE receiveChunk /\ ~foul'
  <2>1. ~foul /\ pc = "fetch" /\ len' = len
    BY <1>4, <1>13 DEF receiveChunk, Working, call
  <2>2. ASSUME NEW n \in 1..Least(fetchSize, Len(link)),
               got' = got \o [k \in 1..n |-> link[k].unit],
               link' = SubSeq(link, n + 1, Len(link)), UNCHANGED pc
        PROVE  Quiet'
    <3>1. /\ got' = Whole(Len(got'))
          /\ \E k \in Len(got')..len : link' = Units(Len(got') + 1, k)
      BY <2>1, <2>2, FetchGoesOn
    <3>2. QED
      BY <2>1, <2>2, <3>1 DEF Quiet
  <2>3. QED
    BY <1>3, <1>13, <2>2 DEF receiveChunk, transferFails, Return
<1>14. CASE cancel \/ UNCHANGED vars
  BY <1>14 DEF cancel, vars, device, call, Quiet
<1>15. QED
  BY <1>2, <1>5, <1>6, <1>7, <1>8, <1>9, <1>10, <1>11, <1>12, <1>13, <1>14 DEF Next, Working

\* Only an erase whose answer is looked at sets the result of an erase.
LEMMA EraseStep ==
    ASSUME Bounded, Quiet, SuccessIsTheDevices, [Next]_vars
    PROVE  SuccessIsTheDevices'
<1> USE DEF SuccessIsTheDevices, Done
<1>1. HostTypes /\ DeviceTypes /\ Places /\ foul \in BOOLEAN
  BY TypesApart DEF Bounded
<1>2. CASE receiveResponse
  <2>1. CASE op # "erase" \/ res' = "err" \/ foul'
    BY <1>2, <2>1 DEF receiveResponse, call
  <2>2. CASE op = "erase" /\ res' # "err" /\ ~foul'
    <3>1. ~foul /\ link # <<>> /\ accepts(Head(link).kind) /\ pc = "answer" /\ acked' = acked
      BY <1>2, <2>2 DEF receiveResponse, Return
    <3>2. Len(link) = 1 /\ (link[1].kind # "NAK" => acked)
      BY <3>1 DEF Quiet
    <3>3. Head(link) = link[1]
      BY <1>1, <3>2, OnlyMessage DEF DeviceTypes
    <3>4. QED
      BY <2>2, <3>1, <3>2, <3>3 DEF accepts
  <2>3. QED
    BY <2>1, <2>2
<1>3. CASE cancel \/ UNCHANGED vars
  BY <1>3 DEF cancel, vars, call, device
<1>4. CASE open \/ close \/ transfer
  BY <1>4 DEF open, close, transfer
<1>5. CASE command
  BY <1>5 DEF command, Return
<1>6. CASE configure \/ configureAnswer \/ announce \/ sendChunk \/ sendChunkAgain \/ chunkAnswer \/ readAnswer
           \/ receiveChunk
  BY <1>1, <1>6 DEF configure, configureAnswer, announce, sendChunk, sendChunkAgain, chunkAnswer, readAnswer,
                    receiveChunk, call, Places
<1>7. CASE sendCommand
  BY <1>7 DEF sendCommand, Return, call
<1>8. QED
  BY <1>2, <1>3, <1>4, <1>5, <1>6, <1>7 DEF Next, Working

\* AnswerInv holds of a new adapter.
LEMMA InitAnswers == Init => AnswerInv
<1> SUFFICES ASSUME Init PROVE AnswerInv
  OBVIOUS
<1>1. Bounded
  BY InitBounded
<1>2. Quiet /\ SuccessIsTheDevices
  BY DEF Init, Quiet, SuccessIsTheDevices, Done
<1>3. QED
  BY <1>1, <1>2 DEF AnswerInv

\* Every step keeps AnswerInv.
LEMMA StepAnswers == AnswerInv /\ [Next]_vars => AnswerInv'
<1> SUFFICES ASSUME AnswerInv, [Next]_vars PROVE AnswerInv'
  OBVIOUS
<1>1. Bounded /\ Quiet /\ SuccessIsTheDevices
  BY DEF AnswerInv
<1>2. Bounded'
  BY <1>1, StepBounded
<1>3. Quiet' /\ SuccessIsTheDevices'
  BY <1>1, QuietStep, EraseStep
<1>4. QED
  BY <1>2, <1>3 DEF AnswerInv

-----------------------------------------------------------------------------
(* Transfers.                                                              *)

\* A chunk that is stored makes a whole of what came before it.
LEMMA NextWhole ==
    ASSUME NEW a \in Nat, NEW f \in Nat
    PROVE  Whole(a) \o [k \in 1..((a + f) - a) |-> a + k] = Whole(a + f)
<1>1. a + f \in Nat /\ a + f <= a + f /\ (a + f) - a = f
  OBVIOUS
<1>2. Whole(a) \o [u \in 1..f |-> Units(a + 1, a + f)[u].unit] = Whole(a + f)
  <2> DEFINE k == a + f
  <2>1. k \in Nat /\ a + f <= k
    BY <1>1
  <2> HIDE DEF k
  <2>2. Whole(a) \o [u \in 1..f |-> Units(a + 1, k)[u].unit] = Whole(a + f)
    BY <2>1, TakeUnits
  <2>3. QED
    BY <2>2 DEF k
<1>3. \A u \in 1..f : Units(a + 1, a + f)[u].unit = a + u
  <2> TAKE u \in 1..f
  <2>1. Units(a + 1, a + f)[u] = Msg("raw", a + u)
    BY <1>1, UnitsLen
  <2>2. QED
    BY <2>1 DEF Msg
<1>4. [u \in 1..f |-> Units(a + 1, a + f)[u].unit] = [u \in 1..f |-> a + u]
  BY <1>3
<1>5. QED
  BY <1>1, <1>2, <1>4

\* Every step keeps Held.
LEMMA HeldStep == ASSUME AnswerInv, Held, [Next]_vars PROVE Held'
<1>1. HostTypes /\ DeviceTypes /\ Places /\ Quiet /\ foul \in BOOLEAN
  BY TypesApart DEF AnswerInv, Bounded
<1>2. len \in Nat /\ sent \in Nat
  BY <1>1, FirehoseAssumption DEF HostTypes
<1>3. CASE foul'
  BY <1>3 DEF Held
<1>4. CASE pc' \notin {"chunk", "again", "chunkAnswer"}
  BY <1>4 DEF Held
<1>5. CASE cancel \/ UNCHANGED vars
  <2>1. UNCHANGED <<pc, sent, stored, link, foul, chunkSize>>
    BY <1>5 DEF cancel, vars, call, device, chunkSize
  <2>2. QED
    BY <2>1 DEF Held
<1>6. CASE announce /\ pc' = "chunk"
  <2>1. stored' = <<>> /\ sent' = 0
    BY <1>1, <1>6 DEF announce, Places, DeviceProgram, transferFails, Return
  <2>2. <<>> = Whole(0)
    BY DEF Whole
  <2>3. QED
    BY <1>6, <2>1, <2>2 DEF Held
<1>7. CASE (sendChunk \/ sendChunkAgain) /\ ~foul'
  <2>1. ~foul
    BY <1>1, <1>7, FoulStep DEF sendChunk, sendChunkAgain, open, close, command, transfer, Begins
  <2>2. stored = Whole(sent) /\ link = <<>> /\ sent' = sent /\ len' = len
    BY <1>1, <1>7, <2>1 DEF sendChunk, sendChunkAgain, Held, Quiet, call
  <2>3. CASE UNCHANGED <<device, foul>> /\ pc' = "again"
    BY <2>2, <2>3 DEF device, Held
  <2>4. CASE DeviceChunk(sent, sent + chunkSize) /\ pc' = "chunkAnswer"
    <3>1. sent < len
      BY <1>1, <1>2, <1>7, <2>4 DEF sendChunk, sendChunkAgain, transferFails, Return, Places
    <3>2. chunkSize \in Nat /\ sent + chunkSize \in Nat
      BY <1>2, <3>1, ChunkIsWithin, FirehoseAssumption
    <3>3. \/ stored' = stored /\ link'[1].kind = "NAK"
          \/ stored' = stored \o [k \in 1..((sent + chunkSize) - sent) |-> sent + k] /\ link'[1].kind = "ACK"
      BY <1>2, <2>2, <2>4, <3>2, ChunkAnswered
    <3>4. Whole(sent) \o [k \in 1..((sent + chunkSize) - sent) |-> sent + k] = Whole(sent + chunkSize)
      BY <1>2, <3>2, NextWhole
    <3>5. chunkSize' = chunkSize
      BY <2>2 DEF chunkSize
    <3>6. QED
      BY <2>2, <2>4, <3>3, <3>4, <3>5 DEF Held
  <2>5. QED
    BY <1>4, <1>7, <2>3, <2>4 DEF sendChunk, sendChunkAgain, Lost, Written, transferFails, Return
<1>8. CASE chunkAnswer /\ pc' = "chunk" /\ ~foul'
  <2>1. /\ pc = "chunkAnswer" /\ link # <<>> /\ Head(link).kind # "NAK" /\ ~foul
        /\ sent' = sent + chunkSize /\ stored' = stored
    BY <1>8 DEF chunkAnswer, transferFails, Return
  <2>2. Len(link) = 1
    BY <1>1, <2>1 DEF Quiet
  <2>3. Head(link) = link[1]
    BY <1>1, <2>2, OnlyMessage DEF DeviceTypes
  <2>4. stored = Whole(sent + chunkSize)
    BY <2>1, <2>3 DEF Held
  <2>5. QED
    BY <1>8, <2>1, <2>4 DEF Held
<1>9. pc' \in {"chunk", "again", "chunkAnswer"} =>
          cancel \/ announce \/ sendChunk \/ sendChunkAgain \/ chunkAnswer \/ UNCHANGED vars
  <2>1. Next \/ UNCHANGED vars
    OBVIOUS
  <2>2. open \/ close \/ command \/ transfer => pc' \notin {"chunk", "again", "chunkAnswer"}
    BY DEF open, close, command, transfer, Return
  <2>3. configure \/ configureAnswer \/ sendCommand \/ receiveResponse \/ readAnswer \/ receiveChunk
           => pc' \notin {"chunk", "again", "chunkAnswer"}
    BY DEF configure, configureAnswer, sendCommand, receiveResponse, readAnswer, receiveChunk, Return,
           openFails, transferFails
  <2>4. QED
    BY <2>1, <2>2, <2>3 DEF Next, Working
<1>10. announce => pc' \in {"idle", "chunk", "readAnswer"}
  BY DEF announce, transferFails, Return
<1>11. chunkAnswer => pc' \in {"idle", "chunk"}
  BY DEF chunkAnswer, transferFails, Return
<1>12. QED
  BY <1>3, <1>4, <1>5, <1>6, <1>7, <1>8, <1>9, <1>10, <1>11

\* A transfer only ends with success when all of it is stored or got.
LEMMA WholeStep ==
    ASSUME AnswerInv, Held, TransfersAreWhole, [Next]_vars
    PROVE  TransfersAreWhole'
<1> USE DEF TransfersAreWhole, ProgramStoresAll, ReadReturnsAll, Done
<1>1. Bounded /\ HostTypes /\ DeviceTypes /\ Places /\ Quiet
  BY TypesApart DEF AnswerInv, Bounded
<1>2. CASE cancel \/ UNCHANGED vars
  BY <1>2 DEF cancel, vars, call, device
<1>3. CASE open \/ close \/ command
  BY <1>3 DEF open, close, command
<1>4. CASE transfer
  BY <1>4 DEF transfer, Return
<1>5. CASE configure \/ configureAnswer \/ sendCommand \/ receiveResponse
  BY <1>1, <1>5 DEF configure, configureAnswer, sendCommand, receiveResponse, call, Places
<1>6. CASE announce \/ sendChunkAgain \/ chunkAnswer \/ readAnswer
  BY <1>6 DEF announce, sendChunkAgain, chunkAnswer, readAnswer, transferFails, Return
<1>7. CASE sendChunk
  BY <1>1, <1>7 DEF sendChunk, transferFails, Return, call, device, Places, Held
<1>8. CASE receiveChunk
  <2>1. CASE ~stopped /\ Len(got) = len
    <3>1. ~foul => got = Whole(len)
      BY <1>1, <1>8, <2>1, FetchGoesOn DEF receiveChunk
    <3>2. QED
      BY <1>1, <1>8, <2>1, <3>1 DEF receiveChunk, call, Places
  <2>2. CASE stopped \/ Len(got) # len
    BY <1>8, <2>2 DEF receiveChunk, transferFails, Return
  <2>3. QED
    BY <2>1, <2>2
<1>9. QED
  BY <1>2, <1>3, <1>4, <1>5, <1>6, <1>7, <1>8 DEF Next, Working

\* TransferInv holds of a new adapter.
LEMMA InitTransfer == Init => TransferInv
<1> SUFFICES ASSUME Init PROVE TransferInv
  OBVIOUS
<1>1. Held
  BY DEF Init, Held
<1>2. TransfersAreWhole
  BY DEF Init, TransfersAreWhole, ProgramStoresAll, ReadReturnsAll, Done
<1>3. QED
  BY <1>1, <1>2, InitAnswers DEF TransferInv

\* Every step keeps TransferInv.
LEMMA StepTransfer == TransferInv /\ [Next]_vars => TransferInv'
<1> SUFFICES ASSUME TransferInv, [Next]_vars PROVE TransferInv'
  OBVIOUS
<1>1. AnswerInv /\ Held /\ TransfersAreWhole
  BY DEF TransferInv
<1>2. AnswerInv'
  BY <1>1, StepAnswers
<1>3. Held' /\ TransfersAreWhole'
  BY <1>1, HeldStep, WholeStep
<1>4. QED
  BY <1>2, <1>3 DEF TransferInv

-----------------------------------------------------------------------------
(* A write is a delivery.                                                  *)

\* The refinement mapping of WritesAreDeliveries.
Want    == IF op = "program" THEN len ELSE 0
Have    == IF foul \/ ~(Streaming \/ Done("program")) THEN 0
           ELSE IF stored = Whole(Len(stored)) THEN Len(stored) ELSE -1
Verdict == IF op # "program" THEN "none" ELSE IF foul THEN "foul"
           ELSE IF pc # "idle" THEN "busy" ELSE res

\* The step of FlashDelivery, of the mapping.
DeliveryStep ==
    \/ UNCHANGED <<Want, Have, Verdict>>
    \/ Verdict # "busy" /\ Verdict' \in {"busy", "err", "foul"} /\ Want' \in 0..MaxLen /\ Have' = 0
    \/ Verdict = "busy" /\ Have' \in (Have + 1)..Want /\ UNCHANGED <<Want, Verdict>>
    \/ Verdict = "busy" /\ Have = Want /\ Verdict' = "ok" /\ UNCHANGED <<Want, Have>>
    \/ Verdict = "busy" /\ Verdict' = "err" /\ Have' = 0 /\ UNCHANGED Want
    \/ Verdict = "busy" /\ Verdict' = "foul" /\ Have' = 0 /\ UNCHANGED Want
    \/ Verdict \in {"ok", "err", "foul"} /\ Verdict' = "none" /\ Want' = 0 /\ Have' = 0

\* How much a device holds that holds the first n units.
LEMMA WholeLen == \A n \in Nat : Len(Whole(n)) = n
BY DEF Whole

\* How much of a write the device holds between two chunks.
LEMMA HaveIs ==
    ASSUME TransferInv, ~foul, op = "program", pc \in {"chunk", "again"}
    PROVE  Have = sent /\ stored = Whole(sent)
<1>1. HostTypes /\ Held
  BY TypesApart DEF TransferInv, AnswerInv, Bounded
<1>2. sent \in Nat
  BY <1>1, FirehoseAssumption DEF HostTypes
<1>3. stored = Whole(sent) /\ Len(stored) = sent
  BY <1>1, <1>2, WholeLen DEF Held
<1>4. QED
  BY <1>3 DEF Have, Streaming

\* How much the device holds after a step that leaves it the first n units.
LEMMA HaveNext ==
    ASSUME NEW n \in Nat, ~foul', stored' = Whole(n), op' = "program",
           pc' \in {"chunk", "again", "chunkAnswer"} \/ (pc' = "idle" /\ res' = "ok")
    PROVE  Have' = n
<1>1. Len(stored') = n
  BY WholeLen
<1>2. QED
  BY <1>1 DEF Have, Streaming, Done

\* Outside a write, and of one that failed, nothing counts.
LEMMA HaveNone ==
    ASSUME \/ op' # "program"
           \/ pc' \notin {"idle", "chunk", "again", "chunkAnswer"}
           \/ pc' = "idle" /\ res' # "ok"
    PROVE  Have' = 0
BY DEF Have, Streaming, Done

\* A failure of a transfer, of the mapping.
LEMMA FailStep ==
    ASSUME pc # "idle", ~foul, ~foul', transferFails, op = "program", op' = op, len' = len
    PROVE  DeliveryStep
<1>1. Have' = 0 /\ Want' = Want
  BY HaveNone DEF transferFails, Return, Want
<1>2. QED
  BY <1>1 DEF transferFails, Return, Verdict, DeliveryStep

\* A step that makes a write foul, or that comes after one, of the mapping.
LEMMA FoulDelivers ==
    ASSUME pc # "idle", foul', op' = op, len' = len
    PROVE  DeliveryStep
<1>1. Have' = 0 /\ Want' = Want
  BY DEF Have, Want
<1>2. CASE op # "program"
  BY <1>1, <1>2 DEF Verdict, Have, Want, Streaming, Done, DeliveryStep
<1>3. CASE op = "program" /\ foul
  BY <1>1, <1>3 DEF Verdict, Have, DeliveryStep
<1>4. CASE op = "program" /\ ~foul
  BY <1>1, <1>4 DEF Verdict, DeliveryStep
<1>5. QED
  BY <1>2, <1>3, <1>4

\* Every step of the adapter is one of FlashDelivery or changes nothing there.
LEMMA StepDelivers ==
    ASSUME TransferInv, [Next]_vars
    PROVE  DeliveryStep
<1>1. HostTypes /\ DeviceTypes /\ Places /\ Held /\ Quiet /\ foul \in BOOLEAN
  BY TypesApart DEF TransferInv, AnswerInv, Bounded
<1>2. len \in Nat /\ sent \in Nat
  BY <1>1, FirehoseAssumption DEF HostTypes
<1>3. op # "program" => Have = 0 /\ Want = 0 /\ Verdict = "none"
  BY DEF Have, Want, Verdict, Streaming, Done
<1>4. op' # "program" => Have' = 0 /\ Want' = 0 /\ Verdict' = "none"
  BY DEF Have, Want, Verdict, Streaming, Done
<1>5. ASSUME op # "program", op' # "program" PROVE DeliveryStep
  BY <1>3, <1>4, <1>5 DEF DeliveryStep
<1>6. CASE open \/ close \/ command
  <2>1. op' # "program" /\ pc = "idle"
    BY <1>6 DEF open, close, command, Begins
  <2>2. op = "program" => Verdict \in {"ok", "err", "foul"}
    BY <1>1, <2>1 DEF Verdict, Places, HostTypes
  <2>3. QED
    BY <1>4, <1>5, <2>1, <2>2 DEF DeliveryStep
<1>7. CASE transfer
  <2>1. CASE op' = "read"
    <3>1. op = "program" => Verdict \in {"ok", "err", "foul"}
      BY <1>1, <1>7 DEF transfer, Begins, Verdict, Places, HostTypes
    <3>2. QED
      BY <1>4, <1>5, <2>1, <3>1 DEF DeliveryStep
  <2>2. CASE op' = "program"
    <3>1. /\ pc = "idle" /\ len' \in 0..MaxLen
          /\ \/ pc' = "idle" /\ res' = "err"
             \/ pc' = "program"
      BY <1>7, <2>2 DEF transfer, Begins, Return
    <3>2. Have' = 0
      BY <3>1, HaveNone
    <3>3. Verdict # "busy"
      BY <1>1, <3>1 DEF Verdict, HostTypes
    <3>4. Verdict' \in {"busy", "err", "foul"} /\ Want' \in 0..MaxLen
      BY <2>2, <3>1 DEF Verdict, Want
    <3>5. QED
      BY <3>2, <3>3, <3>4 DEF DeliveryStep
  <2>3. QED
    BY <1>7, <2>1, <2>2 DEF transfer
<1>8. CASE configure \/ configureAnswer \/ sendCommand \/ receiveResponse \/ readAnswer \/ receiveChunk
  <2>1. op # "program" /\ op' # "program"
    BY <1>1, <1>8 DEF configure, configureAnswer, sendCommand, receiveResponse, readAnswer, receiveChunk,
                      call, Places
  <2>2. QED
    BY <1>5, <2>1
<1>9. ASSUME announce \/ sendChunk \/ sendChunkAgain \/ chunkAnswer
       PROVE  pc # "idle" /\ op' = op /\ len' = len /\ (~foul' => ~foul)
  <2>1. pc # "idle" /\ op' = op /\ len' = len
    BY <1>9 DEF announce, sendChunk, sendChunkAgain, chunkAnswer, call
  <2>2. QED
    BY <1>1, <2>1, FoulStep DEF open, close, command, transfer, Begins
<1>10. CASE (announce \/ sendChunk \/ sendChunkAgain \/ chunkAnswer) /\ foul'
  BY <1>9, <1>10, FoulDelivers
<1>11. CASE announce /\ ~foul'
  <2>1. op' = op /\ len' = len /\ pc # "idle" /\ ~foul
    BY <1>11, <1>9
  <2>2. CASE transferFails /\ op = "program"
    BY <1>11, <2>1, <2>2, FailStep
  <2>3. CASE op = "program" /\ DeviceProgram /\ pc' = "chunk"
    <3>1. stored' = Whole(0)
      BY <2>3 DEF DeviceProgram, Whole
    <3>2. Have' = 0
      BY <1>11, <2>1, <2>3, <3>1, HaveNext
    <3>3. Have = 0
      BY <1>11 DEF announce, Have, Streaming, Done
    <3>4. QED
      BY <1>11, <2>1, <2>3, <3>2, <3>3 DEF DeliveryStep, Want, Verdict
  <2>4. CASE op # "program"
    BY <1>5, <2>1, <2>4
  <2>5. QED
    BY <1>11, <2>2, <2>3, <2>4 DEF announce
<1>12. CASE (sendChunk \/ sendChunkAgain) /\ ~foul'
  <2>0. ~foul /\ ~foul'
    BY <1>12, <1>9
  <2>1. /\ op' = op /\ len' = len /\ sent' = sent /\ pc # "idle" /\ op = "program"
        /\ pc \in {"chunk", "again"} /\ Want' = Want /\ Want = len /\ Verdict = "busy"
    BY <1>1, <1>12, <2>0 DEF sendChunk, sendChunkAgain, call, Places, Want, Verdict
  <2>2. Have = sent /\ stored = Whole(sent)
    BY <2>0, <2>1, HaveIs
  <2>3. CASE transferFails
    BY <2>0, <2>1, <2>3, FailStep
  <2>4. CASE sent = len /\ Return("ok") /\ UNCHANGED device
    <3>1. Have' = len
      BY <1>2, <2>0, <2>1, <2>2, <2>4, HaveNext DEF Return, device
    <3>2. QED
      BY <2>0, <2>1, <2>2, <2>4, <3>1 DEF DeliveryStep, Verdict, Return
  <2>5. CASE UNCHANGED device /\ pc' = "again"
    <3>1. Have' = sent
      BY <1>2, <2>0, <2>1, <2>2, <2>5, HaveNext DEF device
    <3>2. QED
      BY <2>0, <2>1, <2>2, <2>5, <3>1 DEF DeliveryStep, Verdict
  <2>6. CASE DeviceChunk(sent, sent + chunkSize) /\ pc' = "chunkAnswer"
    <3>1. sent < len
      BY <1>1, <1>2, <1>12, <2>6 DEF sendChunk, sendChunkAgain, transferFails, Return, Places
    <3>2. chunkSize \in 1..ChunkTo /\ sent + chunkSize <= len
      BY <1>2, <3>1, ChunkIsWithin
    <3>3. sent + chunkSize \in Nat /\ sent + chunkSize \in (sent + 1)..len
      BY <1>2, <3>2, FirehoseAssumption
    <3>4. stored' = Whole(sent) \/ stored' = Whole(sent + chunkSize)
      <4>1. link = <<>>
        BY <1>1, <2>0, <2>1 DEF Quiet
      <4>2. stored' = stored \/ stored' = stored \o [k \in 1..((sent + chunkSize) - sent) |-> sent + k]
        BY <1>2, <2>6, <3>3, <4>1, ChunkAnswered
      <4>3. chunkSize \in Nat
        BY <3>2, FirehoseAssumption
      <4>4. Whole(sent) \o [k \in 1..((sent + chunkSize) - sent) |-> sent + k] = Whole(sent + chunkSize)
        BY <1>2, <4>3, NextWhole
      <4>5. QED
        BY <2>2, <4>2, <4>4
    <3>5. Have' = sent \/ Have' = sent + chunkSize
      BY <1>2, <2>0, <2>1, <2>6, <3>3, <3>4, HaveNext
    <3>6. Verdict' = Verdict
      BY <2>0, <2>1, <2>6 DEF Verdict
    <3>7. QED
      BY <2>1, <2>2, <3>3, <3>5, <3>6 DEF DeliveryStep
  <2>7. QED
    BY <1>12, <2>3, <2>4, <2>5, <2>6 DEF sendChunk, sendChunkAgain, Lost, Written
<1>13. CASE chunkAnswer /\ ~foul'
  <2>1. op' = op /\ len' = len /\ pc = "chunkAnswer" /\ op = "program" /\ stored' = stored /\ ~foul /\ ~foul'
    BY <1>1, <1>13, <1>9 DEF chunkAnswer, call, Places
  <2>2. CASE transferFails
    BY <2>1, <2>2, FailStep
  <2>3. CASE pc' = "chunk"
    <3>1. Have' = Have
      BY <2>1, <2>3 DEF Have, Streaming
    <3>2. QED
      BY <2>1, <2>3, <3>1 DEF DeliveryStep, Want, Verdict
  <2>4. QED
    BY <1>13, <2>2, <2>3 DEF chunkAnswer
<1>14. CASE cancel \/ UNCHANGED vars
  <2>1. UNCHANGED <<op, len, pc, res, stored, foul>>
    BY <1>14 DEF cancel, vars, call, device
  <2>2. QED
    BY <2>1 DEF DeliveryStep, Want, Have, Verdict, Streaming, Done
<1>15. QED
  BY <1>6, <1>7, <1>8, <1>11, <1>12, <1>13, <1>14, <1>10 DEF Next, Working

-----------------------------------------------------------------------------
(* The theorems.                                                           *)

\* Every variable has its type, whatever the link does: no chunk and no piece
\* of a read leaves its transfer, and no attempt is beyond the limit.
THEOREM FirehoseTypes == Spec => []TypeOK
<1>1. Bounded => TypeOK
  BY DEF Bounded
<1>2. QED
  BY <1>1, InitBounded, StepBounded, PTL DEF Spec

\* An erase, poke or patch that succeeds was accepted by the device, unless an
\* answer of an earlier call was still under way when it began: after any calls,
\* retries, timeouts, cancels and lost writes (FirehoseProtocol.cpp).
THEOREM EraseIsTheDevices == Spec => []SuccessIsTheDevices
<1>1. AnswerInv => SuccessIsTheDevices
  BY DEF AnswerInv
<1>2. QED
  BY <1>1, InitAnswers, StepAnswers, PTL DEF Spec

\* program() and read() succeed only with all the data, each unit once and in
\* order, in pieces of whatever size: unless something of an earlier call was
\* still under way, or a write arrived otherwise than reported
\* (FirehoseStreamEngine.cpp).
THEOREM TransfersMoveAll == Spec => []TransfersAreWhole
<1>1. TransferInv => TransfersAreWhole
  BY DEF TransferInv
<1>2. QED
  BY <1>1, InitTransfer, StepTransfer, PTL DEF Spec

\* The adapter implements FlashDelivery: what the device holds of a write grows
\* in order, and success means all of it, until the call becomes foul.
THEOREM ImplementsDelivery == Spec => WritesAreDeliveries
<1>1. Init => Delivery!DInit
  BY DEF Init, Delivery!DInit, Streaming, Done
<1>2. DeliveryStep => [Delivery!DNext]_(Delivery!dvars)
  BY DEF DeliveryStep, Want, Have, Verdict, Delivery!DNext, Delivery!dvars, Delivery!Begin, Delivery!Deliver,
         Delivery!Succeed, Delivery!Fail, Delivery!Spoil, Delivery!Leave
<1>3. TransferInv /\ [Next]_vars => [Delivery!DNext]_(Delivery!dvars)
  BY <1>2, StepDelivers
<1>4. QED
  BY <1>1, <1>3, InitTransfer, StepTransfer, PTL DEF Spec, WritesAreDeliveries, Delivery!DSpec
=============================================================================
