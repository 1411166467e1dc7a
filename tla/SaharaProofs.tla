---------------------------- MODULE SaharaProofs ----------------------------
(***************************************************************************)
(* Proofs about SaharaProtocol for every range of device versions, every   *)
(* word size and every image size.                                         *)
(***************************************************************************)
EXTENDS SaharaProtocol, TLAPS

\* The data the invariants compute with.
Numbers ==
    /\ version \in Nat
    /\ hello \in Versions \X Versions
    /\ chunk \in (0..(Word - 1)) \X (0..(Word - 1))

\* An upload that still runs owes only what the transport said it wrote, and
\* so does a finished one.
NothingOwed ==
    /\ pc = "chunk" => owed \subseteq said /\ phase = "Transferring"
    /\ phase = "WaitingForProgrammer" => owed \subseteq said

Inv == Numbers /\ BestVersion /\ ChunksInImage /\ NothingOwed

------------------------------------------------------------------------------
\* The version selectVersion() chooses lies in both ranges exactly when they
\* meet, and no version of both is higher.
LEMMA SelectIsBest ==
  ASSUME NEW ver \in Nat, NEW sup \in Nat
  PROVE  LET v == selectVersion(ver, sup)
             both == {w \in hostVerSup..hostVer : sup <= w /\ w <= ver}
         IN  /\ v \in Nat
             /\ v \in both => \A w \in both : w <= v
             /\ v \notin both => both = {}
             /\ v \in both <=> ~(v < hostVerSup \/ v > hostVer \/ v < sup \/ v > ver)
  BY DEF selectVersion, hostVer, hostVerSup

\* The test of uploadProgrammer() keeps a range inside the image.
LEMMA RangeInImage ==
  ASSUME NEW off \in 0..(Word - 1), NEW len \in 0..(Word - 1), ~outOfRange(off, len)
  PROVE  off + len <= DataSize
  BY SaharaAssumption DEF outOfRange

------------------------------------------------------------------------------
\* The initial state satisfies the inductive invariant.
LEMMA InitInv == Init => Inv
  <1> SUFFICES ASSUME Init PROVE Inv
    OBVIOUS
  <1>1. Numbers /\ ChunksInImage
    BY SaharaAssumption DEF Init, Numbers, ChunksInImage, Versions
  <1>2. BestVersion /\ NothingOwed
    BY DEF Init, BestVersion, NothingOwed
  <1> QED BY <1>1, <1>2 DEF Inv

\* HELLO is the only step that chooses a version.
LEMMA HelloStep ==
  ASSUME Inv, recvHello
  PROVE  Inv'
  <1>1. PICK ver \in Versions, sup \in Versions :
          LET v == selectVersion(ver, sup) IN
          /\ hello' = <<ver, sup>>
          /\ version' = v
          /\ \/ /\ v < hostVerSup \/ v > hostVer \/ v < sup \/ v > ver
                /\ failHandshake(sm, "ProtocolMismatch")
             \/ /\ ~(v < hostVerSup \/ v > hostVer \/ v < sup \/ v > ver)
                /\ \/ failHandshake(transition(sm, HelloReceived), "error")
                   \/ /\ sm' = transition(transition(sm, HelloReceived), HelloResponseSent)
                      /\ phase' = phase
                      /\ Await(IF v >= 3 THEN "chipId" ELSE "query1")
    BY DEF recvHello
  <1> DEFINE v == selectVersion(ver, sup)
             both == {w \in hostVerSup..hostVer : sup <= w /\ w <= ver}
  <1>2. ver \in Nat /\ sup \in Nat
    BY SaharaAssumption DEF Versions
  <1>3. /\ v \in Nat
        /\ v \in both => \A w \in both : w <= v
        /\ v \notin both => both = {}
        /\ v \in both <=> ~(v < hostVerSup \/ v > hostVer \/ v < sup \/ v > ver)
    BY <1>2, SelectIsBest
  <1>4. common' = both /\ version' = v
    BY <1>1 DEF common
  <1>5. Numbers' /\ ChunksInImage'
    BY <1>1, <1>3 DEF Inv, recvHello, Numbers, ChunksInImage
  <1>6. NothingOwed'
    BY <1>1 DEF Inv, recvHello, NothingOwed, failHandshake, Return, Await
  <1> HIDE DEF v, both
  <1>7. v \notin both /\ failHandshake(sm, "ProtocolMismatch") => BestVersion'
    BY <1>3, <1>4 DEF BestVersion, failHandshake, Return
  <1>8. v \in both /\ failHandshake(transition(sm, HelloReceived), "error") => BestVersion'
    BY <1>3, <1>4 DEF BestVersion, failHandshake, Return
  <1>9. v \in both /\ Await(IF v >= 3 THEN "chipId" ELSE "query1") => BestVersion'
    BY <1>3, <1>4 DEF BestVersion, Await
  <1>10. \/ v \notin both /\ failHandshake(sm, "ProtocolMismatch")
         \/ v \in both /\ failHandshake(transition(sm, HelloReceived), "error")
         \/ v \in both /\ Await(IF v >= 3 THEN "chipId" ELSE "query1")
    BY <1>1, <1>3, Zenon DEF v
  <1>11. BestVersion'
    BY <1>7, <1>8, <1>9, <1>10
  <1> QED BY <1>5, <1>6, <1>11 DEF Inv

\* READ_DATA is the only step that writes a chunk.
LEMMA ReadDataStep ==
  ASSUME Inv, recvReadData
  PROVE  Inv'
  <1>1. PICK off \in 0..(Word - 1), len \in 0..(Word - 1) :
          IF outOfRange(off, len)
          THEN /\ sm' = transition(sm, ReadDataReceived)
               /\ owed' = owed \cup {<<off, len>>}
               /\ Return("InvalidPacket")
               /\ UNCHANGED <<chunk, said>>
          ELSE sendChunk(off, len)
    BY DEF recvReadData
  <1>2. /\ chunk' = chunk \/ (chunk' = <<off, len>> /\ ~outOfRange(off, len))
        /\ (pc' = "chunk" /\ (owed \subseteq said => owed' \subseteq said')) \/ pc' = "idle"
        /\ pc' = "idle" => result' \in {"error", "InvalidPacket"}
    BY <1>1 DEF sendChunk, written, Return, Await
  <1>3. /\ pc = "chunk" /\ phase' = phase
        /\ version' = version /\ hello' = hello
    BY DEF recvReadData
  <1>4. Numbers' /\ ChunksInImage'
    BY <1>1, <1>2, <1>3, RangeInImage DEF Inv, Numbers, ChunksInImage
  <1>5. NothingOwed'
    BY <1>2, <1>3 DEF Inv, NothingOwed
  <1>6. BestVersion'
    BY <1>2, <1>3 DEF BestVersion
  <1> QED BY <1>4, <1>5, <1>6 DEF Inv

\* Every other step keeps the versions of the last HELLO, or has none chosen.
LEMMA Step == Inv /\ [Next]_vars => Inv'
  <1> SUFFICES ASSUME Inv, [Next]_vars PROVE Inv'
    OBVIOUS
  <1>1. CASE recvHello
    BY <1>1, HelloStep
  <1>2. CASE recvReadData
    BY <1>2, ReadDataStep
  <1>3. CASE /\ version' \in {version, 0} /\ hello' = hello
             /\ chunk' \in {chunk, <<0, 0>>}
             /\ pc' = "chunk" => phase' = "Transferring" /\ owed' \subseteq said'
             /\ phase' = "WaitingForProgrammer" => owed' \subseteq said'
             /\ pc' \in {"chipId", "query1", "query2", "query3"} =>
                   pc \in {"chipId", "query1", "query2", "query3"} /\ version' = version
             /\ (result' = "ProtocolMismatch" /\ pc' = "idle" /\ phase' = "Error") =>
                   result = "ProtocolMismatch" /\ pc = "idle" /\ phase = "Error"
    <2>1. common' = common
      BY <1>3 DEF common
    <2>2. Numbers' /\ ChunksInImage'
      BY <1>3, SaharaAssumption DEF Inv, Numbers, ChunksInImage
    <2>3. NothingOwed'
      BY <1>3 DEF NothingOwed
    <2>4. BestVersion'
      BY <1>3, <2>1 DEF Inv, BestVersion
    <2> QED BY <2>2, <2>3, <2>4 DEF Inv
  <1> USE DEF Inv, NothingOwed, Begin, Await, Return
  <1>4. CASE Client
    BY <1>4, <1>3 DEF Client, handshake, uploadProgrammer, reset, resetState, reopen, call
  <1>5. CASE recvHelloFails
    BY <1>5, <1>3 DEF recvHelloFails, failHandshake
  <1>6. CASE recvChipId
    BY <1>6, <1>3 DEF recvChipId
  <1>7. CASE performV2Discovery
    BY <1>7, <1>3 DEF performV2Discovery, endHandshake, Query, After
  <1>8. CASE recvEndImage
    BY <1>8, <1>3 DEF recvEndImage
  <1>9. CASE recvDoneResp \/ recvResetResp \/ recvFails
    BY <1>9, <1>3 DEF recvDoneResp, recvResetResp, recvFails
  <1>10. CASE cancel \/ UNCHANGED vars
    BY <1>10, <1>3 DEF cancel, vars, call
  <1> QED BY <1>1, <1>2, <1>4, <1>5, <1>6, <1>7, <1>8, <1>9, <1>10 DEF Next, Host

\* The inductive invariant holds of every behaviour.
THEOREM Invariance == Spec => []Inv
  BY InitInv, Step, PTL DEF Spec

\* Version negotiation: for every device, the handshake continues with the
\* highest version both ends speak and refuses only devices that share none.
THEOREM NegotiatesBestVersion == Spec => []BestVersion
  <1>1. Inv => BestVersion
    BY DEF Inv
  <1> QED BY <1>1, Invariance, PTL

\* The programmer upload: for every word size and image size, no device
\* request makes the host read past the image.
THEOREM ChunksStayInImage == Spec => []ChunksInImage
  <1>1. Inv => ChunksInImage
    BY DEF Inv
  <1> QED BY <1>1, Invariance, PTL

\* A successful upload had no requested range refused and no write fail: for
\* every word and image size, whatever is missing at the device is a write the
\* transport cut short and reported as done.
THEOREM UploadsAreComplete == Spec => []UploadIsComplete
  <1>1. Inv => UploadIsComplete
    BY DEF Inv, NothingOwed, UploadIsComplete, uploaded
  <1> QED BY <1>1, Invariance, PTL
==============================================================================
