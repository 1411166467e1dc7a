--------------------------- MODULE PartitionProofs ---------------------------
(* For every set of tables and every bound: SingleFaultSafe, and what a      *)
(* recovery leaves on the disk, of clients that let the manager learn the    *)
(* layout first.                                                             *)
EXTENDS PartitionTable, TLAPS

\* The primary copy, and the backup copy, is complete.
P == Complete(disk, "ph")
B == Complete(disk, "bh")

Disks == [mbr : BOOLEAN, ph : Headers, bh : Headers, pe : Arrays, be : Arrays]

\* A header points to the array of its own copy: the primary always, the backup
\* when it is valid.
DiskOK ==
    /\ disk \in Disks
    /\ disk.ph.at = "pe"
    /\ disk.bh.ok => disk.bh.at = "be"

Points == {"idle", "w1", "w2", "w3", "w4", "p1", "p2", "b1", "b2", "b3", "refresh"}

\* A recovery in progress knows where the backup is.
LayoutKnown ==
    /\ live => wknown
    /\ pc \in {"p1", "p2", "b1", "b2", "b3", "refresh"} => live /\ mknown

\* How far writePrimaryAndBackup() is: what it has stored, and that the copy it
\* has not touched is still there.
WriteProgress ==
    /\ pc \in {"w1", "w2", "w3", "w4"} => new \in Tables
    /\ pc = "w1" => (faults = 0 => P /\ B)
    /\ pc \in {"w2", "w3", "w4"} => disk.pe = new
    /\ pc = "w2" => (faults = 0 => B)
    /\ pc \in {"w3", "w4"} => disk.ph = Header(new, "pe")
    /\ pc = "w4" => disk.bh = Header(new, "be")

\* How far recoverFromBackup() is: it works on one copy, the other is complete.
RecoveryProgress ==
    /\ pc \in {"p1", "p2", "b1", "b2", "b3", "refresh"} => faults >= 1
    /\ pc \in {"p1", "p2"} => (faults <= 1 => B)
    /\ pc \in {"b1", "b2", "b3"} => (faults <= 1 => P /\ table.ph = disk.ph)
    /\ pc = "refresh" => (faults <= 1 => P \/ B)
    /\ pc \in {"b1", "b2", "b3"} => table.ph \in Headers /\ table.ph.at = "pe"
    /\ pc \in {"p1", "p2"} => table.bh \in Headers
    /\ pc \in {"p1", "p2", "b1", "b2", "b3"} => table.entries \in Arrays \cup {None}

\* Between operations: no fault yet and both copies are complete, one fault and
\* one still is.
AtRest ==
    /\ pc = "idle" => (faults = 0 => P /\ B)
    /\ pc = "idle" => (faults = 1 => P \/ B)

\* The inductive invariant.
IInv ==
    /\ pc \in Points
    /\ faults \in Nat
    /\ DiskOK
    /\ LayoutKnown
    /\ WriteProgress
    /\ RecoveryProgress
    /\ AtRest

------------------------------------------------------------------------------
(* One write.                                                              *)

Content(area) == IF area \in {"ph", "bh"} THEN Headers ELSE Arrays

\* What is left of an area whose write failed half way is never a valid header
\* and never a table.
LEMMA TornContent ==
  ASSUME NEW area \in {"ph", "bh", "pe", "be"}
  PROVE  torn(area) \in Content(area)
  BY DEF torn, Content, Broken, Headers, Arrays

\* A write of one area leaves the other areas alone.
LEMMA PutFrame ==
  ASSUME NEW d \in Disks, NEW area \in {"ph", "bh", "pe", "be"}, NEW val \in Content(area)
  PROVE  /\ put(d, area, val) \in Disks
         /\ put(d, area, val)[area] = val
         /\ \A x \in {"ph", "bh", "pe", "be"} \ {area} : put(d, area, val)[x] = d[x]
  <1>1. CASE area = "ph" BY <1>1 DEF put, Disks, Content
  <1>2. CASE area = "bh" BY <1>2 DEF put, Disks, Content
  <1>3. CASE area = "pe" BY <1>3 DEF put, Disks, Content
  <1>4. CASE area = "be" BY <1>4 DEF put, Disks, Content
  <1> QED BY <1>1, <1>2, <1>3, <1>4

\* A step of an operation writes the area and goes on, or counts a fault and
\* ends with the area as it was or torn.
LEMMA WriteEffect ==
  ASSUME disk \in Disks, NEW area \in {"ph", "bh", "pe", "be"}, NEW val \in Content(area),
         NEW next, Write(area, val, next)
  PROVE  /\ disk' \in Disks
         /\ \A x \in {"ph", "bh", "pe", "be"} \ {area} : disk'[x] = disk[x]
         /\ \/ disk'[area] = val /\ pc' = next /\ faults' = faults
            \/ /\ disk'[area] \in {disk[area], torn(area)}
               /\ pc' = "idle" /\ faults' = faults + 1
         /\ UNCHANGED <<live, table, wknown, mknown, new>>
  <1>1. UNCHANGED <<live, table, wknown, mknown, new>>
    BY DEF Write, known
  <1>2. torn(area) \in Content(area)
    BY TornContent
  <1>3. CASE disk' = put(disk, area, val) /\ pc' = next /\ faults' = faults
    BY <1>1, <1>3, PutFrame
  <1>4. CASE disk' = put(disk, area, torn(area)) /\ pc' = "idle" /\ faults' = faults + 1
    BY <1>1, <1>2, <1>4, PutFrame
  <1>5. CASE disk' = disk /\ pc' = "idle" /\ faults' = faults + 1
    BY <1>1, <1>5
  <1>6. \/ disk' = put(disk, area, val) /\ pc' = next /\ faults' = faults
        \/ disk' = put(disk, area, torn(area)) /\ pc' = "idle" /\ faults' = faults + 1
        \/ disk' = disk /\ pc' = "idle" /\ faults' = faults + 1
    BY DEF Write
  <1> QED BY <1>3, <1>4, <1>5, <1>6

------------------------------------------------------------------------------
(* The parser.                                                             *)

\* A header that parse() reports valid was read and has its CRC, and the one it
\* reports invalid was not read, is damaged, or announces no entries.
LEMMA ParseFacts ==
  ASSUME DiskOK, NEW G, NEW s \in BOOLEAN, NEW t, t = parse(G, s)
  PROVE  /\ (t.pv /\ ~t.bv) => /\ t.ph = disk.ph /\ disk.ph.ok /\ disk.ph.sane
                            /\ (~s \/ "bh" \in G \/ ~disk.bh.ok)
         /\ (t.bv /\ ~t.pv) => /\ t.bh = disk.bh
                            /\ ("ph" \in G \/ ~disk.ph.ok \/ ~disk.ph.sane)
         /\ t.entries \in Arrays \cup {None}
         /\ t.pv \in BOOLEAN /\ t.bv \in BOOLEAN
         /\ "mbr" \in G => ~t.pv /\ ~t.bv
  <1>1. disk.pe \in Arrays /\ disk.be \in Arrays /\ disk.ph.at \in {"pe", "be"} /\ disk.bh.at \in {"pe", "be"}
        /\ disk.ph.ok \in BOOLEAN /\ disk.bh.ok \in BOOLEAN
    BY DEF DiskOK, Disks, Headers
  <1>2. \A h \in {"ph", "bh"} : readEntries(G, h).entries \in Arrays \cup {None}
    BY <1>1 DEF readEntries
  <1>3. CASE "mbr" \in G
    BY <1>3 DEF parse, NoTable
  <1>4. CASE "mbr" \notin G /\ headerValid(G, "ph")
    BY <1>1, <1>2, <1>4 DEF parse, headerValid
  <1>5. CASE "mbr" \notin G /\ ~headerValid(G, "ph") /\ s /\ headerValid(G, "bh")
    BY <1>1, <1>2, <1>5 DEF parse, headerValid
  <1>6. CASE "mbr" \notin G /\ ~headerValid(G, "ph") /\ ~(s /\ headerValid(G, "bh"))
    BY <1>1, <1>6 DEF parse, headerValid
  <1> QED BY <1>3, <1>4, <1>5, <1>6

------------------------------------------------------------------------------
(* The invariant.                                                          *)

\* The first disk has two complete copies, or counts as damaged twice already.
LEMMA InitIInv == Init => IInv
  <1> SUFFICES ASSUME Init PROVE IInv
    OBVIOUS
  <1>1. PICK t \in Tables, u \in Tables :
          disk \in [mbr : {TRUE}, ph : {Header(t, "pe"), Broken, Insane(t, "pe")},
                   bh : {Header(u, "be"), Broken, Insane(u, "be")},
                   pe : {t, Junk}, be : {u, Junk}]
    BY DEF Init
  <1>h. \A v \in Tables, a \in {"pe", "be"} :
           /\ Header(v, a) \in Headers /\ Header(v, a).at = a
           /\ Insane(v, a) \in Headers /\ Insane(v, a).at = a
    BY DEF Headers, Header, Insane, Arrays
  <1>b. Broken \in Headers /\ Broken.at = "pe" /\ ~Broken.ok
    BY DEF Headers, Broken, Arrays
  <1>2. DiskOK
    <2>1. disk.ph \in {Header(t, "pe"), Broken, Insane(t, "pe")}
          /\ disk.bh \in {Header(u, "be"), Broken, Insane(u, "be")}
      BY <1>1
    <2>2. disk \in Disks
      BY <1>1, <1>h, <1>b DEF Disks, Arrays
    <2> QED BY <2>1, <2>2, <1>h, <1>b DEF DiskOK
  <1>3. pc = "idle" /\ live = FALSE /\ faults = IF Both(disk) THEN 0 ELSE 2
    BY DEF Init
  <1>4. faults \in Nat /\ AtRest
    BY <1>3 DEF AtRest, Both, P, B
  <1>5. LayoutKnown /\ WriteProgress /\ RecoveryProgress
    BY <1>3 DEF LayoutKnown, WriteProgress, RecoveryProgress
  <1> QED BY <1>2, <1>3, <1>4, <1>5 DEF IInv, Points

\* A step between operations that leaves the disk alone and counts as Tally()
\* does keeps the invariant.
LEMMA RestStep ==
  ASSUME IInv, pc = "idle", pc' = "idle", disk' = disk,
         faults' = faults \/ faults' = Base \/ faults' = Base + 1,
         live' => wknown'
  PROVE  IInv'
  <1>1. DiskOK'
    BY DEF IInv, DiskOK
  <1>2. P' = P /\ B' = B
    BY DEF P, B, Complete
  <1>3. Base = IF P /\ B THEN 0 ELSE faults
    BY DEF Base, Both, P, B
  <1>4. faults' \in Nat /\ AtRest'
    BY <1>2, <1>3 DEF IInv, AtRest
  <1>5. LayoutKnown' /\ WriteProgress' /\ RecoveryProgress'
    BY DEF LayoutKnown, WriteProgress, RecoveryProgress
  <1> QED BY <1>1, <1>4, <1>5 DEF IInv, Points

\* The operations of the manager that only read.
LEMMA ReadOps ==
  ASSUME IInv, Careful,
         PartitionManager \/ openDevice \/ closeDevice \/ open \/ openFails \/ refreshTable \/ findByName
  PROVE  IInv'
  <1>0. live => wknown
    BY DEF IInv, LayoutKnown
  <1>f. Base \in Nat
    BY DEF IInv, Base
  <1>t. \A n \in {0, 1} : Tally(n) => faults' = Base \/ faults' = Base + 1
    BY <1>f DEF Tally
  <1>1. CASE PartitionManager
    <2>1. wknown' = TRUE
      BY <1>1 DEF PartitionManager
    <2> QED BY <1>1, <1>t, <2>1, RestStep DEF PartitionManager, Begin
  <1>2. CASE openDevice \/ closeDevice
    BY <1>2, <1>0, RestStep DEF openDevice, closeDevice, known
  <1>3. CASE openFails
    BY <1>3, <1>0, <1>t, RestStep DEF openFails, Begin, known
  <1>4. CASE open
    <2>1. faults' = Base \/ faults' = Base + 1
      BY <1>4, <1>t DEF open, Cost
    <2> QED BY <1>4, <1>0, <2>1, RestStep DEF open, Begin
  <1>5. CASE refreshTable
    <2>1. faults' = Base \/ faults' = Base + 1
      BY <1>5, <1>t DEF refreshTable, Cost
    <2> QED BY <1>5, <1>0, <2>1, RestStep DEF refreshTable, Begin
  <1>6. CASE findByName
    <2>1. faults' = Base \/ faults' = Base + 1
      BY <1>6, <1>t DEF findByName, Cost
    <2> QED BY <1>6, <1>0, <2>1, RestStep DEF findByName, Begin
  <1> QED BY <1>1, <1>2, <1>3, <1>4, <1>5, <1>6

\* writePrimaryAndBackup() begins with both copies as they are.
LEMMA StartWrite ==
  ASSUME IInv, writePrimaryAndBackup
  PROVE  IInv'
  <1>1. disk' = disk /\ pc = "idle" /\ pc' = "w1" /\ new' \in Tables
        /\ UNCHANGED <<live, wknown>> /\ faults' = Base
    BY DEF writePrimaryAndBackup, Begin, Tally, known, IInv, Base
  <1>2. DiskOK' /\ P' = P /\ B' = B
    BY <1>1 DEF IInv, DiskOK, P, B, Complete
  <1>3. Base = IF P /\ B THEN 0 ELSE faults
    BY DEF Base, Both, P, B
  <1>4. faults' \in Nat /\ (faults' = 0 => P' /\ B')
    BY <1>1, <1>2, <1>3 DEF IInv, AtRest
  <1>5. WriteProgress'
    BY <1>1, <1>4 DEF WriteProgress
  <1>6. LayoutKnown' /\ RecoveryProgress' /\ AtRest'
    BY <1>1 DEF IInv, LayoutKnown, RecoveryProgress, AtRest
  <1> QED BY <1>1, <1>2, <1>4, <1>5, <1>6 DEF IInv, Points

\* writePrimaryAndBackup(): each of its four writes done, failed or torn.
LEMMA WriteSteps ==
  ASSUME IInv, writeNext
  PROVE  IInv'
  <1> DEFINE E(area) ==
        /\ disk' \in Disks
        /\ \A x \in {"ph", "bh", "pe", "be"} \ {area} : disk'[x] = disk[x]
        /\ UNCHANGED <<live, table, wknown, mknown, new>>
  <1> DEFINE Done(area, val, next) == disk'[area] = val /\ pc' = next /\ faults' = faults
  <1> DEFINE Failed(area) == /\ disk'[area] \in {disk[area], torn(area)}
                             /\ pc' = "idle" /\ faults' = faults + 1
  <1>0. disk \in Disks /\ faults \in Nat /\ (live => wknown) /\ disk.ph.at = "pe"
        /\ (disk.bh.ok => disk.bh.at = "be")
    BY DEF IInv, DiskOK, LayoutKnown
  <1>n. pc \in {"w1", "w2", "w3", "w4"} /\ new \in Tables
    BY DEF writeNext, writeOrder, IInv, WriteProgress
  <1>j. new # Junk /\ new \in Arrays
    BY <1>n, TablesAreTables DEF Arrays
  <1>h. Header(new, "pe") \in Headers /\ Header(new, "be") \in Headers
    BY <1>j DEF Headers, Header
  <1>b. ~Broken.ok /\ Broken.at = "pe" /\ torn("ph") = Broken /\ torn("bh") = Broken
    BY DEF Broken, torn
  <1>1. CASE pc = "w1"
    <2>1. Write("pe", new, "w2")
      BY <1>1 DEF writeNext, writeOrder, contentOf, After
    <2>2. E("pe") /\ (Done("pe", new, "w2") \/ Failed("pe"))
      BY <2>1, <1>0, <1>j, WriteEffect DEF Content
    <2>3. DiskOK'
      BY <1>0, <2>2 DEF DiskOK
    <2>4. faults = 0 => P /\ B
      BY <1>1 DEF IInv, WriteProgress
    <2>5. B => B'
      BY <1>0, <2>2 DEF B, Complete
    <2>6. WriteProgress'
      BY <2>2, <2>4, <2>5, <1>n DEF WriteProgress
    <2>7. RecoveryProgress' /\ LayoutKnown'
      BY <2>2, <1>0 DEF RecoveryProgress, LayoutKnown
    <2>8. AtRest' /\ faults' \in Nat /\ pc' \in Points
      BY <2>2, <2>4, <2>5, <1>0 DEF AtRest, Points
    <2> QED BY <2>3, <2>6, <2>7, <2>8 DEF IInv
  <1>2. CASE pc = "w2"
    <2>1. Write("ph", Header(new, "pe"), "w3")
      BY <1>2 DEF writeNext, writeOrder, contentOf, After
    <2>2. E("ph") /\ (Done("ph", Header(new, "pe"), "w3") \/ Failed("ph"))
      BY <2>1, <1>0, <1>h, WriteEffect DEF Content
    <2>3. DiskOK'
      BY <1>0, <1>b, <2>2 DEF DiskOK, Header
    <2>4. disk.pe = new /\ (faults = 0 => B)
      BY <1>2 DEF IInv, WriteProgress
    <2>5. B => B'
      BY <1>0, <2>2 DEF B, Complete
    <2>6. WriteProgress'
      BY <2>2, <2>4, <1>n DEF WriteProgress
    <2>7. RecoveryProgress' /\ LayoutKnown'
      BY <2>2, <1>0 DEF RecoveryProgress, LayoutKnown
    <2>8. AtRest' /\ faults' \in Nat /\ pc' \in Points
      BY <2>2, <2>4, <2>5, <1>0 DEF AtRest, Points
    <2> QED BY <2>3, <2>6, <2>7, <2>8 DEF IInv
  <1>3. CASE pc = "w3"
    <2>1. Write("bh", Header(new, "be"), "w4")
      BY <1>3 DEF writeNext, writeOrder, contentOf, After
    <2>2. E("bh") /\ (Done("bh", Header(new, "be"), "w4") \/ Failed("bh"))
      BY <2>1, <1>0, <1>h, WriteEffect DEF Content
    <2>3. DiskOK'
      BY <1>0, <1>b, <2>2 DEF DiskOK, Header
    <2>4. disk.pe = new /\ disk.ph = Header(new, "pe")
      BY <1>3 DEF IInv, WriteProgress
    <2>5. P'
      BY <1>0, <1>j, <2>2, <2>4 DEF P, Complete, Header
    <2>6. WriteProgress'
      BY <2>2, <2>4, <1>n DEF WriteProgress
    <2>7. RecoveryProgress' /\ LayoutKnown'
      BY <2>2, <1>0 DEF RecoveryProgress, LayoutKnown
    <2>8. AtRest' /\ faults' \in Nat /\ pc' \in Points
      BY <2>2, <2>5, <1>0 DEF AtRest, Points
    <2> QED BY <2>3, <2>6, <2>7, <2>8 DEF IInv
  <1>4. CASE pc = "w4"
    <2>1. Write("be", new, "idle")
      BY <1>4 DEF writeNext, writeOrder, contentOf, After
    <2>2. E("be") /\ (Done("be", new, "idle") \/ Failed("be"))
      BY <2>1, <1>0, <1>j, WriteEffect DEF Content
    <2>3. DiskOK'
      BY <1>0, <2>2 DEF DiskOK
    <2>4. disk.pe = new /\ disk.ph = Header(new, "pe") /\ disk.bh = Header(new, "be")
      BY <1>4 DEF IInv, WriteProgress
    <2>5. P' /\ (disk'["be"] = new => B')
      BY <1>0, <1>j, <2>2, <2>4 DEF P, B, Complete, Header
    <2>6. WriteProgress' /\ RecoveryProgress' /\ LayoutKnown'
      BY <2>2, <1>0 DEF WriteProgress, RecoveryProgress, LayoutKnown
    <2>8. AtRest' /\ faults' \in Nat /\ pc' \in Points
      BY <2>2, <2>5, <1>0 DEF AtRest, Points
    <2> QED BY <2>3, <2>6, <2>8 DEF IInv
  <1> QED BY <1>1, <1>2, <1>3, <1>4, <1>n

\* recoverFromBackup() decides: with at most one fault behind it, the copy it is
\* going to read from is complete.
LEMMA StartRecovery ==
  ASSUME IInv, Careful, recoverFromBackup
  PROVE  IInv'
  <1>1. PICK F \in Faulty : Tally(Cost(F)) /\ Parse(F)
    BY DEF recoverFromBackup
  <1> DEFINE G == failing(F)
  <1>2. disk' = disk /\ pc = "idle" /\ live /\ mknown
        /\ UNCHANGED <<live, mknown, wknown, devOpen>>
    BY DEF recoverFromBackup, Begin
  <1>3. DiskOK /\ DiskOK' /\ P' = P /\ B' = B
    BY <1>2 DEF IInv, DiskOK, P, B, Complete
  <1>d. disk.ph \in Headers /\ disk.bh \in Headers /\ disk.ph.at = "pe"
    BY DEF IInv, DiskOK, Disks
  <1>4. table' = parse(G, sized') /\ sized' \in BOOLEAN /\ ("info" \notin G => sized')
    BY <1>1 DEF Parse
  <1>5. pc' = (IF table'.pv = table'.bv THEN "idle" ELSE IF table'.bv THEN "p1" ELSE "b1")
    BY DEF recoverFromBackup
  <1>6. /\ table'.pv \in BOOLEAN /\ table'.bv \in BOOLEAN
        /\ table'.entries \in Arrays \cup {None}
        /\ "mbr" \in G => ~table'.pv /\ ~table'.bv
        /\ (table'.pv /\ ~table'.bv) => /\ table'.ph = disk.ph /\ disk.ph.ok /\ disk.ph.sane
                                     /\ (~sized' \/ "bh" \in G \/ ~disk.bh.ok)
        /\ (table'.bv /\ ~table'.pv) => /\ table'.bh = disk.bh
                                     /\ ("ph" \in G \/ ~disk.ph.ok \/ ~disk.ph.sane)
    BY <1>3, <1>4, ParseFacts
  <1>7. Base = (IF P /\ B THEN 0 ELSE faults) /\ Base \in Nat
    BY DEF Base, Both, P, B, IInv
  <1>8. pc' # "idle" => devOpen' /\ G = F
    <2>1. ~devOpen' => G = Reads
      BY DEF failing
    <2>2. ~devOpen' => "mbr" \in G
      BY <2>1 DEF Reads
    <2>3. devOpen' => G = F
      BY DEF failing
    <2> QED BY <2>2, <2>3, <1>5, <1>6
  <1>9. (F = {} => faults' = Base) /\ (F # {} => faults' = Base + 1) /\ faults' \in Nat
    <2>1. faults' = Base + Cost(F)
      BY <1>1 DEF Tally
    <2>2. Base \in Nat
      BY <1>7
    <2>3. CASE F = {}
      BY <2>1, <2>2, <2>3 DEF Cost
    <2>4. CASE F # {}
      BY <2>1, <2>2, <2>4 DEF Cost
    <2> QED BY <2>3, <2>4
  <1>10. CASE pc' = "idle"
    <2>1. faults' = Base \/ faults' = Base + 1
      BY <1>9
    <2> QED BY <1>2, <1>10, <2>1, RestStep DEF IInv, LayoutKnown
  <1>11. CASE pc' = "p1"
    <2>1. table'.bv /\ ~table'.pv /\ G = F
      BY <1>5, <1>6, <1>8, <1>11
    <2>2. F = {} => ~P
      BY <2>1, <1>6 DEF P, Complete
    <2>3. faults' >= 1 /\ (faults' <= 1 => B)
      BY <2>2, <1>2, <1>7, <1>9 DEF IInv, AtRest
    <2>b. table'.bh = disk.bh
      BY <2>1, <1>6
    <2>4. table'.bh \in Headers
      BY <2>b, <1>d
    <2>5. RecoveryProgress'
      BY <2>3, <2>4, <1>3, <1>6, <1>11 DEF RecoveryProgress
    <2>6. LayoutKnown' /\ WriteProgress' /\ AtRest' /\ pc' \in Points
      BY <1>2, <1>11 DEF IInv, LayoutKnown, WriteProgress, AtRest, Points
    <2> QED BY <1>3, <1>9, <2>5, <2>6 DEF IInv
  <1>12. CASE pc' = "b1"
    <2>1. table'.pv /\ ~table'.bv /\ G = F
      BY <1>5, <1>6, <1>8, <1>12
    <2>2. F = {} => ~B
      BY <2>1, <1>4, <1>6 DEF B, Complete
    <2>3. faults' >= 1 /\ (faults' <= 1 => P)
      BY <2>2, <1>2, <1>7, <1>9 DEF IInv, AtRest
    <2>p. table'.ph = disk.ph
      BY <2>1, <1>6
    <2>4. table'.ph \in Headers /\ table'.ph.at = "pe" /\ table'.ph = disk'.ph
      BY <2>p, <1>2, <1>d
    <2>5. RecoveryProgress'
      BY <2>3, <2>4, <1>3, <1>6, <1>12 DEF RecoveryProgress
    <2>6. LayoutKnown' /\ WriteProgress' /\ AtRest' /\ pc' \in Points
      BY <1>2, <1>12 DEF IInv, LayoutKnown, WriteProgress, AtRest, Points
    <2> QED BY <1>3, <1>9, <2>5, <2>6 DEF IInv
  <1> QED BY <1>5, <1>10, <1>11, <1>12

\* A step of a recovery that leaves it in progress or ends it, when the copy it
\* reads from stays complete, keeps the invariant.
LEMMA RecoveryStep ==
  ASSUME IInv, DiskOK', pc \in {"p1", "p2", "b1", "b2", "b3"},
         UNCHANGED <<live, table, wknown, mknown, new>>,
         \/ pc' = "idle" /\ (faults' = faults \/ faults' = faults + 1)
         \/ pc' = "refresh" /\ faults' = faults
         \/ pc' = "p2" /\ pc = "p1" /\ faults' = faults
         \/ pc' = "b2" /\ pc = "b1" /\ faults' = faults
         \/ pc' = "b3" /\ pc = "b2" /\ faults' = faults,
         pc \in {"p1", "p2"} => (B => B'),
         pc \in {"b1", "b2", "b3"} /\ table.ph = disk.ph /\ faults' = faults
            => disk'.ph = disk.ph /\ (P => P')
  PROVE  IInv'
  <1>1. faults \in Nat /\ faults >= 1 /\ faults' \in Nat /\ live /\ mknown /\ wknown
    BY DEF IInv, RecoveryProgress, LayoutKnown
  <1>2. pc' \in Points /\ LayoutKnown' /\ WriteProgress'
    BY <1>1 DEF Points, LayoutKnown, WriteProgress
  <1>3. faults' <= 1 => faults' = faults /\ (P' \/ B')
    BY <1>1 DEF IInv, RecoveryProgress
  <1>4. AtRest'
    BY <1>1, <1>3 DEF AtRest
  <1>5. RecoveryProgress'
    BY <1>1, <1>3 DEF IInv, RecoveryProgress
  <1> QED BY <1>1, <1>2, <1>4, <1>5 DEF IInv

\* Restoring the primary copy never touches the complete backup it reads from.
LEMMA RestorePrimary ==
  ASSUME IInv, restorePrimaryEntries \/ restorePrimaryHeader
  PROVE  IInv'
  <1>0. DiskOK /\ disk \in Disks /\ faults \in Nat
    BY DEF IInv, DiskOK
  <1>1. pc \in {"p1", "p2"} /\ table.bh \in Headers /\ table.entries \in Arrays \cup {None}
    BY DEF restorePrimaryEntries, restorePrimaryHeader, IInv, RecoveryProgress
  <1>2. serializeEntries(table.entries) \in Arrays /\ computeEntryCRC(table.entries) \in Arrays
    BY <1>1 DEF serializeEntries, computeEntryCRC, Arrays
  <1>3. newPrimary \in Headers /\ newPrimary.at = "pe"
    BY <1>1, <1>2 DEF newPrimary, Headers
  <1>4. torn("ph").at = "pe"
    BY DEF torn, Broken
  <1>5. CASE restorePrimaryEntries /\ table.bh.sane
    <2>1. Write("pe", serializeEntries(table.entries), "p2") /\ pc = "p1"
      BY <1>5 DEF restorePrimaryEntries
    <2>2. /\ disk' \in Disks /\ disk'.ph = disk.ph /\ disk'.bh = disk.bh /\ disk'.be = disk.be
          /\ UNCHANGED <<live, table, wknown, mknown, new>>
          /\ \/ pc' = "p2" /\ faults' = faults
             \/ pc' = "idle" /\ faults' = faults + 1
      BY <2>1, <1>0, <1>2, WriteEffect DEF Content
    <2>3. DiskOK' /\ (B => B')
      BY <2>2, <1>0 DEF DiskOK, B, Complete
    <2> QED BY <2>1, <2>2, <2>3, RecoveryStep
  <1>6. CASE restorePrimaryEntries /\ ~table.bh.sane
    <2>1. pc = "p1" /\ pc' = "idle" /\ disk' = disk /\ faults' = faults
          /\ UNCHANGED <<live, table, wknown, mknown, new>>
      BY <1>6 DEF restorePrimaryEntries, known
    <2>2. DiskOK' /\ (B => B')
      BY <2>1, <1>0 DEF DiskOK, B, Complete
    <2> QED BY <2>1, <2>2, RecoveryStep
  <1>7. CASE restorePrimaryHeader
    <2>1. Write("ph", newPrimary, "refresh") /\ pc = "p2"
      BY <1>7 DEF restorePrimaryHeader
    <2>2. /\ disk' \in Disks /\ disk'.bh = disk.bh /\ disk'.be = disk.be /\ disk'.pe = disk.pe
          /\ disk'.ph \in {newPrimary, disk.ph, torn("ph")}
          /\ UNCHANGED <<live, table, wknown, mknown, new>>
          /\ \/ pc' = "refresh" /\ faults' = faults
             \/ pc' = "idle" /\ faults' = faults + 1
      BY <2>1, <1>0, <1>3, WriteEffect DEF Content
    <2>3. DiskOK' /\ (B => B')
      BY <2>2, <1>0, <1>3, <1>4 DEF DiskOK, B, Complete
    <2> QED BY <2>1, <2>2, <2>3, RecoveryStep
  <1> QED BY <1>5, <1>6, <1>7

\* Restoring the backup copy never touches the complete primary it reads from.
LEMMA RestoreBackup ==
  ASSUME IInv, restoreBackupHeader \/ restoreBackupEntries \/ rewritePrimaryHeader
  PROVE  IInv'
  <1>0. DiskOK /\ disk \in Disks /\ faults \in Nat
    BY DEF IInv, DiskOK
  <1>1. pc \in {"b1", "b2", "b3"} /\ table.ph \in Headers /\ table.ph.at = "pe"
        /\ table.entries \in Arrays \cup {None} /\ wknown /\ mknown
    BY DEF restoreBackupHeader, restoreBackupEntries, rewritePrimaryHeader, IInv,
           RecoveryProgress, LayoutKnown
  <1>2. serializeEntries(table.entries) \in Arrays
    BY <1>1 DEF serializeEntries, Arrays
  <1>3. LET h == [table.ph EXCEPT !.at = "be"] IN h \in Headers /\ h.at = "be"
    BY <1>1 DEF Headers
  <1>4. torn("ph").at = "pe" /\ ~torn("bh").ok
    BY DEF torn, Broken
  <1>5. CASE restoreBackupHeader
    <2> DEFINE h == [table.ph EXCEPT !.at = "be"]
    <2>1. Write("bh", h, "b2") /\ pc = "b1"
      BY <1>1, <1>5 DEF restoreBackupHeader
    <2>2. /\ disk' \in Disks /\ disk'.ph = disk.ph /\ disk'.pe = disk.pe /\ disk'.be = disk.be
          /\ disk'.bh \in {h, disk.bh, torn("bh")}
          /\ UNCHANGED <<live, table, wknown, mknown, new>>
          /\ \/ pc' = "b2" /\ faults' = faults
             \/ pc' = "idle" /\ faults' = faults + 1
      BY <2>1, <1>0, <1>3, WriteEffect DEF Content
    <2>3. DiskOK' /\ (P => P')
      BY <2>2, <1>0, <1>3, <1>4 DEF DiskOK, P, Complete
    <2> QED BY <2>1, <2>2, <2>3, RecoveryStep
  <1>6. CASE restoreBackupEntries
    <2>1. Write("be", serializeEntries(table.entries), "b3") /\ pc = "b2"
      BY <1>1, <1>6 DEF restoreBackupEntries
    <2>2. /\ disk' \in Disks /\ disk'.ph = disk.ph /\ disk'.pe = disk.pe /\ disk'.bh = disk.bh
          /\ UNCHANGED <<live, table, wknown, mknown, new>>
          /\ \/ pc' = "b3" /\ faults' = faults
             \/ pc' = "idle" /\ faults' = faults + 1
      BY <2>1, <1>0, <1>2, WriteEffect DEF Content
    <2>3. DiskOK' /\ (P => P')
      BY <2>2, <1>0 DEF DiskOK, P, Complete
    <2> QED BY <2>1, <2>2, <2>3, RecoveryStep
  <1>7. CASE rewritePrimaryHeader
    <2>1. Write("ph", table.ph, "refresh") /\ pc = "b3"
      BY <1>7 DEF rewritePrimaryHeader
    <2>2. /\ disk' \in Disks /\ disk'.bh = disk.bh /\ disk'.be = disk.be /\ disk'.pe = disk.pe
          /\ UNCHANGED <<live, table, wknown, mknown, new>>
          /\ \/ disk'.ph = table.ph /\ pc' = "refresh" /\ faults' = faults
             \/ disk'.ph \in {disk.ph, torn("ph")} /\ pc' = "idle" /\ faults' = faults + 1
      BY <2>1, <1>0, <1>1, WriteEffect DEF Content
    <2>3. DiskOK'
      BY <2>2, <1>0, <1>1, <1>4 DEF DiskOK
    <2>4. table.ph = disk.ph /\ faults' = faults => disk'.ph = disk.ph /\ (P => P')
      BY <2>2, <1>0 DEF DiskOK, P, Complete
    <2> QED BY <2>1, <2>2, <2>3, <2>4, RecoveryStep
  <1> QED BY <1>5, <1>6, <1>7

\* The refreshTable() at the end of a recovery only reads.
LEMMA EndRecovery ==
  ASSUME IInv, refreshAfter
  PROVE  IInv'
  <1>1. pc = "refresh" /\ pc' = "idle" /\ disk' = disk /\ UNCHANGED <<live, wknown>>
    BY DEF refreshAfter
  <1>2. faults' = faults \/ faults' = faults + 1
    BY DEF refreshAfter, Cost, IInv
  <1>3. faults \in Nat /\ faults >= 1 /\ faults' \in Nat
    BY <1>1, <1>2 DEF IInv, RecoveryProgress
  <1>4. DiskOK' /\ P' = P /\ B' = B
    BY <1>1 DEF IInv, DiskOK, P, B, Complete
  <1>5. faults <= 1 => P \/ B
    BY <1>1 DEF IInv, RecoveryProgress
  <1>6. AtRest'
    BY <1>2, <1>3, <1>4, <1>5 DEF AtRest
  <1>7. LayoutKnown' /\ WriteProgress' /\ RecoveryProgress' /\ pc' \in Points
    BY <1>1 DEF IInv, LayoutKnown, WriteProgress, RecoveryProgress, Points
  <1> QED BY <1>3, <1>4, <1>6, <1>7 DEF IInv

\* Ending at any write with no earlier fault leaves the copy not being written.
LEMMA CrashStep ==
  ASSUME IInv, crash
  PROVE  IInv'
  <1>1. pc # "idle" /\ pc' = "idle" /\ disk' = disk /\ ~live' /\ faults' = faults + 1
    BY DEF crash
  <1>2. faults \in Nat /\ faults' \in Nat /\ faults' # 0
    BY <1>1 DEF IInv
  <1>3. DiskOK' /\ P' = P /\ B' = B
    BY <1>1 DEF IInv, DiskOK, P, B, Complete
  <1>4. faults = 0 => P \/ B
    <2>1. CASE pc \in {"w1", "w2"}
      BY <2>1 DEF IInv, WriteProgress
    <2>2. CASE pc \in {"w3", "w4"}
      <3>1. disk.pe = new /\ disk.ph = Header(new, "pe") /\ new \in Tables
        BY <2>2 DEF IInv, WriteProgress
      <3> QED BY <3>1, TablesAreTables DEF P, Complete, Header
    <2>3. CASE pc \in {"p1", "p2", "b1", "b2", "b3", "refresh"}
      BY <2>3, <1>2 DEF IInv, RecoveryProgress
    <2> QED BY <2>1, <2>2, <2>3, <1>1 DEF IInv, Points
  <1>5. AtRest'
    BY <1>1, <1>2, <1>3, <1>4 DEF AtRest
  <1>6. LayoutKnown' /\ WriteProgress' /\ RecoveryProgress' /\ pc' \in Points
    BY <1>1 DEF LayoutKnown, WriteProgress, RecoveryProgress, Points
  <1> QED BY <1>2, <1>3, <1>5, <1>6 DEF IInv

\* Every step of a client, the manager or the fault model keeps the invariant.
LEMMA StepIInv ==
  ASSUME IInv, Careful, [Next]_vars
  PROVE  IInv'
  <1>1. CASE UNCHANGED vars
    <2>1. UNCHANGED <<disk, pc, faults, live, table, new, wknown, mknown>>
      BY <1>1 DEF vars, known
    <2> QED BY <2>1 DEF IInv, DiskOK, LayoutKnown, WriteProgress, RecoveryProgress, AtRest, P, B, Complete
  <1>2. CASE PartitionManager \/ openDevice \/ closeDevice \/ open \/ openFails \/ refreshTable \/ findByName
    BY <1>2, ReadOps
  <1>3. CASE writePrimaryAndBackup
    BY <1>3, StartWrite
  <1>4. CASE recoverFromBackup
    BY <1>4, StartRecovery
  <1>5. CASE writeNext
    BY <1>5, WriteSteps
  <1>6. CASE restorePrimaryEntries \/ restorePrimaryHeader
    BY <1>6, RestorePrimary
  <1>7. CASE restoreBackupHeader \/ restoreBackupEntries \/ rewritePrimaryHeader
    BY <1>7, RestoreBackup
  <1>8. CASE refreshAfter
    BY <1>8, EndRecovery
  <1>9. CASE crash
    BY <1>9, CrashStep
  <1> QED BY <1>1, <1>2, <1>3, <1>4, <1>5, <1>6, <1>7, <1>8, <1>9 DEF Next, Client, Recovering

------------------------------------------------------------------------------
\* One failed read, one failed or torn write or one crash, whenever it happens
\* in writePrimaryAndBackup() or recoverFromBackup(), leaves a complete copy of
\* the partition table: for any tables and any number of operations, provided
\* clients let the manager read the layout of an open device first.
THEOREM OneFaultIsSurvived ==
  ASSUME Careful
  PROVE  Spec => []SingleFaultSafe
  <1>1. Init => IInv
    BY InitIInv
  <1>2. IInv /\ [Next]_vars => IInv'
    BY StepIInv
  <1>3. IInv => SingleFaultSafe
    BY DEF IInv, AtRest, SingleFaultSafe, P, B
  <1> QED BY <1>1, <1>2, <1>3, PTL DEF Spec

\* A writePrimaryAndBackup() that reports success has stored two complete,
\* independent copies of the table it was given.
THEOREM WritesAreComplete ==
  ASSUME Careful
  PROVE  Spec => WriteIsComplete
  <1>1. Init => IInv
    BY InitIInv
  <1>2. IInv /\ [Next]_vars => IInv'
    BY StepIInv
  <1>3. IInv /\ [Next]_vars => [(pc = "w4" /\ result' = "ok") =>
          /\ Both(disk') /\ disk'.ph.at # disk'.bh.at
          /\ disk'.pe = new /\ disk'.be = new]_vars
    <2> SUFFICES ASSUME IInv, Next, pc = "w4", result' = "ok"
                 PROVE  /\ Both(disk') /\ disk'.ph.at # disk'.bh.at
                        /\ disk'.pe = new /\ disk'.be = new
      BY DEF vars
    <2>1. writeNext
      BY DEF Next, Client, Recovering, Begin, PartitionManager, openDevice, closeDevice, open, openFails,
             refreshTable, findByName, writePrimaryAndBackup, recoverFromBackup,
             restorePrimaryEntries, restorePrimaryHeader, restoreBackupHeader,
             restoreBackupEntries, rewritePrimaryHeader, refreshAfter, crash
    <2>2. Write("be", new, "idle")
      BY <2>1 DEF writeNext, writeOrder, contentOf, After
    <2>3. disk \in Disks /\ new \in Tables /\ disk.pe = new
          /\ disk.ph = Header(new, "pe") /\ disk.bh = Header(new, "be")
      BY DEF IInv, DiskOK, WriteProgress
    <2>4. new \in Content("be") /\ new # Junk
      BY <2>3, TablesAreTables DEF Content, Arrays
    <2>5. disk' = put(disk, "be", new)
      BY <2>2 DEF Write
    <2>6. disk'.be = new /\ disk'.pe = disk.pe /\ disk'.ph = disk.ph /\ disk'.bh = disk.bh
      BY <2>3, <2>4, <2>5, PutFrame
    <2> QED BY <2>3, <2>4, <2>6 DEF Both, Complete, Header
  <1> QED BY <1>1, <1>2, <1>3, PTL DEF Spec, WriteIsComplete

------------------------------------------------------------------------------
(* What a recovery copies.                                                 *)

Restoring == {"p1", "p2", "b1", "b2", "b3", "refresh"}

\* The header a recovery restores from is still the one it has parsed.
SourceIsKept ==
    /\ pc \in {"p1", "p2"} => table.bh = disk.bh
    /\ pc \in {"b1", "b2", "b3"} => table.ph = disk.ph

\* How much of the table that is to be restored is in both copies.
CopyProgress ==
    /\ pc \in DOMAIN writeOrder => source = None
    /\ (source # None /\ pc \in Restoring) => devOpen
    /\ (source # None /\ pc \in {"p1", "p2"}) =>
          B /\ disk.be = source /\ table.entries = source
    /\ (source # None /\ pc = "p2") => disk.pe = source
    /\ (source # None /\ pc \in {"b1", "b2", "b3"}) =>
          P /\ disk.pe = source /\ table.entries = source
    /\ (source # None /\ pc \in {"b2", "b3"}) => disk.bh = [disk.ph EXCEPT !.at = "be"]
    /\ (source # None /\ pc = "b3") => disk.be = source
    /\ (source # None /\ pc = "refresh") => Both(disk) /\ disk.pe = source /\ disk.be = source

RInv == SourceIsKept /\ CopyProgress /\ RecoveryIsExact

\* A write changes nothing but the disk and the outcome.
LEMMA WriteKeeps ==
  ASSUME NEW area, NEW val, NEW next, Write(area, val, next), next # "idle"
  PROVE  /\ UNCHANGED <<table, source, devOpen>>
         /\ pc' = next \/ (pc' = "idle" /\ result' = "error")
  BY DEF Write

\* The operations that neither recover nor go on with a write leave nothing
\* to restore, or fail.
LEMMA OtherSteps ==
  ASSUME RInv, pc' \notin Restoring,
         \/ source' = None
         \/ result' \notin {"ok"} /\ pc' = "idle"
         \/ UNCHANGED <<disk, table, pc, result, source>>
  PROVE  RInv'
  <1>1. SourceIsKept'
    BY DEF SourceIsKept, Restoring
  <1>2. CASE source' = None
    BY <1>1, <1>2 DEF RInv, CopyProgress, RecoveryIsExact
  <1>3. CASE result' # "ok" /\ pc' = "idle"
    BY <1>1, <1>3 DEF RInv, CopyProgress, RecoveryIsExact, writeOrder
  <1>4. CASE UNCHANGED <<disk, table, pc, result, source>>
    <2>1. P' = P /\ B' = B
      BY <1>4 DEF P, B, Complete
    <2> QED BY <1>1, <1>4, <2>1 DEF RInv, CopyProgress, RecoveryIsExact, Both, Complete
  <1> QED BY <1>2, <1>3, <1>4

\* With nothing failing, parse() finds the one valid copy, and restores from
\* it the table whose CRC its header has.
LEMMA BeginCopy ==
  ASSUME IInv, RInv, recoverFromBackup
  PROVE  RInv'
  <1> DEFINE p == table'.pv
             b == table'.bv
  <1>1. PICK F \in Faulty : /\ Tally(Cost(F)) /\ Parse(F)
                            /\ source' = IF F = {} /\ devOpen THEN toRestore ELSE None
    BY DEF recoverFromBackup
  <1> DEFINE G == failing(F)
  <1>2. disk' = disk /\ devOpen' = devOpen
    BY DEF recoverFromBackup
  <1>3. sized' \in BOOLEAN /\ table' = parse(G, sized') /\ ("info" \notin G => sized')
    <2>1. sized \in BOOLEAN \/ TRUE
      OBVIOUS
    <2>2. sized' = (sized \/ "info" \notin G) /\ table' = parse(G, sized')
      BY <1>1 DEF Parse
    <2> QED BY <2>2
  <1>4. DiskOK
    BY DEF IInv
  <1>5. /\ (p /\ ~b) => /\ table'.ph = disk.ph /\ disk.ph.ok /\ disk.ph.sane
                        /\ (~sized' \/ "bh" \in G \/ ~disk.bh.ok)
        /\ (b /\ ~p) => /\ table'.bh = disk.bh
                        /\ ("ph" \in G \/ ~disk.ph.ok \/ ~disk.ph.sane)
        /\ p \in BOOLEAN /\ b \in BOOLEAN
        /\ "mbr" \in G => ~p /\ ~b
    BY <1>3, <1>4, ParseFacts
  <1>6. /\ pc' = IF p = b THEN "idle" ELSE IF b THEN "p1" ELSE "b1"
        /\ result' = IF p /\ b THEN "ok" ELSE IF ~p /\ ~b THEN "GPTCorrupted" ELSE "none"
    BY DEF recoverFromBackup
  <1>7. SourceIsKept'
    BY <1>2, <1>5, <1>6 DEF SourceIsKept
  <1>8. CASE source' = None
    BY <1>6, <1>7, <1>8 DEF RInv, CopyProgress, RecoveryIsExact, Restoring, writeOrder
  <1>9. CASE source' # None
    <2>1. F = {} /\ devOpen /\ source' = toRestore /\ toRestore # None
      BY <1>1, <1>9
    <2>2. G = {} /\ sized'
      BY <1>2, <1>3, <2>1 DEF failing
    <2>3. \/ disk.ph.ok /\ ~disk.bh.ok /\ P /\ source' = disk.pe
          \/ disk.bh.ok /\ ~disk.ph.ok /\ B /\ source' = disk.be
      BY <2>1 DEF toRestore, headerValid, P, B
    <2>4. CASE disk.ph.ok /\ ~disk.bh.ok /\ P /\ source' = disk.pe
      <3>1. table'.pv /\ ~table'.bv /\ table'.ph = disk.ph /\ table'.entries = disk[disk.ph.at]
        BY <1>3, <2>2, <2>4 DEF parse, headerValid, readEntries, P, Complete
      <3>2. disk.ph.at = "pe"
        BY <1>4 DEF DiskOK
      <3>3. pc' = "b1" /\ P'
        BY <1>2, <1>6, <2>4, <3>1 DEF P, Complete
      <3> QED BY <1>2, <1>7, <2>1, <2>4, <3>1, <3>2, <3>3 DEF RInv, CopyProgress, RecoveryIsExact, Restoring, writeOrder
    <2>5. CASE disk.bh.ok /\ ~disk.ph.ok /\ B /\ source' = disk.be
      <3>1. ~table'.pv /\ table'.bv /\ table'.bh = disk.bh /\ table'.entries = disk[disk.bh.at]
        BY <1>3, <2>2, <2>5 DEF parse, headerValid, readEntries, B, Complete
      <3>2. disk.bh.at = "be"
        BY <1>4, <2>5 DEF DiskOK
      <3>3. pc' = "p1" /\ B'
        BY <1>2, <1>6, <2>5, <3>1 DEF B, Complete
      <3> QED BY <1>2, <1>7, <2>1, <2>5, <3>1, <3>2, <3>3 DEF RInv, CopyProgress, RecoveryIsExact, Restoring, writeOrder
    <2> QED BY <2>3, <2>4, <2>5
  <1> QED BY <1>8, <1>9

\* The entries of the array are what is written of them.
LEMMA EntriesAsTheyAre ==
  ASSUME NEW e, e # None
  PROVE  serializeEntries(e) = e /\ computeEntryCRC(e) = e
  BY DEF serializeEntries, computeEntryCRC

\* Each write of a recovery.
LEMMA CopySteps ==
  ASSUME IInv, RInv, restorePrimaryEntries \/ restorePrimaryHeader \/ restoreBackupHeader
                     \/ restoreBackupEntries \/ rewritePrimaryHeader
  PROVE  /\ RInv'
         /\ \A h \in {"ph", "bh"} : Complete(disk', h) =>
               \E g \in {"ph", "bh"} : disk'[h].crc = disk[g].crc
  <1> DEFINE Goal == /\ RInv'
                     /\ \A h \in {"ph", "bh"} : Complete(disk', h) =>
                           \E g \in {"ph", "bh"} : disk'[h].crc = disk[g].crc
  <1>0. disk \in Disks /\ DiskOK /\ disk.ph.at = "pe" /\ (disk.bh.ok => disk.bh.at = "be")
        /\ disk.ph \in Headers /\ disk.bh \in Headers
    BY DEF IInv, DiskOK, Disks
  <1>1. wknown /\ mknown /\ pc \in {"p1", "p2", "b1", "b2", "b3"}
        /\ table.entries \in Arrays \cup {None}
    BY DEF restorePrimaryEntries, restorePrimaryHeader, restoreBackupHeader, restoreBackupEntries,
       rewritePrimaryHeader, IInv, LayoutKnown, RecoveryProgress
  <1>2. serializeEntries(table.entries) \in Arrays /\ computeEntryCRC(table.entries) \in Arrays
    BY <1>1 DEF serializeEntries, computeEntryCRC, Arrays
  <1>t. ~torn("ph").ok /\ ~torn("bh").ok
    BY DEF torn, Broken
  <1>3. ASSUME NEW area \in {"ph", "bh", "pe", "be"}, NEW val \in Content(area),
               NEW next, next # "idle", Write(area, val, next)
        PROVE  /\ \A x \in {"ph", "bh", "pe", "be"} \ {area} : disk'[x] = disk[x]
               /\ \/ disk'[area] = val /\ pc' = next
                  \/ disk'[area] \in {disk[area], torn(area)} /\ pc' = "idle" /\ result' = "error"
               /\ UNCHANGED <<table, source, devOpen>>
    <2>1. pc' = next \/ (pc' = "idle" /\ result' = "error")
      BY <1>3, WriteKeeps
    <2>2. UNCHANGED <<table, source, devOpen>>
      BY <1>3, WriteKeeps
    <2>3. /\ \A x \in {"ph", "bh", "pe", "be"} \ {area} : disk'[x] = disk[x]
          /\ \/ disk'[area] = val /\ pc' = next
             \/ disk'[area] \in {disk[area], torn(area)} /\ pc' = "idle"
      BY <1>0, <1>3, WriteEffect
    <2> QED BY <1>3, <2>1, <2>2, <2>3
  <1>4. ASSUME pc' = "idle", result' = "error", UNCHANGED source
        PROVE  RInv'
    BY <1>4, OtherSteps DEF Restoring
  <1>5. CASE restorePrimaryEntries
    <2>1. CASE ~table.bh.sane
      <3>1. disk' = disk /\ pc' = "idle" /\ result' = "error" /\ UNCHANGED source
        BY <1>5, <2>1 DEF restorePrimaryEntries
      <3> QED BY <1>4, <3>1
    <2>2. CASE table.bh.sane
      <3>1. Write("pe", serializeEntries(table.entries), "p2") /\ pc = "p1"
        BY <1>5, <2>2 DEF restorePrimaryEntries
      <3>2. /\ disk'.ph = disk.ph /\ disk'.bh = disk.bh /\ disk'.be = disk.be
            /\ \/ disk'.pe = serializeEntries(table.entries) /\ pc' = "p2"
               \/ pc' = "idle" /\ result' = "error"
            /\ UNCHANGED <<table, source, devOpen>>
        BY <1>2, <1>3, <3>1 DEF Content
      <3>3. CASE pc' = "p2" /\ disk'.pe = serializeEntries(table.entries)
        <4>1. SourceIsKept'
          BY <3>1, <3>2, <3>3 DEF RInv, SourceIsKept
        <4>2. source # None => /\ devOpen /\ B /\ disk.be = source /\ table.entries = source
                               /\ B' /\ disk'.pe = source
          BY <1>0, <3>1, <3>2, <3>3, EntriesAsTheyAre DEF RInv, CopyProgress, Restoring, B, Complete
        <4> QED BY <3>2, <3>3, <4>1, <4>2 DEF RInv, CopyProgress, RecoveryIsExact, Restoring, writeOrder
      <3> QED BY <1>4, <3>2, <3>3
    <2> QED BY <2>1, <2>2
  <1>6. CASE restorePrimaryHeader
    <2>1. Write("ph", newPrimary, "refresh") /\ pc = "p2" /\ table.bh = disk.bh
      BY <1>6 DEF restorePrimaryHeader, RInv, SourceIsKept
    <2>2. newPrimary \in Headers
      BY <1>0, <1>2, <2>1 DEF newPrimary, Headers
    <2>3. /\ disk'.pe = disk.pe /\ disk'.bh = disk.bh /\ disk'.be = disk.be
          /\ \/ disk'.ph = newPrimary /\ pc' = "refresh"
             \/ disk'.ph \in {disk.ph, torn("ph")} /\ pc' = "idle" /\ result' = "error"
          /\ UNCHANGED <<table, source, devOpen>>
      BY <1>3, <2>1, <2>2 DEF Content
    <2>4. disk'.ph.ok => disk'.ph.crc \in {disk.ph.crc, disk.bh.crc}
      <3>1. newPrimary.ok => newPrimary.crc = table.bh.crc
        BY Zenon DEF newPrimary
      <3> QED BY <1>t, <2>1, <2>3, <3>1
    <2>5. \A h \in {"ph", "bh"} : Complete(disk', h) =>
             \E g \in {"ph", "bh"} : disk'[h].crc = disk[g].crc
      BY <2>3, <2>4 DEF Complete
    <2>6. CASE disk'.ph = newPrimary /\ pc' = "refresh"
      <3>1. SourceIsKept'
        BY <2>6 DEF SourceIsKept
      <3>2. ASSUME source # None
            PROVE  devOpen /\ Both(disk') /\ disk'.pe = source /\ disk'.be = source
        <4>1. devOpen /\ B /\ disk.be = source /\ table.entries = source /\ disk.pe = source
          BY <2>1, <3>2 DEF RInv, CopyProgress, Restoring
        <4>2. disk.bh.crc = source /\ disk.bh.sane /\ disk.bh.ok /\ source # Junk
          BY <1>0, <4>1 DEF B, Complete
        <4>3. newPrimary = [ok |-> TRUE, sane |-> TRUE, crc |-> source, at |-> "pe"]
          BY <1>0, <2>1, <3>2, <4>1, <4>2, EntriesAsTheyAre DEF newPrimary, Headers
        <4> QED BY <1>0, <2>3, <2>6, <4>1, <4>2, <4>3 DEF Both, Complete
      <3> QED BY <2>3, <2>5, <2>6, <3>1, <3>2 DEF RInv, CopyProgress, RecoveryIsExact, Restoring, writeOrder
    <2> QED BY <1>4, <2>3, <2>5, <2>6
  <1>7. CASE restoreBackupHeader
    <2> DEFINE new_h == [table.ph EXCEPT !.at = "be"]
    <2>1. Write("bh", new_h, "b2") /\ pc = "b1" /\ table.ph = disk.ph
      BY <1>1, <1>7 DEF restoreBackupHeader, RInv, SourceIsKept
    <2>2. new_h \in Headers /\ new_h.crc = disk.ph.crc
      BY <1>0, <2>1 DEF Headers
    <2>3. /\ disk'.ph = disk.ph /\ disk'.pe = disk.pe /\ disk'.be = disk.be
          /\ \/ disk'.bh = new_h /\ pc' = "b2"
             \/ disk'.bh \in {disk.bh, torn("bh")} /\ pc' = "idle" /\ result' = "error"
          /\ UNCHANGED <<table, source, devOpen>>
      BY <1>3, <2>1, <2>2 DEF Content
    <2>4. \A h \in {"ph", "bh"} : Complete(disk', h) =>
             \E g \in {"ph", "bh"} : disk'[h].crc = disk[g].crc
      BY <1>t, <2>2, <2>3 DEF Complete
    <2>5. CASE disk'.bh = new_h /\ pc' = "b2"
      <3>1. SourceIsKept'
        BY <2>1, <2>3, <2>5 DEF SourceIsKept
      <3>2. source # None => /\ devOpen /\ disk.pe = source /\ table.entries = source /\ P'
                             /\ disk'.bh = [disk'.ph EXCEPT !.at = "be"]
        BY <1>0, <2>1, <2>3, <2>5 DEF RInv, CopyProgress, Restoring, P, Complete
      <3> QED BY <2>3, <2>4, <2>5, <3>1, <3>2 DEF RInv, CopyProgress, RecoveryIsExact, Restoring, writeOrder
    <2> QED BY <1>4, <2>3, <2>4, <2>5
  <1>8. CASE restoreBackupEntries
    <2>1. Write("be", serializeEntries(table.entries), "b3") /\ pc = "b2" /\ table.ph = disk.ph
      BY <1>1, <1>8 DEF restoreBackupEntries, RInv, SourceIsKept
    <2>2. /\ disk'.ph = disk.ph /\ disk'.pe = disk.pe /\ disk'.bh = disk.bh
          /\ \/ disk'.be = serializeEntries(table.entries) /\ pc' = "b3"
             \/ pc' = "idle" /\ result' = "error"
          /\ UNCHANGED <<table, source, devOpen>>
      BY <1>2, <1>3, <2>1 DEF Content
    <2>3. CASE disk'.be = serializeEntries(table.entries) /\ pc' = "b3"
      <3>1. SourceIsKept'
        BY <2>1, <2>2, <2>3 DEF SourceIsKept
      <3>2. source # None => /\ devOpen /\ disk'.pe = source /\ table.entries = source /\ P'
                             /\ disk'.be = source /\ disk'.bh = [disk'.ph EXCEPT !.at = "be"]
        BY <1>0, <2>1, <2>2, <2>3, EntriesAsTheyAre DEF RInv, CopyProgress, Restoring, P, Complete
      <3> QED BY <2>2, <2>3, <3>1, <3>2 DEF RInv, CopyProgress, RecoveryIsExact, Restoring, writeOrder
    <2> QED BY <1>4, <2>2, <2>3
  <1>9. CASE rewritePrimaryHeader
    <2>1. Write("ph", table.ph, "refresh") /\ pc = "b3" /\ table.ph = disk.ph
      BY <1>9 DEF rewritePrimaryHeader, RInv, SourceIsKept
    <2>2. /\ disk'.pe = disk.pe /\ disk'.bh = disk.bh /\ disk'.be = disk.be
          /\ \/ disk'.ph = disk.ph /\ pc' = "refresh"
             \/ disk'.ph \in {disk.ph, torn("ph")} /\ pc' = "idle" /\ result' = "error"
          /\ UNCHANGED <<table, source, devOpen>>
      BY <1>0, <1>3, <2>1 DEF Content
    <2>3. \A h \in {"ph", "bh"} : Complete(disk', h) =>
             \E g \in {"ph", "bh"} : disk'[h].crc = disk[g].crc
      BY <1>t, <2>2 DEF Complete
    <2>4. CASE disk'.ph = disk.ph /\ pc' = "refresh"
      <3>1. SourceIsKept'
        BY <2>4 DEF SourceIsKept
      <3>2. ASSUME source # None
            PROVE  devOpen /\ Both(disk') /\ disk'.pe = source /\ disk'.be = source
        <4>1. /\ devOpen /\ P /\ disk.pe = source /\ disk.be = source
              /\ disk.bh = [disk.ph EXCEPT !.at = "be"]
          BY <2>1, <3>2 DEF RInv, CopyProgress, Restoring
        <4>2. disk.bh.ok = disk.ph.ok /\ disk.bh.sane = disk.ph.sane
              /\ disk.bh.crc = disk.ph.crc /\ disk.bh.at = "be"
          BY <1>0, <4>1 DEF Headers
        <4>3. disk.ph.ok /\ disk.ph.sane /\ disk.ph.crc # Junk /\ disk.ph.crc = source
          BY <1>0, <4>1 DEF P, Complete
        <4>4. Complete(disk', "ph")
          BY <1>0, <2>2, <2>4, <4>1, <4>3 DEF Complete
        <4>5. Complete(disk', "bh")
          BY <2>2, <4>1, <4>2, <4>3 DEF Complete
        <4> QED BY <2>2, <4>1, <4>4, <4>5 DEF Both
      <3> QED BY <2>2, <2>3, <2>4, <3>1, <3>2 DEF RInv, CopyProgress, RecoveryIsExact, Restoring, writeOrder
    <2> QED BY <1>4, <2>2, <2>3, <2>4
  <1> QED BY <1>5, <1>6, <1>7, <1>8, <1>9

\* The refreshTable() that ends a recovery reads the two copies.
LEMMA EndCopy ==
  ASSUME IInv, RInv, refreshAfter
  PROVE  RInv'
  <1>1. PICK F \in Faulty : source' = (IF F = {} THEN source ELSE None) /\ Refresh(F)
    BY DEF refreshAfter
  <1>2. pc = "refresh" /\ pc' = "idle" /\ disk' = disk /\ ensureOpen
    BY DEF refreshAfter
  <1>3. CASE source' = None
    BY <1>2, <1>3, OtherSteps DEF Restoring
  <1>4. CASE source' # None
    <2>1. F = {} /\ source' = source /\ source # None
      BY <1>1, <1>4
    <2>2. devOpen /\ Both(disk) /\ disk.pe = source /\ disk.be = source
      BY <1>2, <2>1 DEF RInv, CopyProgress, Restoring
    <2>3. devOpen'
      BY <1>2, <2>2 DEF ensureOpen, opening
    <2>4. failing(F) = {}
      BY <2>1, <2>3 DEF failing
    <2>5. sized' /\ table' = parse({}, sized')
      BY <1>1, <2>4 DEF Refresh, Parse
    <2>6. disk.ph.at = "pe"
      BY DEF IInv, DiskOK
    <2>7. table'.pv /\ table'.bv /\ table'.ev /\ table'.entries = source
      BY <2>2, <2>5, <2>6 DEF parse, headerValid, readEntries, Both, Complete
    <2>8. SourceIsKept' /\ CopyProgress' 
      BY <1>2 DEF SourceIsKept, CopyProgress, Restoring, writeOrder
    <2> QED BY <1>2, <2>1, <2>2, <2>7, <2>8 DEF RInv, RecoveryIsExact
  <1> QED BY <1>3, <1>4

\* Every step keeps the invariant and forges no copy.
LEMMA StepRInv ==
  ASSUME IInv, RInv, [Next]_vars
  PROVE  /\ RInv'
         /\ [(pc # "idle" /\ pc \notin DOMAIN writeOrder) =>
               \A h \in {"ph", "bh"} : Complete(disk', h) =>
                  \E g \in {"ph", "bh"} : disk'[h].crc = disk[g].crc]_vars
  <1> DEFINE Honest == (pc # "idle" /\ pc \notin DOMAIN writeOrder) =>
               \A h \in {"ph", "bh"} : Complete(disk', h) =>
                  \E g \in {"ph", "bh"} : disk'[h].crc = disk[g].crc
  <1>0. ASSUME disk' = disk PROVE Honest
    BY <1>0
  <1>1. CASE UNCHANGED vars
    <2>1. UNCHANGED <<disk, table, pc, result, source, devOpen>>
      BY <1>1 DEF vars
    <2>2. P' = P /\ B' = B
      BY <2>1 DEF P, B, Complete
    <2>3. RInv'
      BY <2>1, <2>2 DEF RInv, SourceIsKept, CopyProgress, RecoveryIsExact, Both, Complete
    <2> QED BY <1>1, <2>3
  <1>2. CASE PartitionManager \/ openDevice \/ closeDevice \/ open \/ openFails \/ refreshTable
             \/ findByName \/ writePrimaryAndBackup
    <2>1. /\ pc = "idle" /\ pc' \in {"idle", "w1"}
          /\ \/ source' = None
             \/ result' = "error" /\ pc' = "idle"
             \/ UNCHANGED <<disk, table, pc, result, source>>
      BY <1>2 DEF PartitionManager, openDevice, closeDevice, open, openFails, refreshTable,
         findByName, writePrimaryAndBackup, Begin
    <2> QED BY <2>1, OtherSteps DEF Restoring
  <1>3. CASE recoverFromBackup
    BY <1>3, BeginCopy DEF recoverFromBackup, Begin
  <1>4. CASE writeNext
    <2>1. pc \in DOMAIN writeOrder /\ source' = source
      BY <1>4 DEF writeNext, Write
    <2>2. source' = None
      BY <2>1 DEF RInv, CopyProgress
    <2>3. pc' \notin Restoring
      BY <1>4, <2>1 DEF writeNext, Write, writeOrder, After, Restoring
    <2> QED BY <2>1, <2>2, <2>3, OtherSteps
  <1>5. CASE restorePrimaryEntries \/ restorePrimaryHeader \/ restoreBackupHeader
             \/ restoreBackupEntries \/ rewritePrimaryHeader
    BY <1>5, CopySteps
  <1>6. CASE refreshAfter
    <2>1. disk' = disk
      BY <1>6 DEF refreshAfter
    <2> QED BY <1>0, <1>6, <2>1, EndCopy
  <1>7. CASE crash
    <2>1. disk' = disk /\ pc' = "idle" /\ source' = None
      BY <1>7 DEF crash
    <2> QED BY <1>0, <2>1, OtherSteps DEF Restoring
  <1> QED BY <1>1, <1>2, <1>3, <1>4, <1>5, <1>6, <1>7 DEF Next, Client, Recovering

\* Nothing is being recovered at first.
LEMMA InitRInv == Init => RInv
  BY DEF Init, RInv, SourceIsKept, CopyProgress, RecoveryIsExact, Restoring, writeOrder

\* recoverFromBackup() of one valid copy that reports success has made two of
\* it and read it again, for any tables and any number of operations, provided
\* clients let the manager read the layout of an open device first.
THEOREM RecoveryRestoresExactly ==
  ASSUME Careful
  PROVE  Spec => []RecoveryIsExact
  <1>1. Init => IInv /\ RInv
    BY InitIInv, InitRInv
  <1>2. IInv /\ RInv /\ [Next]_vars => IInv' /\ RInv'
    BY StepIInv, StepRInv
  <1>3. RInv => RecoveryIsExact
    BY DEF RInv
  <1> QED BY <1>1, <1>2, <1>3, PTL DEF Spec

\* recoverFromBackup() seals no array with a CRC that no header had: a copy it
\* completes belongs to an entry CRC that was on the disk before the step.
THEOREM RecoveryForgesNothing ==
  ASSUME Careful
  PROVE  Spec => NoForgedCopy
  <1>1. Init => IInv /\ RInv
    BY InitIInv, InitRInv
  <1>2. IInv /\ RInv /\ [Next]_vars => IInv' /\ RInv'
    BY StepIInv, StepRInv
  <1>3. IInv /\ RInv /\ [Next]_vars =>
          [(pc # "idle" /\ pc \notin DOMAIN writeOrder) =>
             \A h \in {"ph", "bh"} : Complete(disk', h) =>
                \E g \in {"ph", "bh"} : disk'[h].crc = disk[g].crc]_vars
    BY StepRInv
  <1> QED BY <1>1, <1>2, <1>3, PTL DEF Spec, NoForgedCopy
==============================================================================
