--------------------------- MODULE PartitionTable ---------------------------
(* The GPT engine: GPTParser, GPTWriter and PartitionManager over a device   *)
(* whose reads and writes may fail, and a process that may end between two    *)
(* writes.  The disk is the four areas of a GPT: the two headers and the two   *)
(* arrays of entries.  An array is one opaque table; a CRC is the table it was *)
(* computed from, so it matches exactly when nothing was changed.  Sectors     *)
(* have the 512 bytes that GPTLayout assumes until the device is asked.       *)
EXTENDS Naturals

CONSTANTS
    Tables,    \* the partition tables clients write
    MaxOps,    \* bound: client operations in a behaviour
    MaxFaults, \* bound: failing reads, failing writes and crashes
    Careful    \* clients construct the manager on an open device and have it
               \* read the layout before they ask for recovery

Zero == "zero"     \* an array of unused entries
Junk == "junk"     \* an array that is no table: half written, or something else
None == "none"     \* GPTTable::entries is empty

ASSUME TablesAreTables == Tables \cap {Zero, Junk, None} = {}
ASSUME BoundsAreNats == MaxOps \in Nat /\ MaxFaults \in Nat
ASSUME CarefulIsBoolean == Careful \in BOOLEAN

Arrays == Tables \cup {Zero, Junk}

VARIABLES
    disk,      \* [ph, bh: headers; pe, be: arrays; mbr: intact]
    devOpen,   \* the device is open
    live,      \* a PartitionManager exists
    table,     \* m_table
    mopen,     \* m_open
    sized,     \* the parser's m_layout has the number of sectors
    laid,      \* the parser's m_layout has the addresses of the backup
    mknown,    \* the manager's m_layout has them
    wknown,    \* its writer's m_layout has them
    pc,        \* the next write of the operation in progress, or "idle"
    result,    \* of the last operation
    new,       \* the table writePrimaryAndBackup() is to store
    source,    \* ghost: the table recoverFromBackup() is to restore, or None
    faults,    \* ghost: faults since both copies were last complete
    total, ops \* counters of the bounds

known == <<sized, laid, mknown, wknown>>
vars  == <<disk, devOpen, live, table, mopen, known, pc, result, new, source, faults, total, ops>>

------------------------------------------------------------------------------
(* Headers and areas.                                                      *)

\* ok: signature and own CRC; sane: entry count and size in bounds (the other
\* headers say 0 entries); crc: the array its entry CRC was computed from.
Header(t, area) == [ok |-> TRUE, sane |-> TRUE, crc |-> t, at |-> area]
Broken == [ok |-> FALSE, sane |-> TRUE, crc |-> Junk, at |-> "pe"]
Insane(t, area) == [Header(t, area) EXCEPT !.sane = FALSE]

Headers == [ok : BOOLEAN, sane : BOOLEAN, crc : Arrays, at : {"pe", "be"}]

Complete(d, h) == d[h].ok /\ d[h].sane /\ d[h].crc # Junk /\ d[d[h].at] = d[h].crc
Both(d) == Complete(d, "ph") /\ Complete(d, "bh")

\* A write of one area.  Addresses a layout does not know are 0: a header lands
\* on the protective MBR, an array on everything up to the primary entries.
put(d, area, val) ==
    IF area = "lba0" THEN [d EXCEPT !.mbr = FALSE]
    ELSE IF area = "low" THEN [d EXCEPT !.mbr = FALSE, !.ph = Broken, !.pe = Junk]
    ELSE [d EXCEPT ![area] = val]

torn(area) == IF area \in {"ph", "bh"} THEN Broken ELSE Junk

\* Mutant: an empty vector writes nothing in place of unused entries.
serializeEntriesAsIs(e) == e

serializeEntries(e) == IF e = None THEN Zero ELSE e
computeEntryCRC(e)  == serializeEntries(e)

------------------------------------------------------------------------------
(* GPTParser::parse() when the reads in F fail.                            *)

NoTable == [ph |-> Broken, bh |-> Broken, entries |-> None,
            pv |-> FALSE, bv |-> FALSE, ev |-> FALSE]

Reads == {"info", "mbr", "ph", "bh", "pe", "be"}
Faulty == {{}} \cup {{r} : r \in Reads}

\* Mutant: a primary header whose CRC is wrong is used all the same.
headerValidNoCRC(F, h) == h \notin F

headerValid(F, h) == h \notin F /\ disk[h].ok

\* The entries the header h names, and whether they match its CRC.
readEntries(F, h) ==
    IF disk[h].at \in F THEN [entries |-> None, ev |-> FALSE]
    ELSE [entries |-> disk[disk[h].at], ev |-> disk[disk[h].at] = disk[h].crc]

parse(F, hasSize) ==
    LET pv == headerValid(F, "ph")
        bv == hasSize /\ headerValid(F, "bh")
        got(e, p, b) == [ph |-> disk.ph, bh |-> disk.bh,
                         entries |-> e.entries, ev |-> e.ev, pv |-> p, bv |-> b]
        nothing == [entries |-> None, ev |-> FALSE]
    IN  IF "mbr" \in F THEN NoTable
        ELSE IF pv THEN IF disk.ph.sane THEN got(readEntries(F, "ph"), TRUE, bv)
                                        ELSE got(nothing, FALSE, bv)
        ELSE IF bv THEN IF disk.bh.sane THEN got(readEntries(F, "bh"), FALSE, TRUE)
                                        ELSE got(nothing, FALSE, FALSE)
        ELSE got(nothing, FALSE, FALSE)

\* What fails when: everything on a closed device, else what F says.
failing(F) == IF devOpen' THEN F ELSE Reads

\* m_parser.parse() and m_table = its table; the parser keeps its layout.
Parse(F) ==
    LET G == failing(F) IN
    /\ sized' = (sized \/ "info" \notin G)
    /\ laid' = IF "mbr" \in G THEN laid ELSE sized'
    /\ table' = parse(G, sized')

------------------------------------------------------------------------------
(* Operations.                                                             *)

Init ==
    /\ \E t \in Tables, u \in Tables :
          disk \in [mbr : {TRUE}, ph : {Header(t, "pe"), Broken, Insane(t, "pe")},
                    bh : {Header(u, "be"), Broken, Insane(u, "be")},
                    pe : {t, Junk}, be : {u, Junk}]
    /\ devOpen \in BOOLEAN
    /\ live = FALSE /\ table = NoTable /\ mopen = FALSE
    /\ sized = FALSE /\ laid = FALSE /\ mknown = FALSE /\ wknown = FALSE
    /\ pc = "idle" /\ result = "none" /\ new = Zero /\ source = None
    /\ faults = IF Both(disk) THEN 0 ELSE 2
    /\ total = 0 /\ ops = 0

\* Faults are counted anew once both copies are complete.
Base == IF Both(disk) THEN 0 ELSE faults

Begin == pc = "idle" /\ ops < MaxOps /\ ops' = ops + 1

Tally(n) ==
    /\ total + n <= MaxFaults
    /\ total' = total + n
    /\ faults' = Base + n

Cost(F) == IF F = {} THEN 0 ELSE 1

\* PartitionManager(device): the writer asks for the layout now and never again.
PartitionManager ==
    /\ Begin /\ Tally(0)
    /\ Careful => devOpen
    /\ \E answered \in BOOLEAN :
          /\ Careful => answered
          /\ wknown' = (devOpen /\ answered)
    /\ live' = TRUE /\ mopen' = FALSE /\ table' = NoTable
    /\ sized' = FALSE /\ laid' = FALSE /\ mknown' = FALSE
    /\ source' = None
    /\ UNCHANGED <<disk, devOpen, pc, result, new>>

\* External: the client opens the device itself.
openDevice ==
    /\ pc = "idle" /\ ~devOpen
    /\ devOpen' = TRUE
    /\ UNCHANGED <<disk, live, table, mopen, known, pc, result, new, source, faults, total, ops>>

\* External: the client closes the device, which the manager is not told.
closeDevice ==
    /\ pc = "idle" /\ devOpen
    /\ devOpen' = FALSE
    /\ UNCHANGED <<disk, live, table, mopen, known, pc, result, new, source, faults, total, ops>>

\* The body of refreshTable() once the device is open.
Refresh(F) ==
    /\ Parse(F)
    /\ mknown' = laid'
    /\ result' = IF "mbr" \in F THEN "error" ELSE "ok"

opening    == devOpen' = TRUE /\ mopen' = TRUE
ensureOpen == IF mopen THEN UNCHANGED <<devOpen, mopen>> ELSE opening

\* open(), or the open of a refreshTable(), fails; m_open stays as it is.
openFails ==
    /\ Begin /\ Tally(0)
    /\ live /\ ~devOpen
    /\ result' = "error"
    /\ UNCHANGED <<disk, devOpen, live, table, mopen, known, pc, new, source>>

open ==
    /\ Begin /\ live
    /\ opening
    /\ \E F \in Faulty : Tally(Cost(F)) /\ Refresh(F)
    /\ source' = None
    /\ UNCHANGED <<disk, live, wknown, pc, new>>

refreshTable ==
    /\ Begin /\ live
    /\ ensureOpen
    /\ \E F \in Faulty : Tally(Cost(F)) /\ Refresh(F)
    /\ source' = None
    /\ UNCHANGED <<disk, live, wknown, pc, new>>

\* findByName() and the partition operations built on it: the table is read
\* only when the one in memory has no entries.
findByName ==
    /\ Begin /\ live
    /\ table.entries = None
    /\ ensureOpen
    /\ \E F \in Faulty : Tally(Cost(F)) /\ Refresh(F)
    /\ source' = None
    /\ UNCHANGED <<disk, live, wknown, pc, new>>

------------------------------------------------------------------------------
(* Writes: each MBOOT_TRY goes on to the next write or returns the error.  A *)
(* write that fails has changed nothing or left the area half written.       *)

Write(area, val, next) ==
    /\ \/ /\ disk' = put(disk, area, val)
          /\ pc' = next
          /\ result' = IF next = "idle" THEN "ok" ELSE result
          /\ UNCHANGED <<faults, total>>
       \/ /\ total < MaxFaults
          /\ disk' \in {disk, put(disk, area, torn(area))}
          /\ pc' = "idle"
          /\ result' = "error"
          /\ faults' = faults + 1 /\ total' = total + 1
    /\ UNCHANGED <<devOpen, live, table, mopen, known, new, source, ops>>

\* GPTWriter::writePrimaryAndBackup() of a writer made on the open device, with
\* a header whose entry CRC and own CRC its caller has computed.
writePrimaryAndBackup ==
    /\ Begin /\ Tally(0)
    /\ devOpen
    /\ new' \in Tables
    /\ pc' = "w1"
    /\ result' = "none"
    /\ source' = None
    /\ UNCHANGED <<disk, devOpen, live, table, mopen, known>>

\* Mutant: the backup header is written before the primary one.
writeOrderBackupFirst == [w1 |-> "pe", w2 |-> "bh", w3 |-> "ph", w4 |-> "be"]

\* The areas in the order of the calls.
writeOrder == [w1 |-> "pe", w2 |-> "ph", w3 |-> "bh", w4 |-> "be"]

After == [w1 |-> "w2", w2 |-> "w3", w3 |-> "w4", w4 |-> "idle"]

\* Mutant: the backup header is the primary one, not adapted.
contentOfSameHeader(area, t) == IF area \in {"ph", "bh"} THEN Header(t, "pe") ELSE t

contentOf(area, t) ==
    IF area = "ph" THEN Header(t, "pe") ELSE IF area = "bh" THEN Header(t, "be") ELSE t

writeNext ==
    \E p \in DOMAIN writeOrder :
        pc = p /\ Write(writeOrder[p], contentOf(writeOrder[p], new), After[p])

------------------------------------------------------------------------------
(* recoverFromBackup().                                                    *)

\* The table to restore: the only valid header's, when its entries match it.
toRestore ==
    IF headerValid({}, "ph") /\ ~headerValid({}, "bh") /\ Complete(disk, "ph") THEN disk.pe
    ELSE IF headerValid({}, "bh") /\ ~headerValid({}, "ph") /\ Complete(disk, "bh") THEN disk.be
    ELSE None

recoverFromBackup ==
    /\ Begin /\ live
    /\ Careful => mknown
    /\ devOpen' = devOpen
    /\ \E F \in Faulty :
          /\ Tally(Cost(F))
          /\ Parse(F)
          /\ source' = IF F = {} /\ devOpen THEN toRestore ELSE None
    /\ LET p == table'.pv  b == table'.bv IN
          /\ pc' = IF p = b THEN "idle" ELSE IF b THEN "p1" ELSE "b1"
          /\ result' = IF p /\ b THEN "ok" ELSE IF ~p /\ ~b THEN "GPTCorrupted" ELSE "none"
    /\ UNCHANGED <<disk, live, mopen, mknown, wknown, new>>

\* Mutant: its own CRC is computed last, over whatever entries were read.
newPrimarySealed ==
    [ok |-> TRUE, sane |-> table.bh.sane,
     crc |-> computeEntryCRC(table.entries), at |-> "pe"]

\* Its own CRC is computed before the entry CRC is replaced.
newPrimary ==
    [ok |-> computeEntryCRC(table.entries) = table.bh.crc, sane |-> table.bh.sane,
     crc |-> computeEntryCRC(table.entries), at |-> "pe"]

restorePrimaryEntries ==
    /\ pc = "p1"
    /\ IF table.bh.sane
       THEN Write("pe", serializeEntries(table.entries), "p2")
       ELSE /\ pc' = "idle" /\ result' = "error"          \* no entries to write
            /\ UNCHANGED <<disk, devOpen, live, table, mopen, known, new, source, faults, total, ops>>

restorePrimaryHeader == pc = "p2" /\ Write("ph", newPrimary, "refresh")

restoreBackupHeader ==
    pc = "b1" /\ Write(IF wknown THEN "bh" ELSE "lba0", [table.ph EXCEPT !.at = "be"], "b2")

restoreBackupEntries ==
    pc = "b2" /\ Write(IF mknown THEN "be" ELSE "low", serializeEntries(table.entries), "b3")

rewritePrimaryHeader == pc = "b3" /\ Write("ph", table.ph, "refresh")

\* Mutant: the table is not read again.
refreshAfterDropped ==
    /\ pc = "refresh"
    /\ pc' = "idle" /\ result' = "ok"
    /\ UNCHANGED <<disk, devOpen, live, table, mopen, known, new, source, faults, total, ops>>

refreshAfter ==
    /\ pc = "refresh"
    /\ pc' = "idle"
    /\ ensureOpen
    /\ \E F \in Faulty :
          /\ total + Cost(F) <= MaxFaults
          /\ total' = total + Cost(F) /\ faults' = faults + Cost(F)
          /\ source' = IF F = {} THEN source ELSE None
          /\ Refresh(F)
    /\ UNCHANGED <<disk, live, wknown, new, ops>>

\* The process ends between two writes.
crash ==
    /\ pc # "idle" /\ total < MaxFaults
    /\ pc' = "idle" /\ result' = "crash"
    /\ faults' = faults + 1 /\ total' = total + 1
    /\ devOpen' = FALSE /\ live' = FALSE /\ mopen' = FALSE /\ table' = NoTable
    /\ sized' = FALSE /\ laid' = FALSE /\ mknown' = FALSE /\ wknown' = FALSE
    /\ source' = None
    /\ UNCHANGED <<disk, new, ops>>

Client == PartitionManager \/ openDevice \/ closeDevice \/ open \/ openFails \/ refreshTable \/ findByName
          \/ writePrimaryAndBackup \/ recoverFromBackup
Recovering == restorePrimaryEntries \/ restorePrimaryHeader \/ restoreBackupHeader
              \/ restoreBackupEntries \/ rewritePrimaryHeader \/ refreshAfter

Next == Client \/ writeNext \/ Recovering \/ crash

Spec == Init /\ [][Next]_vars

------------------------------------------------------------------------------
(* Properties.                                                             *)

Tabs == [ph : Headers, bh : Headers, entries : Arrays \cup {None},
         pv : BOOLEAN, bv : BOOLEAN, ev : BOOLEAN]

\* Every variable has its type.
TypeOK ==
    /\ disk \in [mbr : BOOLEAN, ph : Headers, bh : Headers, pe : Arrays, be : Arrays]
    /\ table \in Tabs
    /\ devOpen \in BOOLEAN /\ live \in BOOLEAN /\ mopen \in BOOLEAN
    /\ sized \in BOOLEAN /\ laid \in BOOLEAN /\ mknown \in BOOLEAN /\ wknown \in BOOLEAN
    /\ pc \in {"idle", "w1", "w2", "w3", "w4", "p1", "p2", "b1", "b2", "b3", "refresh"}
    /\ result \in {"none", "ok", "error", "GPTCorrupted", "crash"}
    /\ new \in Arrays /\ source \in Arrays \cup {None}
    /\ faults \in Nat /\ total \in 0..MaxFaults /\ ops \in 0..MaxOps

\* One fault is survived: whenever no operation is in progress and at most one
\* read, write or process has failed since both copies of the table were
\* complete, one of them still is, header and entries.
SingleFaultSafe ==
    (pc = "idle" /\ faults <= 1) => Complete(disk, "ph") \/ Complete(disk, "bh")

\* recoverFromBackup() that reports success, and had exactly one valid header
\* with the entries that belong to it, leaves two complete copies of that table
\* on the disk and the manager with it.
RecoveryIsExact ==
    (pc = "idle" /\ result = "ok" /\ source # None) =>
        /\ Both(disk) /\ disk.pe = source /\ disk.be = source
        /\ table.pv /\ table.bv /\ table.ev /\ table.entries = source

\* writePrimaryAndBackup() that reports success has stored the table twice,
\* in two headers that do not depend on the same entries.
WriteIsComplete ==
    [][(pc = "w4" /\ result' = "ok") =>
          /\ Both(disk') /\ disk'.ph.at # disk'.bh.at
          /\ disk'.pe = new /\ disk'.be = new]_vars

\* Recovery never makes a table of something that is none: a copy that becomes
\* complete carries an entry CRC that one of the headers had before, although
\* the entries may be unreadable, half written or those of another table.
NoForgedCopy ==
    [][(pc # "idle" /\ pc \notin DOMAIN writeOrder) =>
          \A h \in {"ph", "bh"} : Complete(disk', h) =>
             \E g \in {"ph", "bh"} : disk'[h].crc = disk[g].crc]_vars

\* docs/architecture/GPT.md:174, "If backup GPT is corrupt and primary is valid -> restore backup
\* from primary": recovery without a fault of its own never costs the last
\* complete copy.
RecoveryKeepsTable ==
    [][(pc = "b3" /\ pc' = "refresh" /\ source # None) =>
          (\E h \in {"ph", "bh"} : Complete(disk', h))]_vars

\* docs/architecture/GPT.md:109, "CRC mismatch triggers recovery": the table in memory is not a
\* half written array while the disk has a complete copy.
TornTableIsNotUsed ==
    (pc = "idle" /\ faults <= 1) => table.entries # Junk
==============================================================================
