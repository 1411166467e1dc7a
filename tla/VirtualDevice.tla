---------------------------- MODULE VirtualDevice ----------------------------
(* VirtualJobDevice, the flash device the jobs run on when there is no       *)
(* hardware: a store of bytes with named partitions, and a failure rule.     *)
EXTENDS Integers, Sequences, FiniteSets, SequencesExt

CONSTANTS
    StorageSize,    \* bytes of the store when the device is made
    PartInfos,      \* partitions that may be added: [name, offset, size]
    FailureRules,   \* rules that may be set, each a set of the flags that are on
    Buffers,        \* data given to the writes
    MemoryAddresses,      \* addresses given to the memory operations
    MaxDeviceCalls  \* bound on the calls of a behaviour

VARIABLES
    vstore,         \* m_storage
    vparts,         \* m_partitions
    vrules,         \* m_rules: the flags that are on
    vopen,          \* m_open
    vcancelled,     \* m_cancelled
    vlast,          \* the last operation: its name, extent, data, result and the store before it
    vcalls

vdvars == <<vstore, vparts, vrules, vopen, vcancelled, vlast, vcalls>>

Zeroes(n) == [i \in 1..n |-> 0]

NoOp == [op |-> "none", at |-> 0, size |-> 0, data |-> <<>>, ok |-> TRUE, before |-> <<>>]

VInit ==
    /\ vstore = Zeroes(StorageSize)
    /\ vparts = <<>>
    /\ vrules = {}
    /\ vopen = FALSE
    /\ vcancelled = FALSE
    /\ vlast = NoOp
    /\ vcalls = 0

Counts == vcalls < MaxDeviceCalls /\ vcalls' = vcalls + 1

------------------------------------------------------------------------------
(* Setting the device up.                                                    *)
setFailureRules(r) ==
    /\ Counts
    /\ vrules' = r
    /\ UNCHANGED <<vstore, vparts, vopen, vcancelled, vlast>>

addPartition(p) ==
    /\ Counts
    /\ vparts' = Append(vparts, p)
    /\ UNCHANGED <<vstore, vrules, vopen, vcancelled, vlast>>

clearPartitions ==
    /\ Counts
    /\ vparts # <<>>
    /\ vparts' = <<>>
    /\ UNCHANGED <<vstore, vrules, vopen, vcancelled, vlast>>

\* fillStorage(v), clearStorage() for 0, and setStorageSize(n), which clears.
setStorage(n, v) ==
    /\ Counts
    /\ vstore' = [i \in 1..n |-> v]
    /\ vlast' = NoOp
    /\ UNCHANGED <<vparts, vrules, vopen, vcancelled>>

openVirtual ==
    /\ Counts
    /\ vopen' = ("failOpen" \notin vrules \/ vopen)
    /\ UNCHANGED <<vstore, vparts, vrules, vcancelled, vlast>>

closeVirtual ==
    /\ Counts
    /\ vopen
    /\ vopen' = FALSE
    /\ UNCHANGED <<vstore, vparts, vrules, vcancelled, vlast>>

\* Nothing resets m_cancelled, and only an operation that times out looks at it.
cancelDevice ==
    /\ Counts
    /\ ~vcancelled
    /\ vcancelled' = TRUE
    /\ UNCHANGED <<vstore, vparts, vrules, vopen, vlast>>

\* powerReset() and reset(): only the first closes the device.
powerReset ==
    /\ Counts
    /\ vopen' = (vopen /\ "failReset" \in vrules)
    /\ UNCHANGED <<vstore, vparts, vrules, vcancelled, vlast>>

------------------------------------------------------------------------------
(* Operations.                                                               *)

\* The first partition of a name; <<>> when there is none.
findPartition(name) == SelectSeq(vparts, LAMBDA p : p.name = name)

\* Bytes at an offset of a store that grows to hold them, with zeroes between.
writeToStorage(s, offset, data) ==
    LET n == IF offset + Len(data) > Len(s) THEN offset + Len(data) ELSE Len(s)
    IN  [i \in 1..n |-> IF i - offset \in 1..Len(data) THEN data[i - offset] ELSE IF i <= Len(s) THEN s[i] ELSE 0]

\* Bytes from an offset, as many as there are.
readFromStorage(s, offset, size) == SubSeq(s, offset + 1, IF offset + size > Len(s) THEN Len(s) ELSE offset + size)

\* corruptData inverts the first byte that is written.
Corrupted(data) ==
    IF "corruptData" \notin vrules \/ data = <<>> THEN data ELSE [data EXCEPT ![1] = 255 - @]

\* What an operation of a kind ("Read", "Write" or "Erase") meets before it
\* looks at its arguments.
Refused(kind) ==
    \/ ~vopen
    \/ ("fail" \o kind) \in vrules
    \/ ("timeoutOn" \o kind) \in vrules /\ vcancelled

Ended(op, at, data, size, ok) == vlast' = [op |-> op, at |-> at, data |-> data, size |-> size, ok |-> ok, before |-> vstore]

UNCHANGEDSetup == UNCHANGED <<vparts, vrules, vcancelled>>

\* An operation that fails: it may lose the device, and changes no byte.
Fails(op, at, size, lost) ==
    /\ Ended(op, at, <<>>, size, FALSE)
    /\ vopen' = (vopen /\ ~lost)
    /\ UNCHANGED vstore

\* shouldRandomFail() may say yes when the rate is not 0.
Unlucky == IF "random" \in vrules THEN BOOLEAN ELSE {FALSE}

readMemory(at, size) ==
    /\ Counts /\ UNCHANGEDSetup
    /\ \E bad \in Unlucky :
          IF Refused("Read") \/ bad \/ at + size > Len(vstore)
          THEN Fails("read", at, size, FALSE)
          ELSE /\ Ended("read", at, SubSeq(vstore, at + 1, at + size), size, TRUE)
               /\ UNCHANGED <<vstore, vopen>>

writeMemory(at, data) ==
    /\ Counts /\ UNCHANGEDSetup
    /\ \E bad \in Unlucky :
          LET lost == ~Refused("Write") /\ "disconnectOnWrite" \in vrules IN
          IF Refused("Write") \/ lost \/ bad \/ at + Len(data) > Len(vstore)
          THEN Fails("write", at, Len(data), lost)
          ELSE /\ vstore' = writeToStorage(vstore, at, Corrupted(data))
               /\ Ended("write", at, Corrupted(data), Len(data), TRUE)
               /\ UNCHANGED vopen

eraseMemory(at, size) ==
    /\ Counts /\ UNCHANGEDSetup
    /\ \E bad \in Unlucky :
          IF Refused("Erase") \/ bad \/ at + size > Len(vstore)
          THEN Fails("erase", at, size, FALSE)
          ELSE /\ vstore' = writeToStorage(vstore, at, Zeroes(size))
               /\ Ended("erase", at, Zeroes(size), size, TRUE)
               /\ UNCHANGED vopen

readPartition(name) ==
    LET lost == ~Refused("Read") /\ "disconnectOnRead" \in vrules
        part == findPartition(name)
    IN  /\ Counts /\ UNCHANGEDSetup
        /\ IF Refused("Read") \/ lost \/ part = <<>>
           THEN Fails("read", 0, 0, lost)
           ELSE /\ Ended("read", part[1].offset, readFromStorage(vstore, part[1].offset, part[1].size), part[1].size, TRUE)
                /\ UNCHANGED <<vstore, vopen>>

\* A bug that could slip in: the size of the partition is not looked at.
writePartitionAnySize(name, data) ==
    LET lost == ~Refused("Write") /\ "disconnectOnWrite" \in vrules
        part == findPartition(name)
    IN  /\ Counts /\ UNCHANGEDSetup
        /\ IF Refused("Write") \/ lost \/ part = <<>>
           THEN Fails("write", 0, 0, lost)
           ELSE /\ vstore' = writeToStorage(vstore, part[1].offset, Corrupted(data))
                /\ Ended("write", part[1].offset, Corrupted(data), part[1].size, TRUE)
                /\ UNCHANGED vopen

\* A partition that ends behind the store makes the store grow.
writePartition(name, data) ==
    LET lost == ~Refused("Write") /\ "disconnectOnWrite" \in vrules
        part == findPartition(name)
    IN  /\ Counts /\ UNCHANGEDSetup
        /\ IF Refused("Write") \/ lost \/ part = <<>> \/ Len(data) > Head(part).size
           THEN Fails("write", 0, 0, lost)
           ELSE /\ vstore' = writeToStorage(vstore, part[1].offset, Corrupted(data))
                /\ Ended("write", part[1].offset, Corrupted(data), part[1].size, TRUE)
                /\ UNCHANGED vopen

\* std::fill() does not look where the store ends: what lies behind it is
\* overwritten, and nothing is said of what follows.
erasePartition(name) ==
    LET part == findPartition(name)
    IN  /\ Counts /\ UNCHANGEDSetup
        /\ IF ~vopen \/ "failErase" \in vrules \/ part = <<>>
           THEN Fails("erase", 0, 0, FALSE)
           ELSE LET p == part[1] IN
                /\ vstore' = [i \in DOMAIN vstore |-> IF i - p.offset \in 1..p.size THEN 0 ELSE vstore[i]]
                /\ Ended(IF p.offset + p.size > Len(vstore) THEN "overrun" ELSE "erase", p.offset, Zeroes(p.size), p.size, TRUE)
                /\ UNCHANGED vopen

VNext ==
    /\ vlast.op # "overrun"
    /\ \/ \E r \in FailureRules : setFailureRules(r)
       \/ \E p \in PartInfos : addPartition(p)
       \/ clearPartitions
       \/ setStorage(StorageSize + 1, 0)
       \/ setStorage(Len(vstore), 7)
       \/ openVirtual
       \/ closeVirtual
       \/ cancelDevice
       \/ powerReset
       \/ \E a \in MemoryAddresses, n \in 1..2 : readMemory(a, n) \/ eraseMemory(a, n)
       \/ \E a \in MemoryAddresses, d \in Buffers : writeMemory(a, d)
       \/ \E p \in PartInfos : readPartition(p.name) \/ erasePartition(p.name)
       \/ \E p \in PartInfos, d \in Buffers : writePartition(p.name, d)

------------------------------------------------------------------------------
(* Properties.                                                               *)

\* The bytes an operation may change.
Extent == (vlast.at + 1)..(vlast.at + vlast.size)

\* A byte of a store, 0 behind its end.
ByteAt(s, i) == IF i <= Len(s) THEN s[i] ELSE 0

\* Whatever rule is set and wherever the partitions lie: an operation that
\* fails changes no byte, one that succeeds changes none outside the extent it
\* was given, what it wrote is there, and a read returns the bytes that are.
DeviceIsFaithful ==
    vlast.op # "none" =>
        LET Store == 1..(IF Len(vstore) > Len(vlast.before) THEN Len(vstore) ELSE Len(vlast.before))
        IN  /\ ~vlast.ok => vlast.data = <<>>
            /\ vlast.op \in {"read", "write", "erase"} =>
                  \A i \in Store : (i \notin Extent \/ ~vlast.ok \/ vlast.op = "read") => ByteAt(vstore, i) = ByteAt(vlast.before, i)
            /\ (vlast.ok /\ vlast.op # "overrun") => \A i \in DOMAIN vlast.data : ByteAt(vstore, vlast.at + i) = vlast.data[i]
            /\ (vlast.ok /\ vlast.op = "read") =>
                  Len(vlast.data) = Cardinality({i \in Extent : i <= Len(vstore)})

------------------------------------------------------------------------------
(* Deviations: what one would expect and the code does not give.             *)

\* No operation writes behind the end of the store.
NoOverrun == vlast.op # "overrun"

\* A partition is read as long as it is.
ReadIsWhole == (vlast.op = "read" /\ vlast.ok) => Len(vlast.data) = vlast.size
=============================================================================
