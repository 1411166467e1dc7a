--------------------------- MODULE SectorMapping ---------------------------
(* How FirehoseAdapter turns byte ranges into sectors.  A behaviour is one   *)
(* call with arbitrary arguments on a storage whose bytes are all different. *)
EXTENDS Integers, Sequences

CONSTANTS
    S,       \* the sector size, 4096 in the code
    Max64,   \* the largest uint64_t
    Max32,   \* the largest uint32_t
    Size     \* the size of the storage in bytes, and of the largest buffer

\* A range that overflows 64 bits with a buffer that exists begins at a sector
\* beyond 32 bits.
ASSUME SectorAssumption ==
    /\ S \in Nat \ {0} /\ Max64 \in Nat /\ Max32 \in Nat
    /\ Size \in Nat /\ Size % S = 0
    /\ (Max64 - Size - S) \div S > Max32

VARIABLES
    flash,   \* the storage, a function from byte addresses
    call,    \* the call and its arguments
    out      \* its result, "ok", "err" or "undefined", and the data read

vars == <<flash, call, out>>

\* What byte a holds at first, the k-th byte of data to be written, padding.
Initial(a) == 1000 + a
Datum(k)   == 2000 + k
Blank      == 255

Init ==
    /\ flash = [a \in 0..(Size - 1) |-> Initial(a)]
    /\ call = [op |-> "none", address |-> 0, size |-> 0, announced |-> 0]
    /\ out = [res |-> "ok", data |-> <<>>]

------------------------------------------------------------------------------

safeAdd(a, b) == b <= Max64 - a

\* Mutant: the end of the range is rounded down.
byteAddressToSectorsFloor(address, size) ==
    [start  |-> address \div S,
     num    |-> IF safeAdd(address, size) THEN (address + size) \div S - address \div S ELSE 0,
     offset |-> address % S]

\* The sectors that hold [address, address + size); none when the end of the
\* range, rounded up, does not fit in 64 bits.
byteAddressToSectors(address, size) ==
    [start  |-> address \div S,
     num    |-> IF safeAdd(address, size) /\ safeAdd(address + size, S - 1)
                THEN (address + size + S - 1) \div S - address \div S
                ELSE 0,
     offset |-> address % S]

\* The commands carry 32-bit sector numbers; the device, external, serves
\* what lies in its storage.
Accepted(sm) == sm.start <= Max32 /\ sm.num <= Max32 /\ (sm.start + sm.num) * S <= Size

Sectors(sm) == (sm.start * S)..((sm.start + sm.num) * S - 1)

Does(op, address, size, res, data, announced) ==
    /\ call' = [op |-> op, address |-> address, size |-> size, announced |-> announced]
    /\ out' = [res |-> res, data |-> data]

\* Mutant: the range is taken from the beginning of the sectors.
trimStart(raw, offset, size) ==
    IF offset > 0 \/ Len(raw) > size THEN SubSeq(raw, 1, size) ELSE raw

\* readMemory() cuts the range out of the sectors it has read.
trim(raw, offset, size) ==
    IF offset > 0 \/ Len(raw) > size THEN SubSeq(raw, offset + 1, offset + size) ELSE raw

\* Cutting beyond the end is undefined in C++.
readMemory(address, size) ==
    LET sm  == byteAddressToSectors(address, size)
        raw == [k \in 1..(sm.num * S) |-> flash[sm.start * S + k - 1]]
        cut == sm.offset > 0 \/ Len(raw) > size
    IN  /\ IF ~Accepted(sm) THEN Does("read", address, size, "err", <<>>, sm.num)
           ELSE IF cut /\ sm.offset + size > Len(raw)
           THEN Does("read", address, size, "undefined", <<>>, sm.num)
           ELSE Does("read", address, size, "ok", trim(raw, sm.offset, size), sm.num)
        /\ UNCHANGED flash

\* Mutant: the data is not moved to its place in the first sector.
alignedAtStart(sm, size) ==
    [a \in Sectors(sm) |-> IF a - sm.start * S < size THEN Datum(a - sm.start * S) ELSE Blank]

\* The buffer writeMemory() sends: whole sectors, 0xFF around the data.
aligned(sm, size) ==
    [a \in Sectors(sm) |->
        LET k == a - sm.start * S - sm.offset IN IF k \in 0..(size - 1) THEN Datum(k) ELSE Blank]

Overwrite(buffer) ==
    flash' = [a \in DOMAIN flash |-> IF a \in DOMAIN buffer THEN buffer[a] ELSE flash[a]]

writeMemory(address, size) ==
    LET sm == byteAddressToSectors(address, size)
    IN  IF Accepted(sm)
        THEN Overwrite(aligned(sm, size)) /\ Does("write", address, size, "ok", <<>>, sm.num)
        ELSE UNCHANGED flash /\ Does("write", address, size, "err", <<>>, sm.num)

eraseMemory(address, size) ==
    LET sm == byteAddressToSectors(address, size)
    IN  IF Accepted(sm)
        THEN Overwrite([a \in Sectors(sm) |-> Blank]) /\ Does("erase", address, size, "ok", <<>>, sm.num)
        ELSE UNCHANGED flash /\ Does("erase", address, size, "err", <<>>, sm.num)

\* writePartition() streams its data as it is and announces whole sectors.
writePartition(size) ==
    UNCHANGED flash /\ Does("partition", 0, size, "ok", <<>>, size \div S + 1)

Next ==
    /\ call.op = "none"
    /\ \/ \E address \in 0..Max64, size \in 0..Max64 :
             readMemory(address, size) \/ eraseMemory(address, size)
       \/ \E address \in 0..Max64, size \in 0..Size : writeMemory(address, size)
       \/ \E size \in 1..Size : writePartition(size)

Spec == Init /\ [][Next]_vars

------------------------------------------------------------------------------
(* Properties.                                                             *)

Ok(op) == call.op = op /\ out.res = "ok"

\* The range ends, rounded up to a sector, within 64 bits.
Representable == call.address + call.size + S - 1 <= Max64

InRange(a) == a >= call.address /\ a < call.address + call.size

\* a lies outside the range extended to whole sectors at both ends.
Apart(a) ==
    \/ a < (call.address \div S) * S
    \/ a >= ((call.address + call.size + S - 1) \div S) * S

\* readMemory() of a range inside 64 bits never cuts beyond the data it has read
\* and returns exactly the bytes asked for, at any alignment.
ReadIsExact ==
    (call.op = "read" /\ Representable) =>
        /\ out.res # "undefined"
        /\ out.res = "ok" => out.data = [k \in 1..call.size |-> Initial(call.address + k - 1)]

\* writeMemory() puts every byte in its place and changes no sector beside the
\* ones the range touches.
WriteIsExact ==
    Ok("write") => \A a \in DOMAIN flash :
        /\ InRange(a) => flash[a] = Datum(a - call.address)
        /\ Apart(a) => flash[a] = Initial(a)

\* eraseMemory() erases the whole range and no sector beside the ones it touches.
EraseIsExact ==
    (Ok("erase") /\ Representable) => \A a \in DOMAIN flash :
        /\ InRange(a) => flash[a] = Blank
        /\ Apart(a) => flash[a] = Initial(a)

\* Byte ranges and sectors: every call touches what it was asked to.
SectorsAreExact == ReadIsExact /\ WriteIsExact /\ EraseIsExact

\* docs/architecture/Firehose.md:115, num_partition_sectors of <program> is the
\* "Number of sectors to write": as many as the data fills.
PartitionCountIsExact ==
    Ok("partition") => (call.announced - 1) * S < call.size /\ call.size <= call.announced * S
=============================================================================
