--------------------------------- MODULE Umbr ---------------------------------
(***************************************************************************)
(* The universal MBR: its installer, a command of grub4dos (g4dext/umbr.c),*)
(* and its boot code (umbr/umbr.S).                                        *)
(*                                                                         *)
(* The installer finds out where files lie by a hook in the disk reads,    *)
(* and writes four records of a checksum, a count of sectors, an address   *)
(* and a first sector into the MBR.  The boot code tries the records in    *)
(* order: the first that can be read and has its checksum is run.          *)
(*                                                                         *)
(* A sector is the word that its 16-bit words add up to with exclusive or, *)
(* and a word is the set of its bits.                                      *)
(***************************************************************************)
EXTENDS Integers, Sequences, FiniteSets

CONSTANTS Bits,
          SumMax,      \* sectors the checksum covers at most, 127 in the code
          Chunk,       \* sectors the BIOS reads at most, 127 in the code
          MaxBlocks,   \* sectors of a file at most, 1024 in the code
          Disks,       \* contents of the disk
          Arguments,   \* of the installer: up to three files, each its sectors and
                       \* whether it fills the last one
          Parts,       \* first sectors a partition may have, 0 without partition
          MaxEvents    \* changes of the disk and reads that fail or are cut short

Words == SUBSET Bits

ASSUME UmbrAssumption ==
    /\ SumMax \in Nat \ {0} /\ Chunk \in Nat \ {0} /\ MaxEvents \in Nat
    /\ MaxBlocks \in Nat \ {0}
    /\ \A a \in Arguments :
          /\ a \in Seq([secs : Seq(Nat) \ {<<>>}, whole : BOOLEAN]) \ {<<>>} /\ Len(a) =< 3
          /\ \A k \in DOMAIN a : Len(a[k].secs) =< MaxBlocks

\* A partition starts on the disk.
ASSUME DiskAssumption ==
    \A d \in Disks :
        /\ \A s \in DOMAIN d : d[s] \in Words
        /\ \A p \in Parts : p \in Nat /\ (p = 0 \/ p \in DOMAIN d)

VARIABLES disk,
          files,    \* arguments the installer has not looked at yet
          umbr,     \* the records of the image
          dap,      \* the record that is filled next
          part,     \* the partition to boot when all else fails
          mbr,      \* the records in sector 0
          pc,       \* "file", "part", "write", "off", "try", "read", "sum", "key",
                    \* "booted", "error"
          si,       \* the record the boot code tries
          recs,     \* the records in memory
          cx,       \* sectors that remain to be read
          stack,    \* what readdisk and its caller pushed
          mem,      \* sectors from 0x7C00 on
          hidden,   \* the double word at 0x7C1C, when it is set
          \* History: the files by their records, records with a failed read, changes
          \* of the disk since, and all events.
          made, failed, changed, events

vars == <<disk, files, umbr, dap, part, mbr, pc, si, recs, cx, stack, mem, hidden,
          made, failed, changed, events>>
boot == <<si, recs, cx, stack, mem, hidden, failed>>
install == <<files, umbr, dap, part, mbr, made>>

Zero == {}
Junk == Bits       \* what memory held before

\* 07C0:0000 and 07E0:0000, in sectors from 0x7C00.
PbrAddr == 0
FileAddr == 1

NoRecord == [crc |-> Zero, count |-> 0, addr |-> 0, lba |-> 0]
NoRecords == [k \in 1 .. 4 |-> NoRecord]

Lesser(a, b) == IF a < b THEN a ELSE b

\* Exclusive or of the words of a sequence.
Xor(words) == {b \in Bits : Cardinality({k \in DOMAIN words : b \in words[k]}) % 2 = 1}

-----------------------------------------------------------------------------
(***************************************************************************)
(* The installer.                                                          *)
(***************************************************************************)

First(f) == f.secs[1]
Size(f) == Len(f.secs)

\* check_sum of count sectors of the buffer: the file, and behind its last byte
\* the same byte once more, stray.
InBuffer(f, stray, k) ==
    LET byteAt == IF f.whole THEN Size(f) + 1 ELSE Size(f)
        data   == IF k =< Size(f) THEN disk[f.secs[k]] ELSE Zero
    IN  IF k = byteAt THEN Xor(<<data, stray>>) ELSE data

\* Mutated: all sectors count.
CheckSum_All(f, stray, count) == Xor([k \in 1 .. count |-> InBuffer(f, stray, k)])

CheckSum(f, stray, count) ==
    Xor([k \in 1 .. Lesser(count, SumMax) |-> InBuffer(f, stray, k)])

\* The hook: from the first to the last sector, unless these are further apart
\* than the file is long.
Hooked(f) ==
    LET away == f.secs[Size(f)] - First(f)
    IN  IF away < 0 \/ away > (IF f.whole THEN Size(f) ELSE Size(f) - 1)
        THEN 0 ELSE away + 1

NextFile ==
    /\ files' = Tail(files)
    /\ pc' = IF Len(files) = 1 THEN "part" ELSE "file"

\* Not found, on another drive, too large, or its first sector cannot be read.
SkipFile ==
    /\ pc = "file" /\ NextFile
    /\ UNCHANGED <<disk, umbr, dap, part, mbr, boot, made, changed, events>>

\* When the last byte cannot be read the hook leaves the first sector for count.
Install(count, stray) ==
    LET f == files[1] IN
    /\ pc = "file" /\ NextFile
    /\ count \in {Hooked(f), First(f)} /\ count \in 1 .. MaxBlocks
    /\ umbr' = [umbr EXCEPT ![dap] =
                  [crc |-> CheckSum(f, stray, count), count |-> count, lba |-> First(f),
                   addr |-> IF count > 1 THEN FileAddr ELSE PbrAddr]]
    /\ dap' = dap + 1
    /\ made' = Append(made, [file |-> f, count |-> count])
    /\ UNCHANGED <<disk, part, mbr, boot, changed, events>>

\* The rest of the file cannot be read, or its first and last sector do not fit its
\* size: the record has a first sector only, and the next file fills it.
HalfRecord ==
    /\ pc = "file" /\ NextFile
    /\ umbr' = [umbr EXCEPT ![dap].lba = First(files[1])]
    /\ UNCHANGED <<disk, dap, part, mbr, boot, made, changed, events>>

\* The boot sector of the partition goes into the record at offset 0x30, when it
\* can be read.
AddPartition ==
    /\ pc = "part"
    /\ pc' = "write"
    /\ \/ UNCHANGED umbr
       \/ /\ part # 0
          /\ umbr' = [umbr EXCEPT ![3] = [crc |-> disk[part], count |-> 1,
                                         addr |-> PbrAddr, lba |-> part]]
    /\ UNCHANGED <<disk, files, dap, part, mbr, boot, made, changed, events>>

WriteMbr ==
    /\ pc = "write"
    /\ mbr' = umbr
    /\ pc' = "off"
    /\ UNCHANGED <<disk, files, umbr, dap, part, boot, made, changed, events>>

\* Other programs write to the disk.
ChangeDisk(s, w) ==
    /\ pc = "off" /\ events < MaxEvents /\ disk[s] # w
    /\ disk' = [disk EXCEPT ![s] = w]
    /\ changed' = TRUE /\ events' = events + 1
    /\ UNCHANGED <<install, boot, pc>>

-----------------------------------------------------------------------------
(***************************************************************************)
(* The boot code.                                                          *)
(***************************************************************************)

PowerOn ==
    /\ pc = "off"
    /\ recs' = mbr /\ si' = 1
    /\ mem' = [mem EXCEPT ![FileAddr] = Zero]
    /\ pc' = "try"
    /\ UNCHANGED <<disk, install, cx, stack, hidden, failed, changed, events>>

\* On to the next record: print_next shows which is tried next and waits for a key.
NextRecord ==
    /\ si' = si + 1
    /\ pc' = "key"

\* A key is pressed, and the next record is tried; after the fourth the message is
\* shown, and once more after every key.
PressKey ==
    /\ pc = "key"
    /\ pc' = IF si = 5 THEN "error" ELSE "try"
    /\ UNCHANGED <<disk, install, boot, changed, events>>

SkipEmpty ==
    /\ pc = "try" /\ recs[si].crc = Zero
    /\ NextRecord
    /\ UNCHANGED <<disk, install, recs, cx, stack, mem, hidden, failed, changed, events>>

\* The checksum and the record's count, address and sector go on the stack.
StartRead ==
    /\ pc = "try" /\ recs[si].crc # Zero
    /\ stack' = recs[si]
    /\ cx' = recs[si].count
    /\ pc' = "read"
    /\ UNCHANGED <<disk, install, si, recs, mem, hidden, failed, changed, events>>

\* What one call asks for.  The packet's size goes over the checksum.
Asked == Lesser(cx, Chunk)
Packet == [recs[si] EXCEPT !.crc = Bits, !.count = Asked]

\* Popped at both ends of readdisk.
Restored == [recs EXCEPT ![si] = [stack EXCEPT !.crc = Bits]]

\* The packet for the sectors after those the BIOS has read.
Onward(got) ==
    [Packet EXCEPT !.count = got, !.lba = Packet.lba + got, !.addr = Packet.addr + got]

\* Mutated: takes it that the BIOS read all it was asked for.
Got_All(got) == Asked

\* Mutated: BX is not loaded from the packet.
Got_None(got) == 0

\* The count comes back in the packet.
Got(got) == got

\* The BIOS reads some or all of the sectors.
ReadChunk(got) ==
    LET from == Packet.lba  to == Packet.addr IN
    /\ pc = "read" /\ got \in 1 .. Asked
    /\ got < Asked => events < MaxEvents
    /\ \A k \in 0 .. got - 1 : from + k \in DOMAIN disk
    /\ events' = (IF got < Asked THEN events + 1 ELSE events)
    /\ mem' = [a \in DOMAIN mem |-> IF a \in to .. to + got - 1
                                    THEN disk[from + (a - to)] ELSE mem[a]]
    /\ cx' = cx - Got(got)
    /\ IF cx' > 0
       THEN recs' = [recs EXCEPT ![si] = Onward(Got(got))] /\ UNCHANGED pc
       ELSE recs' = Restored /\ pc' = "sum"
    /\ UNCHANGED <<disk, install, si, stack, hidden, failed, changed>>

\* A sector cannot be read or lies behind the end of the disk.
ReadFails ==
    /\ pc = "read"
    /\ events < MaxEvents \/ \E k \in 0 .. Asked - 1 : Packet.lba + k \notin DOMAIN disk
    /\ events' = Lesser(events + 1, MaxEvents)
    /\ failed' = failed \union {si}
    /\ recs' = Restored
    /\ NextRecord
    /\ UNCHANGED <<disk, install, cx, stack, mem, hidden, changed>>

\* _check_sum of what is in memory.
MemSum(r) == Xor([k \in 1 .. Lesser(r.count, SumMax) |-> mem[r.addr + k - 1]])

Matches == MemSum(recs[si]) = stack.crc

\* A boot sector at 07C0:0000 has its count of hidden sectors at 7C1C.
Jump ==
    /\ pc = "sum" /\ Matches
    /\ hidden' = IF recs[si].addr = PbrAddr THEN recs[si].lba ELSE hidden
    /\ pc' = "booted"
    /\ UNCHANGED <<disk, install, si, recs, cx, stack, mem, failed, changed, events>>

Mismatch ==
    /\ pc = "sum" /\ ~Matches
    /\ NextRecord
    /\ UNCHANGED <<disk, install, recs, cx, stack, mem, hidden, failed, changed, events>>

\* The loaded code runs, or the message is shown for ever.
Stop == pc \in {"booted", "error"} /\ UNCHANGED vars

-----------------------------------------------------------------------------
Init ==
    /\ disk \in Disks
    /\ files \in Arguments
    /\ part \in Parts
    /\ umbr = NoRecords /\ dap = 1 /\ mbr = NoRecords
    /\ pc = "file"
    /\ si = 1 /\ recs = NoRecords /\ cx = 0 /\ stack = NoRecord
    /\ mem = [a \in 0 .. MaxBlocks |-> Junk] /\ hidden = 0
    /\ made = <<>> /\ failed = {} /\ changed = FALSE /\ events = 0

InstallStep ==
    \/ SkipFile \/ HalfRecord \/ AddPartition \/ WriteMbr
    \/ \E count \in 1 .. MaxBlocks, stray \in Words : Install(count, stray)

BootStep ==
    \/ SkipEmpty \/ StartRead \/ ReadFails \/ Jump \/ Mismatch
    \/ \E got \in 1 .. Chunk : ReadChunk(got)

Next ==
    \/ InstallStep \/ BootStep \/ PowerOn \/ PressKey \/ Stop
    \/ \E s \in DOMAIN disk, w \in Words : ChangeDisk(s, w)

\* The BIOS returns from every read; that somebody presses a key is not assumed.
Spec == Init /\ [][Next]_vars /\ WF_vars(BootStep)

-----------------------------------------------------------------------------
(***************************************************************************)
(* Properties.                                                             *)
(***************************************************************************)

\* The type invariant; what is loaded stays inside the memory of the files.
Record == [crc : Words, count : 0 .. MaxBlocks, addr : {PbrAddr, FileAddr}, lba : Nat]

TypeOK ==
    /\ umbr \in [1 .. 4 -> Record] /\ mbr \in [1 .. 4 -> Record]
    /\ dap \in 1 .. 4 /\ Len(made) = dap - 1
    /\ si \in 1 .. 5 /\ (pc \in {"try", "read", "sum"} => si < 5)
    /\ stack \in Record /\ cx \in 0 .. MaxBlocks
    /\ pc = "read" => cx > 0 /\ Packet.addr + cx - 1 =< MaxBlocks
    /\ mem \in [0 .. MaxBlocks -> Words]

DiskSum(r) == Xor([k \in 1 .. Lesser(r.count, SumMax) |-> disk[r.lba + k - 1]])

\* Every record before the one that is tried or run was empty, could not be read,
\* or did not have its checksum; of the one that runs memory holds every sector,
\* in how many calls and pieces the BIOS ever read them.
FirstGoodBoots ==
    /\ \A j \in 1 .. si - 1 :
          mbr[j].crc = Zero \/ j \in failed \/ DiskSum(mbr[j]) # mbr[j].crc
    /\ pc = "booted" =>
          /\ DiskSum(mbr[si]) = mbr[si].crc
          /\ \A k \in 0 .. mbr[si].count - 1 : mem[mbr[si].addr + k] = disk[mbr[si].lba + k]
          /\ mbr[si].addr = PbrAddr => hidden = mbr[si].lba

\* Files that the installer took as they are: whole sectors, one after the other.
\* A checksum of zero marks a record as empty, and the partition takes the place
\* of the third file.
IsContiguous(f) == \A k \in 1 .. Size(f) : f.secs[k] = First(f) + k - 1

Promised == {j \in DOMAIN made : LET f == made[j].file IN
                /\ f.whole /\ IsContiguous(f) /\ made[j].count = Size(f)
                /\ mbr[j].crc # Zero /\ (j = 3 => part = 0)}

\* What the installer put into the MBR boots: on a disk that was not changed and
\* can be read, the first such file or a record before it, with what the installer
\* read from the file.
FileBoots ==
    pc \in {"booted", "error"} /\ ~changed /\ failed = {} =>
        \A j \in Promised :
            /\ pc = "booted" /\ si =< j
            /\ si = j => \A k \in 1 .. Size(made[j].file) :
                  mem[mbr[j].addr + k - 1] = disk[made[j].file.secs[k]]

\* DS:SI points to the record in memory (umbr/umbr.S:193): outside of readdisk it
\* has the count, address and sector that are in the MBR, whatever failed.
RecordsKept ==
    pc \in {"try", "sum", "key", "booted", "error"} =>
        \A k \in 1 .. 4 : [recs[k] EXCEPT !.crc = Zero] = [mbr[k] EXCEPT !.crc = Zero]

\* The invariant of the boot: the types, the records in memory, and what runs.
BootInv == TypeOK /\ RecordsKept /\ FirstGoodBoots

\* Every record that is tried boots or comes to the wait for a key in print_message
\* (umbr/umbr.S:357), in how many pieces it is ever read; and where every wait is
\* answered the machine runs a record or shows the message for good.
BootEnds ==
    /\ pc = "try" ~> pc \in {"booted", "key"}
    /\ []<>(pc # "key") => (pc = "try" ~> pc \in {"booted", "error"})
=============================================================================
