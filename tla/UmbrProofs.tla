------------------------------ MODULE UmbrProofs -------------------------------
(***************************************************************************)
(* Proofs about the universal MBR, for every checksum bound, call length,  *)
(* disk and list of files: the boot code runs the first record that can be *)
(* read and has its checksum, whole, and a file the installer took boots.  *)
(* That two sums agree follows from the words they sum up.                 *)
(***************************************************************************)
EXTENDS Umbr, TLAPS

-----------------------------------------------------------------------------
(***************************************************************************)
(* The inductive invariant.                                                *)
(***************************************************************************)

FileType == [secs : Seq(Nat) \ {<<>>}, whole : BOOLEAN]
MemRecord == [crc : Words, count : Nat, addr : Nat, lba : Nat]

\* A record that is not empty has a sector to read.
Filled(r) == r.crc # Zero => r.count > 0

DiskOK ==
    /\ \A s \in DOMAIN disk : disk[s] \in Words
    /\ part \in Nat /\ (part = 0 \/ part \in DOMAIN disk)

\* The installer has a record left for each file.
InstallerOK ==
    /\ umbr \in [1 .. 4 -> Record] /\ mbr \in [1 .. 4 -> Record]
    /\ \A k \in 1 .. 4 : Filled(umbr[k]) /\ Filled(mbr[k])
    /\ dap \in 1 .. 4
    /\ made \in Seq([file : FileType, count : Nat]) /\ Len(made) = dap - 1
    /\ pc = "file" => files \in Seq(FileType) \ {<<>>} /\ dap + Len(files) =< 4

\* The record of a file, and its checksum if the file is as its record says.
Taken(f, count, r) ==
    /\ r.lba = First(f) /\ r.count = count
    /\ ~changed /\ f.whole /\ IsContiguous(f) /\ count = Size(f) => r.crc = DiskSum(r)

MadeOK ==
    /\ \A j \in 1 .. Len(made) :
          (j = 3 => part = 0) => Taken(made[j].file, made[j].count, umbr[j])
    /\ pc \notin {"file", "part", "write"} => mbr = umbr

\* A record in memory says what the one in the MBR says.
Kept(k) ==
    recs[k].count = mbr[k].count /\ recs[k].addr = mbr[k].addr /\ recs[k].lba = mbr[k].lba

\* The first n sectors of a record are in memory.
InMemory(r, n) == \A a \in 0 .. n - 1 : mem[r.addr + a] = disk[r.lba + a]

Reading ==
    /\ cx \in 1 .. stack.count
    /\ recs[si].lba = stack.lba + (stack.count - cx)
    /\ recs[si].addr = stack.addr + (stack.count - cx)
    /\ InMemory(stack, stack.count - cx)

BootOK ==
    /\ si \in 1 .. 5 /\ recs \in [1 .. 4 -> MemRecord] /\ stack \in Record
    /\ cx \in 0 .. MaxBlocks /\ mem \in [0 .. MaxBlocks -> Words]
    /\ pc \in {"file", "part", "write", "off"} => si = 1
    /\ pc \in {"try", "read", "sum", "booted"} => si < 5
    /\ pc = "error" => si = 5
    /\ pc \in {"try", "sum", "key", "booted", "error"} => \A k \in 1 .. 4 : Kept(k)
    /\ pc \in {"try", "key"} => \A k \in si .. 4 : recs[k].crc = mbr[k].crc
    /\ pc \in {"read", "sum"} =>
          /\ \A k \in si + 1 .. 4 : recs[k].crc = mbr[k].crc
          /\ stack = mbr[si]
    /\ pc = "read" => Reading /\ \A k \in 1 .. 4 : k # si => Kept(k)
    /\ pc = "sum" => InMemory(mbr[si], mbr[si].count)

UmbrIInv == DiskOK /\ InstallerOK /\ MadeOK /\ BootOK /\ FirstGoodBoots
-----------------------------------------------------------------------------
(***************************************************************************)
(* The operators of the model.                                             *)
(***************************************************************************)

\* The exclusive or of words is a word.
LEMMA XorWord == ASSUME NEW words PROVE Xor(words) \in Words
BY DEF Xor, Words

\* What a packet says of the record it is made from.
LEMMA PacketFields ==
    ASSUME recs \in [1 .. 4 -> MemRecord], si \in 1 .. 4, cx \in Nat
    PROVE  /\ Asked \in Nat /\ Asked =< cx /\ Asked =< Chunk
           /\ Packet \in MemRecord
           /\ Packet.addr = recs[si].addr /\ Packet.lba = recs[si].lba
<1>1. PICK r \in MemRecord : r = recs[si]
  OBVIOUS
<1>2. Packet = [[r EXCEPT !.crc = Bits] EXCEPT !.count = Asked]
  BY <1>1 DEF Packet
<1>3. PICK q \in MemRecord : q = [r EXCEPT !.crc = Bits]
  BY <1>1 DEF MemRecord, Words
<1>4. q.addr = r.addr /\ q.lba = r.lba
  BY <1>1, <1>3 DEF MemRecord
<1>5. Asked \in Nat /\ Asked =< cx /\ Asked =< Chunk
  BY UmbrAssumption DEF Asked, Lesser
<1>6. Packet = [q EXCEPT !.count = Asked]
  BY <1>2, <1>3
<1>7. Packet \in MemRecord /\ Packet.addr = q.addr /\ Packet.lba = q.lba
  BY <1>3, <1>5, <1>6 DEF MemRecord
<1> QED
  BY <1>1, <1>4, <1>5, <1>7

\* The packet for the rest is further on the disk and in memory.
LEMMA OnwardFields ==
    ASSUME recs \in [1 .. 4 -> MemRecord], si \in 1 .. 4, cx \in Nat, NEW got \in Nat
    PROVE  /\ Onward(got) \in MemRecord
           /\ Onward(got).addr = recs[si].addr + got
           /\ Onward(got).lba = recs[si].lba + got
<1>1. PICK p \in MemRecord : p = Packet
  BY PacketFields
<1>2. p.addr = recs[si].addr /\ p.lba = recs[si].lba
  BY <1>1, PacketFields
<1>3. PICK l \in Nat : l = p.lba + got
  BY <1>1 DEF MemRecord
<1>4. PICK a \in Nat : a = p.addr + got
  BY <1>1 DEF MemRecord
<1>5. Onward(got) = [p EXCEPT !.count = got, !.lba = l, !.addr = a]
  BY <1>1, <1>3, <1>4 DEF Onward
<1>6. PICK c \in MemRecord : c = [p EXCEPT !.count = got]
  BY <1>1 DEF MemRecord
<1>7. c.lba = p.lba /\ c.addr = p.addr
  BY <1>1, <1>6 DEF MemRecord
<1>8. PICK d \in MemRecord : d = [c EXCEPT !.lba = l]
  BY <1>3, <1>6 DEF MemRecord
<1>9. d.lba = l /\ d.addr = p.addr
  BY <1>6, <1>7, <1>8 DEF MemRecord
<1>10. Onward(got) = [d EXCEPT !.addr = a]
  BY <1>5, <1>6, <1>8
<1>11. /\ Onward(got) \in MemRecord
       /\ Onward(got).addr = a /\ Onward(got).lba = d.lba
  BY <1>4, <1>8, <1>10 DEF MemRecord
<1> QED
  BY <1>2, <1>3, <1>4, <1>9, <1>11

\* The record that was on the stack comes back, but its checksum.
LEMMA RestoredFields ==
    ASSUME recs \in [1 .. 4 -> MemRecord], si \in 1 .. 4, stack \in Record
    PROVE  /\ Restored \in [1 .. 4 -> MemRecord]
           /\ Restored[si].count = stack.count /\ Restored[si].addr = stack.addr
           /\ Restored[si].lba = stack.lba
           /\ \A k \in 1 .. 4 : k # si => Restored[k] = recs[k]
<1>1. PICK r \in MemRecord : r = stack
  BY UmbrAssumption DEF MemRecord, Record, Words, PbrAddr, FileAddr
<1>2. PICK q \in MemRecord : q = [r EXCEPT !.crc = Bits]
  BY <1>1 DEF MemRecord, Words
<1>3. q.count = r.count /\ q.addr = r.addr /\ q.lba = r.lba
  BY <1>1, <1>2 DEF MemRecord
<1>4. Restored = [recs EXCEPT ![si] = q]
  BY <1>1, <1>2 DEF Restored
<1> QED
  BY <1>1, <1>2, <1>3, <1>4

\* What is in memory adds up to what is on the disk.
LEMMA SumsAgree ==
    ASSUME NEW r, r.count \in Nat, InMemory(r, r.count)
    PROVE  MemSum(r) = DiskSum(r)
<1> DEFINE m == [k \in 1 .. Lesser(r.count, SumMax) |-> mem[r.addr + k - 1]]
           d == [k \in 1 .. Lesser(r.count, SumMax) |-> disk[r.lba + k - 1]]
<1>1. ASSUME NEW k \in 1 .. Lesser(r.count, SumMax)
      PROVE  mem[r.addr + k - 1] = disk[r.lba + k - 1]
  <2>1. k \in Int /\ 1 =< k /\ k =< r.count
    BY UmbrAssumption DEF Lesser
  <2>2. k - 1 \in 0 .. r.count - 1
    BY <2>1
  <2> QED
    BY <2>2 DEF InMemory
<1>2. m = d
  BY <1>1, Zenon
<1> QED
  BY <1>2 DEF MemSum, DiskSum

\* The checksum the installer computes for a file it took as it is.
LEMMA CheckSumAgrees ==
    ASSUME NEW f \in FileType, f.whole, IsContiguous(f), NEW stray,
           NEW r, r.count = Size(f), r.lba = First(f)
    PROVE  CheckSum(f, stray, Size(f)) = DiskSum(r)
<1>1. Size(f) \in Nat
  BY DEF FileType, Size
<1>2. ASSUME NEW k \in 1 .. Lesser(Size(f), SumMax)
      PROVE  InBuffer(f, stray, k) = disk[r.lba + k - 1]
  <2>1. k \in 1 .. Size(f)
    BY <1>1, UmbrAssumption DEF Lesser
  <2>2. k =< Size(f) /\ k # Size(f) + 1
    BY <1>1, <2>1
  <2>3. InBuffer(f, stray, k) = disk[f.secs[k]]
    BY <2>2 DEF InBuffer
  <2>4. f.secs[k] = r.lba + k - 1
    BY <2>1 DEF IsContiguous
  <2> QED
    BY <2>3, <2>4
<1>3. [k \in 1 .. Lesser(Size(f), SumMax) |-> InBuffer(f, stray, k)]
        = [k \in 1 .. Lesser(Size(f), SumMax) |-> disk[r.lba + k - 1]]
  BY <1>2, Zenon
<1> QED
  BY <1>3 DEF CheckSum, DiskSum

-----------------------------------------------------------------------------
(***************************************************************************)
(* The installer.                                                          *)
(***************************************************************************)

LEMMA UmbrInit == Init => UmbrIInv
<1> SUFFICES ASSUME Init PROVE UmbrIInv
  OBVIOUS
<1>1. DiskOK
  BY DiskAssumption DEF Init, DiskOK
<1>2. NoRecord \in Record
  BY UmbrAssumption DEF NoRecord, Record, Words, Zero, PbrAddr, FileAddr
<1>3. NoRecords \in [1 .. 4 -> Record] /\ \A k \in 1 .. 4 : Filled(NoRecords[k])
  BY <1>2 DEF NoRecords, NoRecord, Filled
<1>4. files \in Seq(FileType) \ {<<>>} /\ 1 + Len(files) =< 4
  BY UmbrAssumption DEF Init, FileType
<1>5. InstallerOK
  BY <1>3, <1>4 DEF Init, InstallerOK
<1>6. MadeOK
  BY DEF Init, MadeOK
<1>7. NoRecord \in MemRecord
  BY DEF NoRecord, MemRecord, Words, Zero
<1>8. NoRecords \in [1 .. 4 -> MemRecord]
  BY <1>7 DEF NoRecords
<1>9. mem \in [0 .. MaxBlocks -> Words]
  BY DEF Init, Junk, Words
<1>10. BootOK
  <2>1. si \in 1 .. 5 /\ recs \in [1 .. 4 -> MemRecord] /\ stack \in Record
    BY <1>2, <1>8 DEF Init
  <2>2. cx \in 0 .. MaxBlocks /\ pc = "file" /\ si = 1
    BY UmbrAssumption DEF Init
  <2> QED
    BY <1>9, <2>1, <2>2 DEF BootOK
<1>11. FirstGoodBoots
  BY DEF Init, FirstGoodBoots
<1> QED
  BY <1>1, <1>5, <1>6, <1>10, <1>11 DEF UmbrIInv

\* Before the machine is on, the boot code has nothing to lose.
LEMMA BootFrame ==
    ASSUME UmbrIInv, UNCHANGED boot, pc \in {"file", "part", "write", "off"},
           pc' \in {"file", "part", "write", "off"}
    PROVE  BootOK' /\ FirstGoodBoots'
<1>1. BootOK'
  BY DEF UmbrIInv, BootOK, boot
<1>2. FirstGoodBoots'
  BY DEF UmbrIInv, BootOK, FirstGoodBoots, boot
<1> QED
  BY <1>1, <1>2

\* What the next file leaves to do.
LEMMA FilesLeft ==
    ASSUME files \in Seq(FileType) \ {<<>>}, NextFile
    PROVE  /\ files[1] \in FileType /\ Len(files) \in Nat \ {0}
           /\ pc' \in {"file", "part"}
           /\ pc' = "file" => /\ files' \in Seq(FileType) \ {<<>>}
                              /\ Len(files') = Len(files) - 1
<1>1. files[1] \in FileType /\ Len(files) \in Nat \ {0}
  OBVIOUS
<1>2. Tail(files) \in Seq(FileType) /\ Len(Tail(files)) = Len(files) - 1
  OBVIOUS
<1>3. Len(files) # 1 => Tail(files) # <<>>
  BY <1>1, <1>2
<1> QED
  BY <1>1, <1>2, <1>3 DEF NextFile

LEMMA SkipFileKeeps == UmbrIInv /\ SkipFile => UmbrIInv'
<1> SUFFICES ASSUME UmbrIInv, SkipFile PROVE UmbrIInv'
  OBVIOUS
<1>1. files \in Seq(FileType) \ {<<>>} /\ dap + Len(files) =< 4 /\ dap \in 1 .. 4
  BY DEF UmbrIInv, InstallerOK, SkipFile
<1>2. /\ Len(files) \in Nat \ {0} /\ pc' \in {"file", "part"}
      /\ pc' = "file" => files' \in Seq(FileType) \ {<<>>} /\ Len(files') = Len(files) - 1
  BY <1>1, FilesLeft DEF SkipFile
<1>3. pc' = "file" => dap + Len(files') =< 4
  BY <1>1, <1>2
<1>4. InstallerOK'
  BY <1>2, <1>3 DEF UmbrIInv, InstallerOK, SkipFile
<1>5. DiskOK' /\ MadeOK'
  BY <1>2 DEF UmbrIInv, DiskOK, MadeOK, Taken, DiskSum, SkipFile
<1>6. BootOK' /\ FirstGoodBoots'
  BY <1>2, BootFrame DEF SkipFile
<1> QED
  BY <1>4, <1>5, <1>6 DEF UmbrIInv

LEMMA HalfRecordKeeps == UmbrIInv /\ HalfRecord => UmbrIInv'
<1> SUFFICES ASSUME UmbrIInv, HalfRecord PROVE UmbrIInv'
  OBVIOUS
<1>1. /\ files \in Seq(FileType) \ {<<>>} /\ dap + Len(files) =< 4 /\ dap \in 1 .. 4
      /\ umbr \in [1 .. 4 -> Record] /\ Len(made) = dap - 1
      /\ \A k \in 1 .. 4 : Filled(umbr[k])
  BY DEF UmbrIInv, InstallerOK, HalfRecord
<1>2. /\ files[1] \in FileType
      /\ Len(files) \in Nat \ {0} /\ pc' \in {"file", "part"}
      /\ pc' = "file" => files' \in Seq(FileType) \ {<<>>} /\ Len(files') = Len(files) - 1
  BY <1>1, FilesLeft DEF HalfRecord
<1>3. pc' = "file" => dap + Len(files') =< 4
  BY <1>1, <1>2
<1>4. PICK l \in Nat : l = First(files[1])
  BY <1>2 DEF FileType, First
<1>5. PICK r \in Record : r = umbr[dap]
  BY <1>1
<1>6. PICK q \in Record : q = [r EXCEPT !.lba = l]
  BY <1>4, <1>5 DEF Record
<1>7. q.crc = r.crc /\ q.count = r.count
  BY <1>5, <1>6 DEF Record
<1>8. umbr' = [umbr EXCEPT ![dap] = q]
  BY <1>4, <1>5, <1>6 DEF HalfRecord
<1>9. umbr' \in [1 .. 4 -> Record] /\ \A k \in 1 .. 4 : Filled(umbr'[k])
  BY <1>1, <1>5, <1>6, <1>7, <1>8 DEF Filled
<1>10. InstallerOK'
  <2>1. \A k \in 1 .. 4 : Filled(umbr[k])' /\ Filled(mbr[k])'
    BY <1>9 DEF UmbrIInv, InstallerOK, HalfRecord, Filled
  <2> QED
    BY <1>2, <1>3, <1>9, <2>1 DEF UmbrIInv, InstallerOK, HalfRecord
<1>11. \A j \in 1 .. Len(made) : umbr'[j] = umbr[j]
  BY <1>1, <1>8
<1>12. DiskOK' /\ MadeOK'
  <2>1. DiskOK'
    BY DEF UmbrIInv, DiskOK, HalfRecord
  <2>2. ASSUME NEW j \in 1 .. Len(made), j = 3 => part = 0
        PROVE  Taken(made[j].file, made[j].count, umbr[j])'
    <3>1. Taken(made[j].file, made[j].count, umbr[j])
      BY <2>2 DEF UmbrIInv, MadeOK
    <3>2. umbr'[j] = umbr[j] /\ UNCHANGED <<made, changed, disk>>
      BY <1>11 DEF HalfRecord
    <3> QED
      BY <3>1, <3>2 DEF Taken, DiskSum
  <2>3. MadeOK'
    BY <1>2, <2>2 DEF MadeOK, HalfRecord
  <2> QED
    BY <2>1, <2>3
<1>13. BootOK' /\ FirstGoodBoots'
  BY <1>2, BootFrame DEF HalfRecord
<1> QED
  BY <1>10, <1>12, <1>13 DEF UmbrIInv

LEMMA InstallKeeps ==
    ASSUME UmbrIInv, NEW count \in 1 .. MaxBlocks, NEW stray \in Words, Install(count, stray)
    PROVE  UmbrIInv'
<1>1. /\ files \in Seq(FileType) \ {<<>>} /\ dap + Len(files) =< 4 /\ dap \in 1 .. 4
      /\ umbr \in [1 .. 4 -> Record] /\ Len(made) = dap - 1
      /\ made \in Seq([file : FileType, count : Nat])
      /\ \A k \in 1 .. 4 : Filled(umbr[k])
  BY DEF UmbrIInv, InstallerOK, Install
<1>2. PICK f \in FileType : f = files[1]
  BY <1>1, FilesLeft DEF Install
<1>3. /\ Len(files) \in Nat \ {0} /\ pc' \in {"file", "part"}
      /\ pc' = "file" => files' \in Seq(FileType) \ {<<>>} /\ Len(files') = Len(files) - 1
  BY <1>1, FilesLeft DEF Install
<1>4. dap' = dap + 1 /\ dap' \in 1 .. 4 /\ (pc' = "file" => dap' + Len(files') =< 4)
  BY <1>1, <1>3 DEF Install
<1>5. PICK l \in Nat : l = First(f)
  BY DEF FileType, First
<1>6. PICK c \in Words : c = CheckSum(f, stray, count)
  BY XorWord DEF CheckSum
<1>7. PICK a \in {PbrAddr, FileAddr} : a = IF count > 1 THEN FileAddr ELSE PbrAddr
  OBVIOUS
<1>8. PICK r : r = [crc |-> c, count |-> count, lba |-> l, addr |-> a]
  OBVIOUS
<1>9. count \in Nat /\ count > 0 /\ count \in 0 .. MaxBlocks
  BY UmbrAssumption
<1>10. r \in Record /\ Filled(r)
  BY <1>8, <1>9 DEF Record, Filled
<1>11. umbr' = [umbr EXCEPT ![dap] = r]
  BY <1>2, <1>5, <1>6, <1>7, <1>8 DEF Install
<1>12. umbr' \in [1 .. 4 -> Record] /\ \A k \in 1 .. 4 : Filled(umbr'[k])
  BY <1>1, <1>10, <1>11
<1>13. PICK m \in [file : FileType, count : Nat] : m = [file |-> f, count |-> count]
  BY <1>9
<1>14. made' = Append(made, m)
  BY <1>2, <1>13 DEF Install
<1>15. /\ made' \in Seq([file : FileType, count : Nat]) /\ Len(made') = dap
       /\ made'[dap] = m
       /\ \A j \in 1 .. dap - 1 : made'[j] = made[j]
  BY <1>1, <1>14
<1>16. InstallerOK'
  <2>1. \A k \in 1 .. 4 : Filled(umbr[k])' /\ Filled(mbr[k])'
    BY <1>12 DEF UmbrIInv, InstallerOK, Install, Filled
  <2>2. Len(made') = dap' - 1
    BY <1>1, <1>4, <1>15
  <2> QED
    BY <1>3, <1>4, <1>12, <1>15, <2>1, <2>2 DEF UmbrIInv, InstallerOK, Install
<1>17. ASSUME NEW j \in 1 .. dap, j = 3 => part = 0
       PROVE  Taken(made[j].file, made[j].count, umbr[j])'
  <2>1. UNCHANGED <<changed, disk>>
    BY DEF Install
  <2>2. CASE j # dap
    <3>1. j \in 1 .. Len(made)
      BY <1>1, <2>2
    <3>2. Taken(made[j].file, made[j].count, umbr[j])
      BY <1>17, <3>1 DEF UmbrIInv, MadeOK
    <3>3. umbr'[j] = umbr[j] /\ made'[j] = made[j]
      BY <1>1, <1>11, <1>15, <2>2
    <3> QED
      BY <2>1, <3>2, <3>3 DEF Taken, DiskSum
  <2>3. CASE j = dap
    <3>1. made'[j].file = f /\ made'[j].count = count /\ umbr'[j] = r
      BY <1>1, <1>11, <1>13, <1>15, <2>3
    <3>2. r.lba = First(f) /\ r.count = count
      BY <1>5, <1>8
    <3>3. ASSUME f.whole, IsContiguous(f), count = Size(f)
          PROVE  r.crc = DiskSum(r)
      BY <1>6, <1>8, <3>2, <3>3, CheckSumAgrees
    <3> QED
      BY <2>1, <3>1, <3>2, <3>3 DEF Taken, DiskSum
  <2> QED
    BY <2>2, <2>3
<1>18. DiskOK'
  BY DEF UmbrIInv, DiskOK, Install
<1>19. MadeOK'
  BY <1>1, <1>3, <1>15, <1>17 DEF MadeOK, Install
<1>20. BootOK' /\ FirstGoodBoots'
  BY <1>3, BootFrame DEF Install
<1> QED
  BY <1>16, <1>18, <1>19, <1>20 DEF UmbrIInv

LEMMA AddPartitionKeeps == UmbrIInv /\ AddPartition => UmbrIInv'
<1> SUFFICES ASSUME UmbrIInv, AddPartition PROVE UmbrIInv'
  OBVIOUS
<1>1. umbr \in [1 .. 4 -> Record] /\ \A k \in 1 .. 4 : Filled(umbr[k])
  BY DEF UmbrIInv, InstallerOK
<1>2. part # 0 => disk[part] \in Words /\ part \in Nat
  BY DEF UmbrIInv, DiskOK
<1>3. /\ umbr' \in [1 .. 4 -> Record] /\ \A k \in 1 .. 4 : Filled(umbr'[k])
      /\ \A j \in 1 .. 4 : (j = 3 => part = 0) => umbr'[j] = umbr[j]
  <2>1. CASE UNCHANGED umbr
    BY <1>1, <2>1
  <2>2. CASE /\ part # 0
             /\ umbr' = [umbr EXCEPT ![3] = [crc |-> disk[part], count |-> 1,
                                            addr |-> PbrAddr, lba |-> part]]
    <3>1. PICK r : r = [crc |-> disk[part], count |-> 1, addr |-> PbrAddr, lba |-> part]
      OBVIOUS
    <3>2. r \in Record /\ Filled(r)
      BY <1>2, <2>2, <3>1, UmbrAssumption DEF Record, Filled
    <3>3. umbr' = [umbr EXCEPT ![3] = r]
      BY <2>2, <3>1
    <3> QED
      BY <1>1, <2>2, <3>2, <3>3
  <2> QED
    BY <2>1, <2>2 DEF AddPartition
<1>4. InstallerOK'
  <2>1. \A k \in 1 .. 4 : Filled(umbr[k])' /\ Filled(mbr[k])'
    BY <1>3 DEF UmbrIInv, InstallerOK, AddPartition, Filled
  <2> QED
    BY <1>3, <2>1 DEF UmbrIInv, InstallerOK, AddPartition
<1>5. ASSUME NEW j \in 1 .. Len(made), j = 3 => part = 0
      PROVE  Taken(made[j].file, made[j].count, umbr[j])'
  <2>1. Taken(made[j].file, made[j].count, umbr[j])
    BY <1>5 DEF UmbrIInv, MadeOK
  <2>2. j \in 1 .. 4
    BY DEF UmbrIInv, InstallerOK
  <2>3. umbr'[j] = umbr[j] /\ UNCHANGED <<made, changed, disk>>
    BY <1>3, <1>5, <2>2 DEF AddPartition
  <2> QED
    BY <2>1, <2>3 DEF Taken, DiskSum
<1>6. MadeOK'
  BY <1>5 DEF MadeOK, AddPartition
<1>7. DiskOK'
  BY DEF UmbrIInv, DiskOK, AddPartition
<1>8. BootOK' /\ FirstGoodBoots'
  BY BootFrame DEF AddPartition
<1> QED
  BY <1>4, <1>6, <1>7, <1>8 DEF UmbrIInv

LEMMA WriteMbrKeeps == UmbrIInv /\ WriteMbr => UmbrIInv'
<1> SUFFICES ASSUME UmbrIInv, WriteMbr PROVE UmbrIInv'
  OBVIOUS
<1>1. InstallerOK'
  BY DEF UmbrIInv, InstallerOK, WriteMbr, Filled
<1>2. DiskOK'
  BY DEF UmbrIInv, DiskOK, WriteMbr
<1>3. MadeOK'
  BY DEF UmbrIInv, MadeOK, WriteMbr, Taken, DiskSum
<1>4. BootOK' /\ FirstGoodBoots'
  <2>1. UNCHANGED boot
    BY DEF WriteMbr
  <2> QED
    BY <2>1, BootFrame DEF WriteMbr
<1> QED
  BY <1>1, <1>2, <1>3, <1>4 DEF UmbrIInv

LEMMA ChangeDiskKeeps ==
    ASSUME UmbrIInv, NEW s \in DOMAIN disk, NEW w \in Words, ChangeDisk(s, w)
    PROVE  UmbrIInv'
<1>1. InstallerOK'
  BY DEF UmbrIInv, InstallerOK, ChangeDisk, install, Filled
<1>2. DiskOK'
  BY DEF UmbrIInv, DiskOK, ChangeDisk, install
<1>3. MadeOK'
  BY DEF UmbrIInv, MadeOK, ChangeDisk, install, Taken
<1>4. BootOK' /\ FirstGoodBoots'
  BY BootFrame DEF ChangeDisk
<1> QED
  BY <1>1, <1>2, <1>3, <1>4 DEF UmbrIInv

-----------------------------------------------------------------------------
(***************************************************************************)
(* The boot code.                                                          *)
(***************************************************************************)

\* It changes nothing the installer made.
LEMMA InstallFrame ==
    ASSUME UmbrIInv, UNCHANGED <<disk, install, changed>>,
           pc \notin {"file", "part", "write"}, pc' \notin {"file", "part", "write"}
    PROVE  DiskOK' /\ InstallerOK' /\ MadeOK'
<1>1. InstallerOK'
  BY DEF UmbrIInv, InstallerOK, install, Filled
<1>2. DiskOK'
  BY DEF UmbrIInv, DiskOK, install
<1>3. MadeOK'
  BY DEF UmbrIInv, MadeOK, install, Taken, DiskSum
<1> QED
  BY <1>1, <1>2, <1>3

LEMMA PowerOnKeeps == UmbrIInv /\ PowerOn => UmbrIInv'
<1> SUFFICES ASSUME UmbrIInv, PowerOn PROVE UmbrIInv'
  OBVIOUS
<1>1. DiskOK' /\ InstallerOK' /\ MadeOK'
  BY InstallFrame DEF PowerOn
<1>2. recs' = mbr /\ mbr' = mbr /\ pc' = "try" /\ si' = 1
  BY DEF PowerOn, install
<1>3. mbr \in [1 .. 4 -> Record]
  BY DEF UmbrIInv, InstallerOK
<1>4. mbr \in [1 .. 4 -> MemRecord]
  BY <1>3, UmbrAssumption DEF Record, MemRecord, PbrAddr, FileAddr
<1>5. mem' \in [0 .. MaxBlocks -> Words]
  BY DEF UmbrIInv, BootOK, PowerOn, Zero, Words
<1>6. BootOK'
  BY <1>2, <1>4, <1>5 DEF UmbrIInv, BootOK, PowerOn, Kept
<1>7. FirstGoodBoots'
  BY <1>2 DEF FirstGoodBoots
<1> QED
  BY <1>1, <1>6, <1>7 DEF UmbrIInv

\* A record is given up: it is empty, could not be read, or has another checksum.
LEMMA GivenUp ==
    ASSUME UmbrIInv, UNCHANGED <<disk, install>>, NextRecord, si \in 1 .. 4,
           failed \subseteq failed',
           mbr[si].crc = Zero \/ si \in failed' \/ DiskSum(mbr[si]) # mbr[si].crc
    PROVE  FirstGoodBoots'
<1>1. ASSUME NEW j \in 1 .. si' - 1
      PROVE  mbr[j].crc = Zero \/ j \in failed' \/ DiskSum(mbr[j]) # mbr[j].crc
  <2>1. CASE j = si
    BY <2>1
  <2>2. CASE j # si
    <3>1. j \in 1 .. si - 1
      BY <2>2 DEF NextRecord
    <3> QED
      BY <3>1 DEF UmbrIInv, FirstGoodBoots
  <2> QED
    BY <2>1, <2>2
<1>2. mbr' = mbr /\ disk' = disk /\ pc' # "booted"
  BY DEF install, NextRecord
<1> QED
  BY <1>1, <1>2 DEF FirstGoodBoots, DiskSum

LEMMA SkipEmptyKeeps == UmbrIInv /\ SkipEmpty => UmbrIInv'
<1> SUFFICES ASSUME UmbrIInv, SkipEmpty PROVE UmbrIInv'
  OBVIOUS
<1>1. pc' = "key"
  BY DEF SkipEmpty, NextRecord
<1>2. DiskOK' /\ InstallerOK' /\ MadeOK'
  BY <1>1, InstallFrame DEF SkipEmpty
<1>3. si \in 1 .. 4 /\ mbr[si].crc = Zero
  BY DEF UmbrIInv, BootOK, SkipEmpty
<1>4. FirstGoodBoots'
  BY <1>3, GivenUp DEF SkipEmpty
<1>5. BootOK'
  <2>1. /\ si' = si + 1 /\ pc' = "key"
        /\ UNCHANGED <<recs, stack, cx, mem, mbr>>
    BY DEF SkipEmpty, NextRecord, install
  <2>2. (\A k \in 1 .. 4 : Kept(k)) /\ \A k \in si .. 4 : recs[k].crc = mbr[k].crc
    BY DEF UmbrIInv, BootOK, SkipEmpty
  <2>3. \A k \in 1 .. 4 : Kept(k)'
    BY <2>1, <2>2 DEF Kept
  <2>4. \A k \in si' .. 4 : recs'[k].crc = mbr'[k].crc
    BY <1>3, <2>1, <2>2
  <2>5. si' \in 1 .. 5
    BY <1>3, <2>1
  <2> QED
    BY <1>1, <2>1, <2>3, <2>4, <2>5 DEF UmbrIInv, BootOK
<1> QED
  BY <1>2, <1>4, <1>5 DEF UmbrIInv

LEMMA PressKeyKeeps == UmbrIInv /\ PressKey => UmbrIInv'
<1> SUFFICES ASSUME UmbrIInv, PressKey PROVE UmbrIInv'
  OBVIOUS
<1>1. /\ pc = "key" /\ pc' \in {"try", "error"} /\ UNCHANGED boot /\ UNCHANGED mbr
      /\ (pc' = "try" => si # 5) /\ (pc' = "error" => si = 5)
  BY DEF PressKey, install
<1>2. DiskOK' /\ InstallerOK' /\ MadeOK'
  BY <1>1, InstallFrame DEF PressKey
<1>3. si \in 1 .. 5 /\ (si # 5 => si < 5)
  BY DEF UmbrIInv, BootOK
<1>4. BootOK'
  BY <1>1, <1>3 DEF UmbrIInv, BootOK, Kept, boot
<1>5. FirstGoodBoots'
  BY <1>1 DEF UmbrIInv, FirstGoodBoots, DiskSum, boot, PressKey
<1> QED
  BY <1>2, <1>4, <1>5 DEF UmbrIInv

LEMMA StartReadKeeps == UmbrIInv /\ StartRead => UmbrIInv'
<1> SUFFICES ASSUME UmbrIInv, StartRead PROVE UmbrIInv'
  OBVIOUS
<1>1. DiskOK' /\ InstallerOK' /\ MadeOK'
  BY InstallFrame DEF StartRead
<1>2. /\ pc' = "read" /\ stack' = recs[si] /\ cx' = recs[si].count
      /\ UNCHANGED <<recs, si, mem, mbr, disk, failed>>
  BY DEF StartRead, install
<1>3. /\ si \in 1 .. 4 /\ recs \in [1 .. 4 -> MemRecord]
      /\ (\A k \in 1 .. 4 : Kept(k)) /\ \A k \in si .. 4 : recs[k].crc = mbr[k].crc
  BY DEF UmbrIInv, BootOK, StartRead
<1>4. mbr[si] \in Record /\ Filled(mbr[si])
  BY <1>3 DEF UmbrIInv, InstallerOK
<1>5. recs[si] = mbr[si]
  <2>1. PICK r \in MemRecord : r = recs[si]
    BY <1>3
  <2>2. PICK m \in Record : m = mbr[si]
    BY <1>4
  <2>3. r.crc = m.crc /\ r.count = m.count /\ r.addr = m.addr /\ r.lba = m.lba
    BY <1>3, <2>1, <2>2 DEF Kept
  <2>4. r = m
    BY <2>3 DEF MemRecord, Record
  <2> QED
    BY <2>1, <2>2, <2>4
<1>6. mbr[si].count \in 0 .. MaxBlocks /\ mbr[si].count > 0
  BY <1>4, <1>5 DEF Record, Filled, StartRead
<1>7. Reading'
  <2>1. PICK n \in 0 .. MaxBlocks : n = mbr[si].count
    BY <1>6
  <2>2. n \in Nat \ {0}
    BY <1>6, <2>1, UmbrAssumption
  <2>3. cx' = n /\ stack'.count = n /\ recs'[si'] = stack'
    BY <1>2, <1>5, <2>1
  <2>4. stack'.lba \in Nat /\ stack'.addr \in Nat
    BY <1>2, <1>3 DEF MemRecord
  <2> QED
    BY <2>2, <2>3, <2>4 DEF Reading, InMemory
<1>8. BootOK'
  <2>1. cx' \in 0 .. MaxBlocks /\ stack' \in Record /\ stack' = mbr[si]
    BY <1>2, <1>4, <1>5, <1>6
  <2>2. \A k \in 1 .. 4 : Kept(k)'
    BY <1>2, <1>3 DEF Kept
  <2>3. \A k \in si + 1 .. 4 : recs[k].crc = mbr[k].crc
    BY <1>3
  <2> QED
    BY <1>2, <1>3, <1>7, <2>1, <2>2, <2>3 DEF UmbrIInv, BootOK
<1>9. FirstGoodBoots'
  BY <1>2 DEF UmbrIInv, FirstGoodBoots, DiskSum
<1> QED
  BY <1>1, <1>8, <1>9 DEF UmbrIInv

\* What readdisk knows while it reads.
LEMMA WhileReading ==
    ASSUME UmbrIInv, pc = "read"
    PROVE  /\ si \in 1 .. 4 /\ recs \in [1 .. 4 -> MemRecord] /\ stack \in Record
           /\ cx \in Nat \ {0} /\ cx =< stack.count
           /\ stack.count \in Nat /\ stack.lba \in Nat /\ stack.addr \in 0 .. 1
           /\ stack.addr + stack.count =< MaxBlocks + 1
           /\ stack = mbr[si]
<1>1. /\ si \in 1 .. 4 /\ recs \in [1 .. 4 -> MemRecord] /\ stack \in Record
      /\ cx \in 1 .. stack.count /\ stack = mbr[si]
  BY DEF UmbrIInv, BootOK, Reading
<1>2. stack.count \in 0 .. MaxBlocks /\ stack.lba \in Nat /\ stack.addr \in 0 .. 1
  BY <1>1 DEF Record, PbrAddr, FileAddr
<1> QED
  BY <1>1, <1>2, UmbrAssumption

\* After readdisk the record is as before, but its checksum.
LEMMA RestoredKept ==
    ASSUME UmbrIInv, pc = "read", recs' = Restored, mbr' = mbr
    PROVE  /\ recs' \in [1 .. 4 -> MemRecord]
           /\ \A k \in 1 .. 4 : Kept(k)'
           /\ \A k \in si + 1 .. 4 : recs'[k].crc = mbr'[k].crc
<1>1. /\ si \in 1 .. 4 /\ recs \in [1 .. 4 -> MemRecord] /\ stack \in Record
      /\ stack = mbr[si]
  BY WhileReading
<1>2. /\ Restored \in [1 .. 4 -> MemRecord]
      /\ Restored[si].count = stack.count /\ Restored[si].addr = stack.addr
      /\ Restored[si].lba = stack.lba
      /\ \A k \in 1 .. 4 : k # si => Restored[k] = recs[k]
  BY <1>1, RestoredFields
<1>3. /\ \A k \in si + 1 .. 4 : recs[k].crc = mbr[k].crc
      /\ \A k \in 1 .. 4 : k # si => Kept(k)
  BY DEF UmbrIInv, BootOK
<1>4. ASSUME NEW k \in 1 .. 4 PROVE Kept(k)'
  BY <1>1, <1>2, <1>3 DEF Kept
<1>5. ASSUME NEW k \in si + 1 .. 4 PROVE recs'[k].crc = mbr'[k].crc
  <2>1. k \in 1 .. 4 /\ k # si
    BY <1>1
  <2> QED
    BY <1>2, <1>3, <2>1
<1> QED
  BY <1>2, <1>4, <1>5

LEMMA ReadFailsKeeps == UmbrIInv /\ ReadFails => UmbrIInv'
<1> SUFFICES ASSUME UmbrIInv, ReadFails PROVE UmbrIInv'
  OBVIOUS
<1>1. pc = "read" /\ pc' = "key"
  BY DEF ReadFails, NextRecord
<1>2. DiskOK' /\ InstallerOK' /\ MadeOK'
  BY <1>1, InstallFrame DEF ReadFails
<1>3. si \in 1 .. 4
  BY <1>1, WhileReading
<1>4. FirstGoodBoots'
  BY <1>3, GivenUp DEF ReadFails
<1>5. BootOK'
  <2>1. /\ si' = si + 1 /\ pc' = "key"
        /\ UNCHANGED <<stack, cx, mem, mbr>> /\ recs' = Restored
    BY DEF ReadFails, NextRecord, install
  <2>2. /\ recs' \in [1 .. 4 -> MemRecord]
        /\ \A k \in 1 .. 4 : Kept(k)'
        /\ \A k \in si' .. 4 : recs'[k].crc = mbr'[k].crc
    BY <1>1, <2>1, RestoredKept
  <2>3. si' \in 1 .. 5
    BY <1>3, <2>1
  <2> QED
    BY <1>1, <2>1, <2>2, <2>3 DEF UmbrIInv, BootOK
<1> QED
  BY <1>2, <1>4, <1>5 DEF UmbrIInv

\* What is summed up when the file is read.
LEMMA WhileSumming ==
    ASSUME UmbrIInv, pc = "sum"
    PROVE  /\ si \in 1 .. 4 /\ mbr[si].count \in Nat /\ stack = mbr[si]
           /\ MemSum(recs[si]) = DiskSum(mbr[si])
<1>1. si \in 1 .. 4 /\ stack = mbr[si] /\ InMemory(mbr[si], mbr[si].count) /\ Kept(si)
  BY DEF UmbrIInv, BootOK
<1>2. mbr[si] \in Record
  BY <1>1 DEF UmbrIInv, InstallerOK
<1>3. mbr[si].count \in Nat
  BY <1>2, UmbrAssumption DEF Record
<1>4. MemSum(recs[si]) = MemSum(mbr[si])
  BY <1>1 DEF Kept, MemSum
<1>5. MemSum(mbr[si]) = DiskSum(mbr[si])
  BY <1>1, <1>3, SumsAgree
<1> QED
  BY <1>1, <1>3, <1>4, <1>5

LEMMA MismatchKeeps == UmbrIInv /\ Mismatch => UmbrIInv'
<1> SUFFICES ASSUME UmbrIInv, Mismatch PROVE UmbrIInv'
  OBVIOUS
<1>1. pc = "sum" /\ pc' = "key"
  BY DEF Mismatch, NextRecord
<1>2. DiskOK' /\ InstallerOK' /\ MadeOK'
  BY <1>1, InstallFrame DEF Mismatch
<1>3. si \in 1 .. 4 /\ DiskSum(mbr[si]) # mbr[si].crc
  BY <1>1, WhileSumming DEF Mismatch, Matches
<1>4. FirstGoodBoots'
  BY <1>3, GivenUp DEF Mismatch
<1>5. BootOK'
  <2>1. /\ si' = si + 1 /\ pc' = "key"
        /\ UNCHANGED <<recs, stack, cx, mem, mbr>>
    BY DEF Mismatch, NextRecord, install
  <2>2. (\A k \in 1 .. 4 : Kept(k)) /\ \A k \in si + 1 .. 4 : recs[k].crc = mbr[k].crc
    BY <1>1 DEF UmbrIInv, BootOK
  <2>3. \A k \in 1 .. 4 : Kept(k)'
    BY <2>1, <2>2 DEF Kept
  <2>4. \A k \in si' .. 4 : recs'[k].crc = mbr'[k].crc
    BY <2>1, <2>2
  <2>5. si' \in 1 .. 5
    BY <1>3, <2>1
  <2> QED
    BY <1>1, <2>1, <2>3, <2>4, <2>5 DEF UmbrIInv, BootOK
<1> QED
  BY <1>2, <1>4, <1>5 DEF UmbrIInv

LEMMA JumpKeeps == UmbrIInv /\ Jump => UmbrIInv'
<1> SUFFICES ASSUME UmbrIInv, Jump PROVE UmbrIInv'
  OBVIOUS
<1>1. /\ pc = "sum" /\ pc' = "booted"
      /\ UNCHANGED <<disk, si, recs, cx, stack, mem, failed, mbr>>
  BY DEF Jump, install
<1>2. DiskOK' /\ InstallerOK' /\ MadeOK'
  BY <1>1, InstallFrame DEF Jump
<1>3. /\ si \in 1 .. 4 /\ DiskSum(mbr[si]) = mbr[si].crc
      /\ InMemory(mbr[si], mbr[si].count) /\ Kept(si)
  BY <1>1, WhileSumming DEF Jump, Matches, UmbrIInv, BootOK
<1>4. mbr[si].addr = PbrAddr => hidden' = mbr[si].lba
  BY <1>3 DEF Jump, Kept
<1>5. BootOK'
  BY <1>1, <1>3 DEF UmbrIInv, BootOK, Kept
<1>6. FirstGoodBoots'
  BY <1>1, <1>3, <1>4 DEF UmbrIInv, FirstGoodBoots, DiskSum, InMemory
<1> QED
  BY <1>2, <1>5, <1>6 DEF UmbrIInv

\* The sectors of a call follow those that were read.
LEMMA ChunkInMemory ==
    ASSUME UmbrIInv, NEW got \in 1 .. Chunk, ReadChunk(got), got =< cx,
           NEW n, n = stack.count - (cx - got)
    PROVE  InMemory(stack, n)' /\ mem' \in [0 .. MaxBlocks -> Words]
<1>1. /\ si \in 1 .. 4 /\ recs \in [1 .. 4 -> MemRecord] /\ stack \in Record
      /\ cx \in Nat \ {0} /\ cx =< stack.count
      /\ stack.count \in Nat /\ stack.lba \in Nat /\ stack.addr \in 0 .. 1
      /\ stack.addr + stack.count =< MaxBlocks + 1
  BY WhileReading DEF ReadChunk
<1>2. PICK done \in Nat : done = stack.count - cx
  BY <1>1
<1>3. /\ recs[si].lba = stack.lba + done /\ recs[si].addr = stack.addr + done
      /\ InMemory(stack, done) /\ mem \in [0 .. MaxBlocks -> Words]
  BY <1>2 DEF UmbrIInv, BootOK, Reading, ReadChunk
<1>4. PICK from \in Nat : from = stack.lba + done
  BY <1>1
<1>5. PICK to \in Nat : to = stack.addr + done
  BY <1>1
<1>6. Packet.lba = from /\ Packet.addr = to
  BY <1>1, <1>3, <1>4, <1>5, PacketFields
<1>7. mem' = [a \in 0 .. MaxBlocks |-> IF a \in to .. to + got - 1
                                       THEN disk[from + (a - to)] ELSE mem[a]]
  BY <1>3, <1>6 DEF ReadChunk
<1>8. \A k \in 0 .. got - 1 : from + k \in DOMAIN disk
  BY <1>6 DEF ReadChunk
<1>9. got \in Nat \ {0} /\ MaxBlocks \in Nat
  BY UmbrAssumption
<1>10. mem' \in [0 .. MaxBlocks -> Words]
  <2>1. ASSUME NEW a \in 0 .. MaxBlocks, a \in to .. to + got - 1
        PROVE  disk[from + (a - to)] \in Words
    <3>1. a - to \in 0 .. got - 1
      BY <1>5, <1>9, <2>1
    <3> QED
      BY <1>8, <3>1 DEF UmbrIInv, DiskOK
  <2> QED
    BY <1>3, <1>7, <2>1
<1>11. UNCHANGED <<stack, disk>>
  BY DEF ReadChunk
<1>12. n = done + got
  BY <1>1, <1>2, <1>9
<1>13. ASSUME NEW a \in 0 .. done + got - 1
       PROVE  mem'[stack.addr + a] = disk[stack.lba + a]
  <2>1. a \in Nat /\ a < done + got
    BY <1>9
  <2>2. stack.addr + a \in 0 .. MaxBlocks
    BY <1>1, <1>2, <1>9, <2>1
  <2>3. CASE a < done
    <3>1. a \in 0 .. done - 1
      BY <2>1, <2>3
    <3>2. mem[stack.addr + a] = disk[stack.lba + a]
      BY <1>3, <3>1 DEF InMemory
    <3>3. stack.addr + a < to
      BY <1>1, <1>5, <2>1, <2>3
    <3>4. stack.addr + a \notin to .. to + got - 1
      BY <3>3
    <3> QED
      BY <1>7, <2>2, <3>2, <3>4
  <2>4. CASE a >= done
    <3>1. stack.addr + a \in to .. to + got - 1
      BY <1>1, <1>5, <1>9, <2>1, <2>4
    <3>2. from + ((stack.addr + a) - to) = stack.lba + a
      BY <1>1, <1>4, <1>5, <2>1
    <3> QED
      BY <1>7, <2>2, <3>1, <3>2
  <2> QED
    BY <2>1, <2>3, <2>4
<1> QED
  BY <1>10, <1>11, <1>12, <1>13 DEF InMemory

LEMMA ReadChunkKeeps ==
    ASSUME UmbrIInv, NEW got \in 1 .. Chunk, ReadChunk(got)
    PROVE  UmbrIInv'
<1>1. pc = "read" /\ pc' \in {"read", "sum"}
  BY DEF ReadChunk
<1>2. DiskOK' /\ InstallerOK' /\ MadeOK'
  BY <1>1, InstallFrame DEF ReadChunk
<1>3. /\ si \in 1 .. 4 /\ recs \in [1 .. 4 -> MemRecord] /\ stack \in Record
      /\ cx \in Nat \ {0} /\ cx =< stack.count
      /\ stack.count \in Nat /\ stack.lba \in Nat /\ stack.addr \in 0 .. 1
      /\ stack.addr + stack.count =< MaxBlocks + 1
      /\ stack = mbr[si]
  BY <1>1, WhileReading
<1>4. got \in Nat \ {0} /\ got =< cx
  BY <1>3, PacketFields, UmbrAssumption DEF ReadChunk
<1>5. cx' = cx - got /\ UNCHANGED <<si, stack, mbr, failed, disk>>
  BY DEF ReadChunk, Got, install
<1>6. PICK n \in Nat : n = stack.count - (cx - got)
  BY <1>3, <1>4
<1>7. InMemory(stack, n)' /\ mem' \in [0 .. MaxBlocks -> Words]
  BY <1>4, <1>6, ChunkInMemory
<1>8. cx' \in 0 .. MaxBlocks /\ cx' =< stack.count
  BY <1>3, <1>4, <1>5, UmbrAssumption DEF Record
<1>9. FirstGoodBoots'
  BY <1>1, <1>5 DEF UmbrIInv, FirstGoodBoots, DiskSum
<1>10. BootOK'
  <2>1. CASE cx' > 0
    <3>1. pc' = "read" /\ recs' = [recs EXCEPT ![si] = Onward(got)]
      BY <1>1, <2>1 DEF ReadChunk, Got
    <3>2. /\ Onward(got) \in MemRecord
          /\ Onward(got).addr = recs[si].addr + got
          /\ Onward(got).lba = recs[si].lba + got
      BY <1>3, <1>4, OnwardFields
    <3>3. /\ recs' \in [1 .. 4 -> MemRecord] /\ recs'[si] = Onward(got)
          /\ \A k \in 1 .. 4 : k # si => recs'[k] = recs[k]
      BY <1>3, <3>1, <3>2
    <3>4. /\ recs[si].lba = stack.lba + (stack.count - cx)
          /\ recs[si].addr = stack.addr + (stack.count - cx)
          /\ \A k \in 1 .. 4 : k # si => Kept(k)
          /\ \A k \in si + 1 .. 4 : recs[k].crc = mbr[k].crc
      BY <1>1 DEF UmbrIInv, BootOK, Reading
    <3>5. cx' \in 1 .. stack.count
      BY <1>3, <1>4, <1>5, <2>1
    <3>6. recs'[si].lba = stack.lba + (stack.count - cx')
      BY <1>3, <1>4, <1>5, <3>2, <3>3, <3>4
    <3>7. recs'[si].addr = stack.addr + (stack.count - cx')
      BY <1>3, <1>4, <1>5, <3>2, <3>3, <3>4
    <3>8. n = stack'.count - cx'
      BY <1>3, <1>4, <1>5, <1>6
    <3>9. Reading'
      BY <1>5, <1>7, <3>5, <3>6, <3>7, <3>8 DEF Reading, InMemory
    <3>10. \A k \in 1 .. 4 : k # si => Kept(k)'
      BY <1>5, <3>3, <3>4 DEF Kept
    <3>11. \A k \in si + 1 .. 4 : recs'[k].crc = mbr'[k].crc
      <4>1. \A k \in si + 1 .. 4 : k \in 1 .. 4 /\ k # si
        BY <1>3
      <4> QED
        BY <1>5, <3>3, <3>4, <4>1
    <3> QED
      BY <1>3, <1>5, <1>7, <1>8, <3>1, <3>3, <3>9, <3>10, <3>11 DEF BootOK
  <2>2. CASE ~(cx' > 0)
    <3>1. pc' = "sum" /\ recs' = Restored
      BY <2>2 DEF ReadChunk
    <3>2. /\ recs' \in [1 .. 4 -> MemRecord]
          /\ \A k \in 1 .. 4 : Kept(k)'
          /\ \A k \in si + 1 .. 4 : recs'[k].crc = mbr'[k].crc
      BY <1>1, <1>5, <3>1, RestoredKept
    <3>3. n = mbr[si].count
      <4>1. cx = got
        BY <1>3, <1>4, <1>5, <2>2
      <4> QED
        BY <1>3, <1>6, <4>1
    <3>4. InMemory(mbr[si], mbr[si].count)'
      BY <1>3, <1>5, <1>7, <3>3 DEF InMemory
    <3> QED
      BY <1>3, <1>5, <1>7, <1>8, <3>1, <3>2, <3>4 DEF BootOK
  <2> QED
    BY <2>1, <2>2
<1> QED
  BY <1>2, <1>9, <1>10 DEF UmbrIInv

-----------------------------------------------------------------------------
(***************************************************************************)
(* The theorems.                                                           *)
(***************************************************************************)

LEMMA UmbrNext == UmbrIInv /\ [Next]_vars => UmbrIInv'
<1> SUFFICES ASSUME UmbrIInv, [Next]_vars PROVE UmbrIInv'
  OBVIOUS
<1>1. CASE InstallStep
  <2>1. CASE SkipFile
    BY <2>1, SkipFileKeeps
  <2>2. CASE HalfRecord
    BY <2>2, HalfRecordKeeps
  <2>3. CASE AddPartition
    BY <2>3, AddPartitionKeeps
  <2>4. CASE WriteMbr
    BY <2>4, WriteMbrKeeps
  <2>5. CASE \E count \in 1 .. MaxBlocks, stray \in Words : Install(count, stray)
    BY <2>5, InstallKeeps
  <2> QED
    BY <1>1, <2>1, <2>2, <2>3, <2>4, <2>5 DEF InstallStep
<1>2. CASE BootStep
  <2>1. CASE SkipEmpty
    BY <2>1, SkipEmptyKeeps
  <2>2. CASE StartRead
    BY <2>2, StartReadKeeps
  <2>3. CASE ReadFails
    BY <2>3, ReadFailsKeeps
  <2>4. CASE Jump
    BY <2>4, JumpKeeps
  <2>5. CASE Mismatch
    BY <2>5, MismatchKeeps
  <2>6. CASE \E got \in 1 .. Chunk : ReadChunk(got)
    BY <2>6, ReadChunkKeeps
  <2> QED
    BY <1>2, <2>1, <2>2, <2>3, <2>4, <2>5, <2>6 DEF BootStep
<1>3. CASE PowerOn
  BY <1>3, PowerOnKeeps
<1>6. CASE PressKey
  BY <1>6, PressKeyKeeps
<1>4. CASE \E s \in DOMAIN disk, w \in Words : ChangeDisk(s, w)
  BY <1>4, ChangeDiskKeeps
<1>5. CASE Stop \/ UNCHANGED vars
  <2>1. UNCHANGED vars
    BY <1>5 DEF Stop
  <2>2. DiskOK' /\ InstallerOK'
    BY <2>1 DEF vars, UmbrIInv, DiskOK, InstallerOK, Filled
  <2>3. MadeOK'
    BY <2>1 DEF vars, UmbrIInv, MadeOK, Taken, DiskSum
  <2>4. BootOK'
    BY <2>1 DEF vars, UmbrIInv, BootOK, Kept, Reading, InMemory
  <2>5. FirstGoodBoots'
    BY <2>1 DEF vars, UmbrIInv, FirstGoodBoots, DiskSum
  <2> QED
    BY <2>2, <2>3, <2>4, <2>5 DEF UmbrIInv
<1> QED
  BY <1>1, <1>2, <1>3, <1>4, <1>5, <1>6 DEF Next

LEMMA BootFollows == UmbrIInv => BootInv
<1> SUFFICES ASSUME UmbrIInv PROVE BootInv
  OBVIOUS
<1>1. TypeOK
  <2>1. pc = "read" => cx > 0 /\ Packet.addr + cx - 1 =< MaxBlocks
    <3> SUFFICES ASSUME pc = "read" PROVE cx > 0 /\ Packet.addr + cx - 1 =< MaxBlocks
      OBVIOUS
    <3>1. /\ si \in 1 .. 4 /\ recs \in [1 .. 4 -> MemRecord]
          /\ cx \in Nat \ {0} /\ cx =< stack.count
          /\ stack.count \in Nat /\ stack.addr \in 0 .. 1
          /\ stack.addr + stack.count =< MaxBlocks + 1
      BY WhileReading
    <3>2. Packet.addr = stack.addr + (stack.count - cx)
      BY <3>1, PacketFields DEF UmbrIInv, BootOK, Reading
    <3> QED
      BY <3>1, <3>2, UmbrAssumption
  <2> QED
    BY <2>1 DEF UmbrIInv, InstallerOK, BootOK, TypeOK
<1>2. RecordsKept
  <2> SUFFICES ASSUME pc \in {"try", "sum", "key", "booted", "error"}, NEW k \in 1 .. 4
               PROVE  [recs[k] EXCEPT !.crc = Zero] = [mbr[k] EXCEPT !.crc = Zero]
    BY DEF RecordsKept
  <2>1. Kept(k)
    BY DEF UmbrIInv, BootOK
  <2>2. PICK r \in MemRecord : r = recs[k]
    BY DEF UmbrIInv, BootOK
  <2>3. PICK m \in Record : m = mbr[k]
    BY DEF UmbrIInv, InstallerOK
  <2>4. r.count = m.count /\ r.addr = m.addr /\ r.lba = m.lba
    BY <2>1, <2>2, <2>3 DEF Kept
  <2>5. [r EXCEPT !.crc = Zero] = [m EXCEPT !.crc = Zero]
    BY <2>4 DEF MemRecord, Record
  <2> QED
    BY <2>2, <2>3, <2>5
<1> QED
  BY <1>1, <1>2 DEF UmbrIInv, BootInv

LEMMA FilesFollow == UmbrIInv => FileBoots
<1> SUFFICES ASSUME UmbrIInv, pc \in {"booted", "error"}, ~changed, failed = {},
                    NEW j \in Promised
             PROVE  /\ pc = "booted" /\ si =< j
                    /\ si = j => \A k \in 1 .. Size(made[j].file) :
                          mem[mbr[j].addr + k - 1] = disk[made[j].file.secs[k]]
  BY DEF FileBoots
<1>1. /\ j \in DOMAIN made /\ made[j].file.whole /\ IsContiguous(made[j].file)
      /\ made[j].count = Size(made[j].file)
      /\ mbr[j].crc # Zero /\ (j = 3 => part = 0)
  BY DEF Promised
<1>2. made \in Seq([file : FileType, count : Nat]) /\ Len(made) =< 3
  <2>1. dap \in 1 .. 4 /\ Len(made) = dap - 1
    BY DEF UmbrIInv, InstallerOK
  <2> QED
    BY <2>1 DEF UmbrIInv, InstallerOK
<1>3. j \in 1 .. Len(made) /\ j \in 1 .. 3 /\ made[j].count \in Nat
  <2> DEFINE Made == [file : FileType, count : Nat]
  <2>1. made \in Seq(Made)
    BY <1>2
  <2>2. j \in 1 .. Len(made)
    BY <1>1, <2>1
  <2>3. made[j] \in Made
    <3> HIDE DEF Made
    <3> QED
      BY <2>1, <2>2
  <2>4. made[j].count \in Nat
    BY <2>3
  <2> QED
    BY <1>2, <2>2, <2>4
<1>4. Taken(made[j].file, made[j].count, mbr[j])
  BY <1>1, <1>3 DEF UmbrIInv, MadeOK
<1>5. /\ mbr[j].lba = First(made[j].file) /\ mbr[j].count = Size(made[j].file)
      /\ mbr[j].crc = DiskSum(mbr[j])
  BY <1>1, <1>4 DEF Taken
<1>6. j \notin 1 .. si - 1
  BY <1>1, <1>5 DEF UmbrIInv, FirstGoodBoots
<1>7. si \in 1 .. 5 /\ si =< j
  BY <1>3, <1>6 DEF UmbrIInv, BootOK
<1>8. pc = "booted"
  BY <1>3, <1>7 DEF UmbrIInv, BootOK
<1>9. ASSUME si = j, NEW k \in 1 .. Size(made[j].file)
      PROVE  mem[mbr[j].addr + k - 1] = disk[made[j].file.secs[k]]
  <2>1. k - 1 \in 0 .. mbr[si].count - 1
    BY <1>1, <1>3, <1>5, <1>9
  <2>2. mem[mbr[si].addr + (k - 1)] = disk[mbr[si].lba + (k - 1)]
    BY <1>8, <2>1 DEF UmbrIInv, FirstGoodBoots
  <2>3. made[j].file.secs[k] = First(made[j].file) + k - 1
    BY <1>1 DEF IsContiguous
  <2> QED
    BY <1>5, <1>9, <2>2, <2>3
<1> QED
  BY <1>7, <1>8, <1>9

\* Whatever the disk, the files and the calls the BIOS cuts short or fails: what
\* readdisk changes in a record it puts back, a record is passed over only for a
\* reason, and of the one that runs memory holds every sector (umbr/umbr.S).
THEOREM FirstGoodRuns == Spec => []BootInv
<1>1. Spec => []UmbrIInv
  BY UmbrInit, UmbrNext, PTL DEF Spec
<1> QED
  BY <1>1, BootFollows, PTL

\* A file that the installer of g4dext/umbr.c took as it is boots, or a record before
\* it, on a disk that was not changed and can be read.
THEOREM InstalledBoots == Spec => []FileBoots
<1>1. Spec => []UmbrIInv
  BY UmbrInit, UmbrNext, PTL DEF Spec
<1> QED
  BY <1>1, FilesFollow, PTL
=============================================================================
