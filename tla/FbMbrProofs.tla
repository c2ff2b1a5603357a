----------------------------- MODULE FbMbrProofs -----------------------------
(***************************************************************************)
(* Proofs about the copies of the boot sector and the boot code on them,   *)
(* for every number of copies, every set of partition tables, boot codes   *)
(* and files, and every BIOS: the boot code of any copy finds the second   *)
(* stage, no command destroys an intact copy, a formatted disk can be      *)
(* restored from what others left alone, what a finished command promises  *)
(* of the copies holds, and where the sectors that tell the geometry were  *)
(* not overwritten the boot code counts as the BIOS does and loads the     *)
(* right sectors.                                                          *)
(***************************************************************************)
EXTENDS FbBoot, TLAPS

\* The copies are numbered from 0 to Base.
LEMMA CopyNumbers ==
    /\ 0 \in Copies /\ Base \in Copies
    /\ \A i \in Copies : i \in Nat /\ i =< Base
    /\ \A i \in Copies : i # Base => i + 1 \in Copies
    /\ \A i \in Copies : i # 0 => i - 1 \in Copies
  BY CopiesAssumption DEF Copies

\* The number of a sector is a byte.
LEMMA LbaIsByte == \A i \in Nat : Lba(i) \in 0 .. ByteValues - 1
  BY CopiesAssumption DEF Lba

\* A new image for a sector of the loop is a boot sector with that sector's number.
LEMMA NextImageOK ==
    ASSUME CopiesInv, Syncing
    PROVE  /\ IsSector(NextImage)
           /\ NextImage.magic
           /\ NextImage.lba = Lba(cur)
           /\ cur = 0 => NextImage.table = buf.table
<1>1. IsSector(buf) /\ cur \in Copies /\ buf.magic
  BY DEF CopiesInv, SectorsOK, LoopOK, BufferOK
<1>2. Lba(cur) \in 0 .. ByteValues - 1
  BY <1>1, CopyNumbers, LbaIsByte
<1> QED
  BY <1>1, <1>2 DEF IsSector, NextImage

\* A disk no fbinst has touched has no copy yet.
LEMMA CopiesInit == Init => CopiesInv
<1>. SUFFICES ASSUME Init PROVE CopiesInv
  OBVIOUS
<1>1. \A t : IsSector(Alien(t)) /\ ~Alien(t).magic
  BY CopiesAssumption DEF IsSector, Alien
<1>2. DOMAIN mbr = Copies /\ \A i \in Copies : \E t : mbr[i] = Alien(t)
  BY DEF Init
<1> QED
  BY <1>1, <1>2 DEF Init, CopiesInv, SectorsOK, LoopOK, BufferOK, NumbersOK, AloneOK, Syncing

\* A command that has begun has a sector to write and the right image for it.
LEMMA CopiesBegin ==
    ASSUME CopiesInv, NEW command, NEW image, NEW end \in Copies,
           Begin(command, image, end), IsSector(image),
           command \in {"format", "sync", "restore", "update"},
           command # "update" => image.magic,
           command \in {"sync", "restore"} => image.table = mbr[0].table,
           command = "format" => end = Base,
           command = "update" => head # NoCode
    PROVE  CopiesInv'
<1>1. SectorsOK' /\ NumbersOK'
  BY DEF Begin, CopiesInv, SectorsOK, NumbersOK
<1>2. LoopOK'
  BY CopyNumbers DEF Begin, LoopOK, Syncing
<1>3. BufferOK'
  BY DEF Begin, BufferOK, Syncing
<1>4. AloneOK'
  <2>1. /\ pc' = command /\ cur' = 0 /\ last' = end
        /\ UNCHANGED <<mbr, head, gone>>
    BY DEF Begin
  <2>2. \A i \in Copies : ~(i < 0)
    BY CopyNumbers
  <2> QED
    BY <2>1, <2>2 DEF CopiesInv, AloneOK, Intact
<1> QED
  BY <1>1, <1>2, <1>3, <1>4 DEF CopiesInv

\* Every command begins that way.
LEMMA CopiesCommand == ASSUME CopiesInv, Command PROVE CopiesInv'
<1>0. IsSector(mbr[0]) /\ 0 \in Copies /\ Base \in Copies
  BY CopyNumbers DEF CopiesInv, SectorsOK
<1>1. ASSUME NEW version \in Versions, NEW force \in BOOLEAN, FormatDisk(version, force)
      PROVE  CopiesInv'
  <2>. DEFINE image == [magic |-> TRUE, lba |-> 0, table |-> FormatTable(force),
                        code |-> version]
  <2>1. IsSector(image) /\ image.magic
    BY CopiesAssumption DEF IsSector
  <2>2. Begin("format", image, Base)
    BY <1>1 DEF FormatDisk
  <2>. HIDE DEF image
  <2> QED
    BY <1>0, <2>1, <2>2, CopiesBegin
<1>2. ASSUME SyncDisk
      PROVE  CopiesInv'
  <2>1. mbr[0].magic /\ Begin("sync", mbr[0], Base)
    BY <1>2 DEF SyncDisk, Readable
  <2> QED
    BY <1>0, <2>1, CopiesBegin
<1>3. ASSUME NEW version \in Versions, UpdateHeader(version)
      PROVE  CopiesInv'
  <2>. DEFINE image == [mbr[0] EXCEPT !.code = version]
  <2>1. IsSector(image) /\ head # NoCode
    BY <1>0, <1>3 DEF IsSector, UpdateHeader, Readable
  <2>2. Begin("update", image, Base)
    BY <1>3 DEF UpdateHeader
  <2>. HIDE DEF image
  <2> QED
    BY <1>0, <2>1, <2>2, CopiesBegin
<1>4. ASSUME RestoreDisk
      PROVE  CopiesInv'
  <2>1. PICK i \in Copies : Intact(i) /\ i > 0 /\ Begin("restore", RestoreImage(i), i - 1)
    BY <1>4 DEF RestoreDisk, Found
  <2>2. /\ IsSector(RestoreImage(i))
        /\ RestoreImage(i).magic
        /\ RestoreImage(i).table = mbr[0].table
    BY <2>1 DEF CopiesInv, SectorsOK, IsSector, RestoreImage, Intact
  <2>3. i - 1 \in Copies
    BY <2>1, CopyNumbers
  <2> QED
    BY <1>0, <2>1, <2>2, <2>3, CopiesBegin
<1> QED
  BY <1>1, <1>2, <1>3, <1>4 DEF Command

\* Every write keeps the copies numbered.
LEMMA CopiesStep == ASSUME CopiesInv, Step PROVE CopiesInv'
<1>1. CASE SyncWrite
  <2>1. /\ Syncing /\ cur \in Copies /\ last \in Copies /\ cur =< last
        /\ mbr' = [mbr EXCEPT ![cur] = NextImage] /\ buf' = NextImage /\ cur' = cur + 1
        /\ gone' = gone \ {cur} /\ UNCHANGED <<head, last>>
    BY <1>1 DEF CopiesInv, LoopOK, SyncWrite
  <2>2. mbr' = [i \in Copies |-> IF i = cur THEN NextImage ELSE mbr[i]]
    BY <2>1 DEF CopiesInv, SectorsOK
  <2>3. IsSector(NextImage) /\ NextImage.magic /\ NextImage.lba = Lba(cur)
    BY <2>1, NextImageOK
  <2>4. /\ cur < last => pc' = pc /\ cur + 1 \in Copies /\ cur + 1 =< last
        /\ ~(cur < last) => cur = last /\ pc' = IF pc = "format" THEN "format stage" ELSE "idle"
    <3>1. cur < last => cur + 1 \in Copies /\ cur + 1 =< last
      BY <2>1, CopiesAssumption DEF Copies
    <3>2. ~(cur < last) => cur = last
      BY <2>1, CopyNumbers
    <3> QED
      BY <1>1, <3>1, <3>2 DEF SyncWrite, Finish
  <2>5. SectorsOK' /\ NumbersOK'
    BY <2>1, <2>2, <2>3 DEF CopiesInv, SectorsOK, NumbersOK
  <2>6. LoopOK'
    BY <2>1, <2>4 DEF LoopOK, Syncing
  <2>7. BufferOK'
    <3>1. cur + 1 # 0
      BY <2>1, CopyNumbers
    <3> QED
      BY <2>1, <2>3, <2>4, <3>1 DEF BufferOK, Syncing
  <2>8. AloneOK'
    <3>1. \A i \in Copies : Intact(i)' <=> (i = cur \/ Intact(i))
      BY <2>1, <2>2, <2>3 DEF Intact
    <3>2. \A i \in Copies : i < cur + 1 => i < cur \/ i = cur
      BY <2>1, CopyNumbers
    <3>3. /\ gone' \subseteq Copies
          /\ \A i \in gone' : ~mbr'[i].magic
          /\ head' # NoCode => \A i \in Copies \ gone' : Intact(i)'
      BY <2>1, <2>2, <3>1 DEF CopiesInv, AloneOK
    <3>4. CASE cur < last
      BY <2>1, <2>4, <3>1, <3>2, <3>3, <3>4 DEF CopiesInv, AloneOK, Syncing
    <3>5. CASE ~(cur < last) /\ pc = "format"
      <4>1. last = Base /\ cur = Base
        BY <2>4, <3>5 DEF CopiesInv, AloneOK
      <4>2. \A i \in Copies : i < cur \/ i = cur
        BY <4>1, CopyNumbers, CopiesAssumption
      <4> QED
        BY <2>4, <3>1, <3>3, <3>5, <4>2 DEF CopiesInv, AloneOK
    <3>6. CASE ~(cur < last) /\ pc # "format"
      BY <2>4, <3>3, <3>6 DEF AloneOK
    <3> QED
      BY <3>4, <3>5, <3>6
  <2> QED
    BY <2>5, <2>6, <2>7, <2>8 DEF CopiesInv
<1>2. CASE FormatStage \/ FormatMarks
  <2>1. /\ UNCHANGED <<mbr, buf, last, gone>> /\ pc' \in {"format marks", "idle"}
        /\ pc = "format stage" \/ head' = head
    BY <1>2 DEF FormatStage, FormatMarks, Mark, Finish
  <2> QED
    BY <2>1 DEF CopiesInv, SectorsOK, LoopOK, BufferOK, NumbersOK, AloneOK, Intact, Syncing
<1>3. CASE UpdateWrite
  <2>1. /\ cur \in Copies /\ last \in Copies /\ cur =< last
        /\ mbr' = [mbr EXCEPT ![cur].code = buf.code] /\ cur' = cur + 1
        /\ UNCHANGED <<head, buf, last, gone>>
    BY <1>3 DEF CopiesInv, LoopOK, UpdateWrite
  <2>2. mbr' = [i \in Copies |-> IF i = cur THEN [mbr[cur] EXCEPT !.code = buf.code]
                                            ELSE mbr[i]]
    BY <2>1 DEF CopiesInv, SectorsOK
  <2>3. /\ IsSector(mbr'[cur]) /\ mbr'[cur].magic = mbr[cur].magic
        /\ mbr'[cur].lba = mbr[cur].lba
    BY <2>1, <2>2 DEF CopiesInv, SectorsOK, IsSector
  <2>4. SectorsOK' /\ NumbersOK'
    BY <2>1, <2>2, <2>3 DEF CopiesInv, SectorsOK, NumbersOK
  <2>5. \A i \in Copies : Intact(i)' <=> Intact(i)
    BY <2>1, <2>2, <2>3 DEF Intact
  <2>6. /\ cur < last => pc' = "update" /\ cur + 1 \in Copies /\ cur + 1 =< last
        /\ ~(cur < last) => pc' = "update stage"
    <3>1. cur < last => cur + 1 \in Copies /\ cur + 1 =< last
      BY <2>1, CopiesAssumption DEF Copies
    <3> QED
      BY <1>3, <3>1 DEF UpdateWrite
  <2>7. LoopOK' /\ BufferOK'
    BY <2>1, <2>6 DEF LoopOK, BufferOK, Syncing
  <2>8. AloneOK'
    <3>1. \A i \in Copies : mbr'[i].magic = mbr[i].magic
      BY <2>1, <2>2, <2>3
    <3> QED
      BY <1>3, <2>1, <2>5, <2>6, <3>1 DEF UpdateWrite, CopiesInv, AloneOK
  <2> QED
    BY <2>4, <2>7, <2>8 DEF CopiesInv
<1>4. CASE UpdateStage
  BY <1>4 DEF UpdateStage, Finish, CopiesInv, SectorsOK, LoopOK, BufferOK, NumbersOK,
              AloneOK, Intact, Syncing
<1> QED
  BY <1>1, <1>2, <1>3, <1>4 DEF Step

\* So does everything else that can happen to the disk.
LEMMA CopiesNext == CopiesInv /\ [Next]_vars => CopiesInv'
<1>. SUFFICES ASSUME CopiesInv, [Next]_vars PROVE CopiesInv'
  OBVIOUS
<1>1. CASE Interrupt
  BY <1>1 DEF Interrupt, CopiesInv, SectorsOK, LoopOK, BufferOK, NumbersOK,
              AloneOK, Intact, Syncing
<1>2. ASSUME NEW table \in Tables, Repartition(table) PROVE CopiesInv'
  <2>1. mbr' = [i \in Copies |-> IF i = 0 THEN [mbr[0] EXCEPT !.table = table] ELSE mbr[i]]
    BY <1>2 DEF Repartition, CopiesInv, SectorsOK
  <2>2. IsSector(mbr'[0]) /\ mbr'[0].magic = mbr[0].magic /\ mbr'[0].lba = mbr[0].lba
    BY <2>1, CopyNumbers DEF CopiesInv, SectorsOK, IsSector
  <2>3. SectorsOK' /\ NumbersOK'
    BY <1>2, <2>1, <2>2 DEF CopiesInv, SectorsOK, NumbersOK, Repartition, Harm, run
  <2>4. \A i \in Copies : Intact(i)' <=> Intact(i)
    BY <2>1, <2>2 DEF Intact
  <2> QED
    BY <1>2, <2>3, <2>4, CopyNumbers DEF Repartition, Harm, run, CopiesInv, LoopOK, BufferOK, AloneOK,
                            Syncing
<1>3. ASSUME NEW n \in Copies, Overwrite(n) PROVE CopiesInv'
  <2>1. /\ mbr' = [i \in Copies |-> IF i = 0 THEN Alien(mbr[0].table)
                                    ELSE IF i =< n THEN Alien(<<>>) ELSE mbr[i]]
        /\ gone' = gone \cup 0 .. n /\ pc = "idle" /\ UNCHANGED <<pc, buf, cur, last, head>>
    BY <1>3 DEF Overwrite, Harm, run
  <2>2. \A t : IsSector(Alien(t)) /\ ~Alien(t).magic
    BY CopiesAssumption DEF IsSector, Alien
  <2>3. SectorsOK' /\ NumbersOK'
    BY <2>1, <2>2 DEF CopiesInv, SectorsOK, NumbersOK
  <2>4. LoopOK' /\ BufferOK'
    BY <2>1 DEF LoopOK, BufferOK, Syncing
  <2>5. AloneOK'
    <3>1. 0 .. n \subseteq Copies /\ 0 \in 0 .. n /\ \A i \in Copies : i =< n <=> i \in 0 .. n
      BY CopiesAssumption DEF Copies
    <3>2. \A i \in 0 .. n : ~mbr'[i].magic
      BY <2>1, <2>2, <3>1
    <3>3. \A i \in Copies : i \notin 0 .. n => mbr'[i] = mbr[i]
      BY <2>1, <3>1
    <3>4. \A i \in gone' : ~mbr'[i].magic
      BY <2>1, <3>1, <3>2, <3>3 DEF CopiesInv, AloneOK
    <3>5. \A i \in Copies \ gone' : i \notin gone /\ mbr'[i] = mbr[i]
      BY <2>1, <3>3
    <3> QED
      BY <2>1, <3>1, <3>4, <3>5 DEF CopiesInv, AloneOK, Intact
  <2> QED
    BY <2>3, <2>4, <2>5 DEF CopiesInv
<1>4. CASE UNCHANGED vars
  BY <1>4 DEF vars, run, CopiesInv, SectorsOK, LoopOK, BufferOK, NumbersOK,
              AloneOK, Intact, Syncing
<1> QED
  BY <1>1, <1>2, <1>3, <1>4, CopiesCommand, CopiesStep DEF Next, Other, Stop

\* Where the copies can be counted in a byte, the number of one is its sector.
LEMMA NumberIsSector == ASSUME Base < ByteValues PROVE \A i \in Copies : Lba(i) = i
<1>1. \A i \in Copies : i \in Nat /\ i < ByteValues
  BY CopyNumbers, CopiesAssumption
<1> QED
  BY <1>1, CopiesAssumption DEF Lba

\* The number of a copy leads its boot code to the second stage.
LEMMA StageFromCopies == CopiesInv => StageFound
<1>. SUFFICES ASSUME CopiesInv, Base < ByteValues, NEW i \in Copies, mbr[i].magic
              PROVE  i + (Base + 1 - mbr[i].lba) = Base + 1
  BY DEF StageFound
<1>1. mbr[i].lba = i
  BY NumberIsSector DEF CopiesInv, NumbersOK
<1>2. i \in Nat /\ Base \in Nat
  BY CopyNumbers, CopiesAssumption
<1> QED
  BY <1>1, <1>2

\* Whichever copy the BIOS shows as sector 0, and whatever happened to the others,
\* its boot code finds the second stage, with as many copies as a byte can count.
THEOREM StageAlwaysFound == Spec => []StageFound
BY StageFromCopies, CopiesInit, CopiesNext, PTL DEF Spec

\* A copy that was left alone is there to restore from.
LEMMA CopyLeftRestores == CopiesInv => Restorable
BY DEF CopiesInv, AloneOK, Restorable

\* A formatted disk can be restored after any interruption and any damage that
\* spares one of the sectors restore_disk looks at, whatever --base was and however
\* many copies there are.
THEOREM AlwaysRestorable == Spec => []Restorable
BY CopyLeftRestores, CopiesInit, CopiesNext, PTL DEF Spec

\* A command overwrites an intact copy with an intact copy.
LEMMA StepKeepsIntact ==
    CopiesInv /\ [Next]_vars =>
      [pc # "idle" => \A i \in Copies : Intact(i) => Intact(i)']_vars
<1>. SUFFICES ASSUME CopiesInv, Next, pc # "idle", NEW i \in Copies, Intact(i)
              PROVE  Intact(i)'
  BY DEF Intact, vars
<1>1. CASE SyncWrite
  <2>1. mbr' = [j \in Copies |-> IF j = cur THEN NextImage ELSE mbr[j]]
    BY <1>1 DEF SyncWrite, CopiesInv, SectorsOK
  <2> QED
    BY <1>1, <2>1, NextImageOK DEF SyncWrite, Intact
<1>2. CASE UpdateWrite
  <2>1. mbr' = [j \in Copies |-> IF j = cur THEN [mbr[cur] EXCEPT !.code = buf.code]
                                            ELSE mbr[j]]
    BY <1>2 DEF UpdateWrite, CopiesInv, SectorsOK
  <2> QED
    BY <2>1 DEF Intact, CopiesInv, SectorsOK, IsSector
<1>3. CASE FormatStage \/ FormatMarks \/ UpdateStage \/ Interrupt \/ Stop
  BY <1>3 DEF FormatStage, FormatMarks, UpdateStage, Interrupt, Stop, vars, Intact
<1>4. ~Command /\ ~Other
  BY DEF Command, FormatDisk, SyncDisk, UpdateHeader, RestoreDisk, Begin,
         Other, Repartition, Overwrite, Harm
<1> QED
  BY <1>1, <1>2, <1>3, <1>4 DEF Next, Step

\* No step of a command destroys an intact copy.
THEOREM IntactAlwaysKept == Spec => IntactKept
BY StepKeepsIntact, CopiesInit, CopiesNext, PTL DEF Spec, IntactKept

\* What is written to sector 0 has the table that was there.
LEMMA StepKeepsPartitions ==
    CopiesInv /\ [Next]_vars =>
      [pc \notin {"idle", "format"} => mbr'[0].table = mbr[0].table]_vars
<1>. SUFFICES ASSUME CopiesInv, Next, pc \notin {"idle", "format"}
              PROVE  mbr'[0].table = mbr[0].table
  BY DEF vars
<1>1. CASE SyncWrite
  <2>1. mbr' = [j \in Copies |-> IF j = cur THEN NextImage ELSE mbr[j]]
    BY <1>1 DEF SyncWrite, CopiesInv, SectorsOK
  <2> QED
    BY <1>1, <2>1, NextImageOK, CopyNumbers DEF SyncWrite, CopiesInv, BufferOK
<1>2. CASE UpdateWrite
  <2>1. mbr' = [j \in Copies |-> IF j = cur THEN [mbr[cur] EXCEPT !.code = buf.code]
                                            ELSE mbr[j]]
    BY <1>2 DEF UpdateWrite, CopiesInv, SectorsOK
  <2> QED
    BY <2>1, CopyNumbers DEF CopiesInv, SectorsOK, IsSector
<1>3. CASE FormatStage \/ FormatMarks \/ UpdateStage \/ Interrupt \/ Stop
  BY <1>3 DEF FormatStage, FormatMarks, UpdateStage, Interrupt, Stop, vars
<1>4. ~Command /\ ~Other
  BY DEF Command, FormatDisk, SyncDisk, UpdateHeader, RestoreDisk, Begin,
         Other, Repartition, Overwrite, Harm
<1> QED
  BY <1>1, <1>2, <1>3, <1>4 DEF Next, Step

\* Sync, update and restore never change the partitions the system sees.
THEOREM PartitionsAlwaysKept == Spec => PartitionsKept
BY StepKeepsPartitions, CopiesInit, CopiesNext, PTL DEF Spec, PartitionsKept

-----------------------------------------------------------------------------
(***************************************************************************)
(* What a finished command promises.                                       *)
(***************************************************************************)

Phases ==
    {"idle", "format", "format stage", "format marks", "sync", "restore", "update", "update stage"}

\* The table that is written next is that of sector 0, as seen from the sector before.
TablesOK == Syncing /\ cur > 0 => buf.table = Shifted(mbr[0].table, cur - 1)

\* A copy is there and shows the partitions.
Follows(i) == Intact(i) /\ mbr[i].table = Shifted(mbr[0].table, i)

\* The copies the running command has behind it.
WrittenOK ==
    /\ Syncing => \A i \in Copies : i < cur => Follows(i)
    /\ pc \in {"format", "update"} => \A i \in Copies : i < cur => mbr[i].code = buf.code
    /\ pc \in {"format stage", "format marks", "update stage"}
         => \A i \in Copies : mbr[i].code = buf.code
    /\ pc \in {"format stage", "format marks"} => \A i \in Copies : Follows(i)
    /\ pc = "format marks" => head = buf.code

\* It goes over all of them, for a boot code that is there.
CommandOK ==
    /\ pc \in {"format", "sync", "update"} => last = Base
    /\ pc \in {"format", "format stage", "format marks", "update", "update stage"}
         => buf.code \in Versions
    /\ done # "none" => pc = "idle"
    /\ marked # 0 => head # NoCode

FreshIInv ==
    /\ TypeOK /\ pc \in Phases
    /\ TablesOK /\ WrittenOK /\ CommandOK /\ TablesFollow /\ CodeMatches

\* A shifted table.
LEMMA ShiftedTable ==
    ASSUME NEW t \in Seq(Int), NEW n \in Int
    PROVE  /\ Shifted(t, n) \in Seq(Int)
           /\ DOMAIN Shifted(t, n) = DOMAIN t
           /\ \A k \in DOMAIN t : Shifted(t, n)[k] = t[k] - n
<1>1. \A k \in DOMAIN t : t[k] \in Int /\ t[k] - n \in Int
  OBVIOUS
<1>2. DOMAIN t = 1 .. Len(t) /\ Len(t) \in Nat
  OBVIOUS
<1>3. Shifted(t, n) = [k \in 1 .. Len(t) |-> t[k] - n]
  BY <1>2 DEF Shifted
<1> QED
  BY <1>1, <1>2, <1>3

\* To shift a table sector by sector is to shift it at once.
LEMMA ShiftedTwice ==
    ASSUME NEW t \in Seq(Int), NEW n \in Int
    PROVE  Shifted(Shifted(t, n), 1) = Shifted(t, n + 1)
<1>1. /\ DOMAIN Shifted(t, n) = DOMAIN t
      /\ \A k \in DOMAIN t : Shifted(t, n)[k] = t[k] - n
  BY ShiftedTable
<1>2. \A k \in DOMAIN t : Shifted(t, n)[k] - 1 = t[k] - (n + 1)
  BY <1>1
<1> QED
  BY <1>1, <1>2 DEF Shifted

LEMMA ShiftedByNone ==
    ASSUME NEW t \in Seq(Int)
    PROVE  Shifted(t, 0) = t
<1>1. \A k \in DOMAIN t : t[k] - 0 = t[k]
  OBVIOUS
<1>2. t = [k \in DOMAIN t |-> t[k]]
  OBVIOUS
<1> QED
  BY <1>1, <1>2 DEF Shifted

\* A boot sector, with other contents.
LEMMA SectorFields ==
    ASSUME NEW r \in SectorType
    PROVE  /\ r.magic \in BOOLEAN /\ r.table \in Seq(Int)
           /\ r.code \in Versions \cup {NoCode}
           /\ \A l \in 0 .. ByteValues - 1 : [r EXCEPT !.lba = l] \in SectorType
           /\ \A t \in Seq(Int) : [r EXCEPT !.table = t] \in SectorType
           /\ \A c \in Versions \cup {NoCode} : [r EXCEPT !.code = c] \in SectorType
BY DEF SectorType

LEMMA AlienSector == \A t \in Seq(Int) : Alien(t) \in SectorType
BY CopiesAssumption DEF Alien, SectorType

\* What sync_mbr writes next: the next copy of sector 0.
LEMMA NextImageFields ==
    ASSUME FreshIInv, CopiesInv, Syncing
    PROVE  /\ NextImage \in SectorType /\ NextImage.code = buf.code
           /\ cur = 0 => NextImage.table = buf.table
           /\ cur > 0 => NextImage.table = Shifted(mbr[0].table, cur)
<1>1. /\ buf \in SectorType /\ cur \in Copies /\ mbr[0].table \in Seq(Int)
  BY CopyNumbers DEF FreshIInv, TypeOK, CopiesInv, LoopOK, SectorType
<1>2. cur \in Nat
  BY <1>1, CopyNumbers
<1>3. PICK b \in SectorType : b = buf
  BY <1>1
<1>4. PICK p \in SectorType : p = [b EXCEPT !.lba = Lba(cur)]
  BY <1>2, LbaIsByte, SectorFields
<1>5. p.table = b.table /\ p.code = b.code
  BY <1>4 DEF SectorType
<1>6. CASE cur = 0
  BY <1>3, <1>4, <1>5, <1>6 DEF NextImage
<1>7. CASE cur > 0
  <2>1. PICK t \in Seq(Int), n \in Int : t = mbr[0].table /\ n = cur - 1
    BY <1>1, <1>2
  <2>2. b.table = Shifted(t, n) /\ n + 1 = cur
    BY <1>2, <1>3, <1>7, <2>1 DEF FreshIInv, TablesOK
  <2>3. Shifted(b.table, 1) = Shifted(t, cur)
    <3>1. Shifted(Shifted(t, n), 1) = Shifted(t, n + 1)
      BY ShiftedTwice
    <3> QED
      BY <2>2, <3>1
  <2>4. PICK w \in Seq(Int) : w = Shifted(t, cur)
    BY <1>2, ShiftedTable
  <2>5. PICK q \in SectorType : q = [p EXCEPT !.table = w]
    BY SectorFields
  <2>6. q.table = w /\ q.code = p.code
    BY <2>5 DEF SectorType
  <2>7. NextImage = [buf EXCEPT !.lba = Lba(cur), !.table = Shifted(buf.table, 1)]
    BY <1>7 DEF NextImage
  <2>8. NextImage = q
    BY <1>3, <1>4, <2>3, <2>4, <2>5, <2>7
  <2> QED
    BY <1>3, <1>5, <1>7, <2>1, <2>4, <2>6, <2>8
<1> QED
  BY <1>2, <1>6, <1>7

LEMMA FreshInit == Init => FreshIInv
<1> SUFFICES ASSUME Init PROVE FreshIInv
  OBVIOUS
<1>1. PICK table \in Tables \cup {<<>>} :
         mbr = [i \in Copies |-> Alien(IF i = 0 THEN table ELSE <<>>)]
  BY DEF Init
<1>2. table \in Seq(Int)
  <2>1. CASE table \in Tables
    BY <2>1, TablesAssumption
  <2>2. CASE table = <<>>
    BY <2>2
  <2> QED
    BY <2>1, <2>2
<1>3. mbr \in [Copies -> SectorType] /\ buf \in SectorType
  <2>1. Alien(table) \in SectorType /\ Alien(<<>>) \in SectorType
    <3>1. <<>> \in Seq(Int)
      OBVIOUS
    <3> QED
      BY <1>2, <3>1, AlienSector, Zenon
  <2>2. \A i \in Copies : Alien(IF i = 0 THEN table ELSE <<>>) \in SectorType
    BY <2>1
  <2> QED
    BY <1>1, <2>1, <2>2 DEF Init
<1>4. TypeOK
  BY <1>3, CopyNumbers DEF Init, TypeOK
<1>5. TablesOK
  BY DEF Init, TablesOK, Syncing
<1>6. WrittenOK /\ CommandOK
  BY DEF Init, WrittenOK, CommandOK, Syncing
<1>7. TablesFollow /\ CodeMatches
  BY DEF Init, TablesFollow, CodeMatches, Fresh
<1> QED
  BY <1>4, <1>5, <1>6, <1>7 DEF FreshIInv, Phases, Init

\* A command begins with a boot code that exists.
LEMMA FreshBegin ==
    ASSUME FreshIInv, NEW command, NEW image \in SectorType, NEW end \in Copies,
           Begin(command, image, end),
           command \in {"format", "sync", "restore", "update"},
           command # "restore" => end = Base,
           command \in {"format", "update"} => image.code \in Versions
    PROVE  FreshIInv'
<1>1. /\ pc' = command /\ buf' = image /\ cur' = 0 /\ last' = end
      /\ done' = "none" /\ UNCHANGED <<mbr, head, marked, gone>>
  BY DEF Begin
<1>2. TypeOK' /\ pc' \in Phases
  BY <1>1 DEF FreshIInv, TypeOK, Phases
<1>3. TablesOK'
  BY <1>1 DEF TablesOK
<1>4. WrittenOK'
  <2>1. \A i \in Copies : ~(i < 0)
    BY CopyNumbers
  <2> QED
    BY <1>1, <2>1 DEF WrittenOK
<1>5. CommandOK'
  BY <1>1 DEF FreshIInv, CommandOK
<1>6. TablesFollow' /\ CodeMatches'
  BY <1>1 DEF TablesFollow, CodeMatches, Fresh
<1> QED
  BY <1>2, <1>3, <1>4, <1>5, <1>6 DEF FreshIInv

LEMMA FreshCommand == ASSUME FreshIInv, CopiesInv, Command PROVE FreshIInv'
<1>0. mbr[0] \in SectorType /\ mbr[0].table \in Seq(Int) /\ Base \in Copies
  BY CopyNumbers DEF FreshIInv, TypeOK, SectorType
<1>1. ASSUME NEW version \in Versions, NEW force \in BOOLEAN, FormatDisk(version, force)
      PROVE  FreshIInv'
  <2>1. PICK t : t = FormatTable(force)
    OBVIOUS
  <2>2. t \in Seq(Int)
    <3>1. <<DataStart>> \in Seq(Int)
      BY TablesAssumption
    <3> QED
      BY <1>0, <2>1, <3>1 DEF FormatTable
  <2>3. PICK image : image = [magic |-> TRUE, lba |-> 0, table |-> t, code |-> version]
    OBVIOUS
  <2>4. image \in SectorType /\ image.code = version
    BY <2>2, <2>3, CopiesAssumption DEF SectorType
  <2>5. Begin("format", image, Base)
    BY <1>1, <2>1, <2>3 DEF FormatDisk
  <2> QED
    BY <1>0, <2>4, <2>5, FreshBegin
<1>2. ASSUME SyncDisk PROVE FreshIInv'
  <2>1. Begin("sync", mbr[0], Base)
    BY <1>2 DEF SyncDisk
  <2> QED
    BY <1>0, <2>1, FreshBegin
<1>3. ASSUME NEW version \in Versions, UpdateHeader(version) PROVE FreshIInv'
  <2>1. PICK image \in SectorType : image = [mbr[0] EXCEPT !.code = version]
    BY <1>0, SectorFields
  <2>2. image.code = version
    BY <1>0, <2>1 DEF SectorType
  <2>3. Begin("update", image, Base)
    BY <1>3, <2>1 DEF UpdateHeader
  <2> QED
    BY <1>0, <2>2, <2>3, FreshBegin
<1>4. ASSUME RestoreDisk PROVE FreshIInv'
  <2>1. PICK i \in Copies : i > 0 /\ Begin("restore", RestoreImage(i), i - 1)
    BY <1>4 DEF RestoreDisk
  <2>2. mbr[i] \in SectorType
    BY DEF FreshIInv, TypeOK
  <2>3. PICK image \in SectorType : image = RestoreImage(i)
    BY <1>0, <2>2, SectorFields DEF RestoreImage
  <2>4. i - 1 \in Copies
    BY <2>1, CopyNumbers
  <2> QED
    BY <2>1, <2>3, <2>4, FreshBegin
<1> QED
  BY <1>1, <1>2, <1>3, <1>4 DEF Command

\* A write of sync_mbr brings one copy more.
LEMMA FreshSyncWrite == ASSUME FreshIInv, CopiesInv, SyncWrite PROVE FreshIInv'
<1>1. /\ Syncing /\ cur \in Copies /\ last \in Copies /\ cur =< last
      /\ mbr' = [mbr EXCEPT ![cur] = NextImage] /\ buf' = NextImage /\ cur' = cur + 1
      /\ gone' \subseteq gone /\ UNCHANGED <<head, last, marked>>
  BY DEF CopiesInv, LoopOK, SyncWrite
<1>2. cur \in Nat /\ cur =< Base /\ last =< Base /\ Base \in Nat /\ 0 \in Copies /\ Base \in Copies
  BY <1>1, CopyNumbers, CopiesAssumption
<1>3. PICK image \in SectorType : image = NextImage
  BY <1>1, NextImageFields
<1>4. /\ image.code = buf.code
      /\ cur = 0 => image.table = buf.table
      /\ cur > 0 => image.table = Shifted(mbr[0].table, cur)
  BY <1>1, <1>3, NextImageFields
<1>5. image.magic /\ image.lba = Lba(cur)
  BY <1>1, <1>3, NextImageOK
<1>6. mbr' = [i \in Copies |-> IF i = cur THEN image ELSE mbr[i]]
  BY <1>1, <1>3 DEF FreshIInv, TypeOK
<1>7. mbr[0].table \in Seq(Int) /\ buf.table \in Seq(Int) /\ image.table \in Seq(Int)
  BY <1>2 DEF FreshIInv, TypeOK, SectorType
<1>8. PICK t \in Seq(Int) : t = mbr'[0].table
  BY <1>2, <1>6, <1>7
<1>9. /\ cur = 0 => t = image.table
      /\ cur > 0 => t = mbr[0].table
      /\ image.table = Shifted(t, cur)
  <2>1. CASE cur = 0
    <3>1. t = image.table
      BY <1>6, <1>8, <1>2, <2>1
    <3>2. Shifted(t, 0) = t
      BY ShiftedByNone
    <3> QED
      BY <2>1, <3>1, <3>2
  <2>2. CASE cur > 0
    <3>1. t = mbr[0].table
      BY <1>2, <1>6, <1>8, <2>2
    <3> QED
      BY <1>4, <2>2, <3>1
  <2> QED
    BY <1>2, <2>1, <2>2
<1>10. cur' \in Nat /\ cur' > 0 /\ cur' - 1 = cur
  BY <1>1, <1>2
<1>11. /\ cur < last => pc' = pc /\ done' = done
       /\ ~(cur < last) => cur = last
       /\ ~(cur < last) /\ pc = "format" => pc' = "format stage" /\ done' = done
       /\ ~(cur < last) /\ pc # "format" => pc' = "idle" /\ done' = pc
  <2>1. ~(cur < last) => cur = last
    BY <1>1, CopyNumbers
  <2> QED
    BY <2>1 DEF SyncWrite, Finish
<1>12. TypeOK' /\ pc' \in Phases
  <2>1. mbr' \in [Copies -> SectorType]
    BY <1>6 DEF FreshIInv, TypeOK
  <2>2. pc' \in Phases
    BY <1>11 DEF FreshIInv, Phases
  <2> QED
    BY <1>1, <1>3, <1>10, <2>1, <2>2 DEF FreshIInv, TypeOK
<1>13. TablesOK'
  BY <1>1, <1>3, <1>8, <1>9, <1>10 DEF TablesOK
<1>14. ASSUME NEW i \in Copies, i < cur'
       PROVE  Follows(i)'
  <2>1. CASE i = cur
    BY <1>5, <1>6, <1>8, <1>9, <2>1 DEF Follows, Intact
  <2>2. CASE i # cur
    <3>1. i < cur /\ cur > 0
      BY <1>1, <1>2, <1>14, <2>2, CopyNumbers
    <3>2. Follows(i)
      BY <1>1, <3>1 DEF FreshIInv, WrittenOK
    <3> QED
      BY <1>6, <1>8, <1>9, <2>2, <3>1, <3>2 DEF Follows, Intact
  <2> QED
    BY <2>1, <2>2
<1>15. ASSUME pc = "format", NEW i \in Copies, i < cur'
       PROVE  mbr'[i].code = buf'.code
  <2>1. CASE i = cur
    BY <1>1, <1>3, <1>6, <2>1
  <2>2. CASE i # cur
    <3>1. i < cur
      BY <1>1, <1>2, <1>15, <2>2, CopyNumbers
    <3>2. mbr[i].code = buf.code
      BY <1>15, <3>1 DEF FreshIInv, WrittenOK
    <3> QED
      BY <1>1, <1>3, <1>4, <1>6, <2>2, <3>2
  <2> QED
    BY <2>1, <2>2
<1>16. ASSUME ~(cur < last), NEW i \in Copies, i =< last
       PROVE  i < cur'
  <2>1. cur = last /\ cur' = cur + 1 /\ cur \in Nat /\ i =< last
    BY <1>1, <1>2, <1>11, <1>16
  <2>2. i \in Nat
    BY CopyNumbers
  <2> QED
    BY <2>1, <2>2
<1>17. \A i \in Copies : i =< Base
  BY CopyNumbers
<1>18. WrittenOK'
  <2>1. CASE cur < last
    BY <1>11, <1>14, <1>15, <2>1, <1>1 DEF WrittenOK, Syncing
  <2>2. CASE ~(cur < last) /\ pc = "format"
    <3>1. last = Base
      BY <2>2 DEF FreshIInv, CommandOK
    <3>2. \A i \in Copies : i < cur'
      BY <1>16, <1>17, <2>2, <3>1
    <3>3. pc' = "format stage"
      BY <1>11, <2>2
    <3> QED
      BY <1>14, <1>15, <2>2, <3>2, <3>3 DEF WrittenOK, Syncing
  <2>3. CASE ~(cur < last) /\ pc # "format"
    BY <1>11, <2>3 DEF WrittenOK, Syncing
  <2> QED
    BY <2>1, <2>2, <2>3
<1>19. CommandOK'
  <2>1. done = "none"
    BY <1>1 DEF FreshIInv, CommandOK, Syncing
  <2>2. buf'.code = buf.code
    BY <1>1, <1>3, <1>4
  <2>3. CASE cur < last
    BY <1>1, <1>11, <2>1, <2>2, <2>3 DEF FreshIInv, CommandOK
  <2>4. CASE ~(cur < last) /\ pc = "format"
    BY <1>1, <1>11, <2>1, <2>2, <2>4 DEF FreshIInv, CommandOK
  <2>5. CASE ~(cur < last) /\ pc # "format"
    BY <1>1, <1>11, <2>5 DEF FreshIInv, CommandOK, Syncing
  <2> QED
    BY <2>3, <2>4, <2>5
<1>20. TablesFollow'
  <2> SUFFICES ASSUME NEW i \in Fresh' PROVE Follows(i)'
    BY DEF TablesFollow, Follows
  <2>1. done = "none"
    BY <1>1 DEF FreshIInv, CommandOK, Syncing
  <2>2. ~(cur < last) /\ pc # "format" /\ done' = pc
    BY <1>11, <2>1 DEF Fresh
  <2>3. i \in Copies /\ i =< last
    <3>1. CASE pc = "restore"
      <4>1. i \in 0 .. last /\ last \in Nat
        BY <1>1, <2>2, <3>1, CopyNumbers DEF Fresh
      <4> QED
        BY <1>2, <4>1 DEF Copies
    <3>2. CASE pc # "restore"
      <4>1. pc = "sync"
        BY <1>1, <2>2, <3>2 DEF Syncing
      <4>2. last = Base /\ i \in Copies
        BY <2>2, <4>1, <3>2 DEF FreshIInv, CommandOK, Fresh
      <4> QED
        BY <4>2, <1>17
    <3> QED
      BY <3>1, <3>2
  <2> QED
    BY <1>14, <1>16, <2>2, <2>3
<1>21. CodeMatches'
  <2>1. done = "none"
    BY <1>1 DEF FreshIInv, CommandOK, Syncing
  <2> QED
    BY <1>1, <1>11, <2>1 DEF CodeMatches, Syncing
<1> QED
  BY <1>12, <1>13, <1>18, <1>19, <1>20, <1>21 DEF FreshIInv

\* The second stage and the marks come last.
LEMMA FreshStage ==
    ASSUME FreshIInv, FormatStage \/ FormatMarks \/ UpdateStage
    PROVE  FreshIInv'
<1>1. /\ UNCHANGED <<mbr, buf, last, gone>> /\ head' = buf.code
      /\ buf.code \in Versions /\ \A i \in Copies : mbr[i].code = buf.code
  BY DEF FormatStage, FormatMarks, UpdateStage, FreshIInv, WrittenOK, CommandOK
<1>2. \/ /\ pc \in {"format stage", "format marks"}
         /\ \/ pc' = "format marks" /\ done' = done
            \/ pc' = "idle" /\ done' = "format"
      \/ pc = "update stage" /\ pc' = "idle" /\ done' = "update"
  BY DEF FormatStage, FormatMarks, UpdateStage, Mark, Finish
<1>3. cur' \in Nat /\ marked' \in Nat
  <2>1. cur \in Nat /\ marked \in Nat
    BY DEF FreshIInv, TypeOK
  <2>2. CASE FormatStage
    <3>1. cur' = Base + 1 + BootSize
      BY <2>2 DEF FormatStage
    <3>2. Base + 1 + BootSize \in Nat
      BY CopiesAssumption
    <3> QED
      BY <2>1, <2>2, <3>1, <3>2 DEF FormatStage, Mark
  <2>3. CASE FormatMarks
    <3>1. cur + Min2(GlobBuf, PriSize - cur) \in Nat
      BY <2>1, CopiesAssumption, TablesAssumption DEF Min2
    <3>2. cur' \in Nat
      BY <2>3, <3>1 DEF FormatMarks
    <3> QED
      BY <2>1, <2>3, <3>2 DEF FormatMarks, Mark
  <2>4. CASE UpdateStage
    BY <2>1, <2>4 DEF UpdateStage
  <2> QED
    BY <2>2, <2>3, <2>4
<1>4. TypeOK' /\ pc' \in Phases
  BY <1>1, <1>2, <1>3 DEF FreshIInv, TypeOK, Phases
<1>5. TablesOK'
  BY <1>2 DEF TablesOK, Syncing
<1>6. head' # NoCode
  BY <1>1, VersionAssumption
<1>7. pc \in {"format stage", "format marks"} => \A i \in Copies : Follows(i)'
  BY <1>1 DEF FreshIInv, WrittenOK, Follows, Intact
<1>8. WrittenOK'
  BY <1>1, <1>2, <1>7 DEF WrittenOK, Syncing
<1>9. CommandOK'
  <2>1. pc # "idle" => done = "none"
    BY DEF FreshIInv, CommandOK
  <2> QED
    BY <1>1, <1>2, <1>6, <2>1 DEF CommandOK
<1>10. TablesFollow' /\ CodeMatches'
  <2>1. done = "none"
    BY <1>2 DEF FreshIInv, CommandOK
  <2>2. CASE done' = done
    BY <2>1, <2>2 DEF TablesFollow, CodeMatches, Fresh
  <2>3. CASE done' = "format"
    <3>1. pc \in {"format stage", "format marks"}
      BY <1>2, <2>1, <2>3
    <3> QED
      BY <1>1, <1>7, <2>3, <3>1 DEF TablesFollow, CodeMatches, Fresh, Follows
  <2>4. CASE done' = "update"
    BY <1>1, <2>4 DEF TablesFollow, CodeMatches, Fresh
  <2> QED
    BY <1>2, <2>2, <2>3, <2>4
<1> QED
  BY <1>4, <1>5, <1>8, <1>9, <1>10 DEF FreshIInv

\* A write of update_header changes the boot code of one sector.
LEMMA FreshUpdateWrite == ASSUME FreshIInv, CopiesInv, UpdateWrite PROVE FreshIInv'
<1>1. /\ pc = "update" /\ cur \in Copies /\ last \in Copies /\ cur =< last
      /\ mbr' = [mbr EXCEPT ![cur].code = buf.code] /\ cur' = cur + 1
      /\ UNCHANGED <<head, buf, last, marked, gone, done>>
  BY DEF CopiesInv, LoopOK, UpdateWrite
<1>2. /\ cur \in Nat /\ cur =< Base /\ Base \in Nat /\ 0 \in Copies /\ last = Base
      /\ buf.code \in Versions /\ done = "none"
  BY <1>1, CopyNumbers, CopiesAssumption DEF FreshIInv, CommandOK
<1>3. mbr[cur] \in SectorType
  BY <1>1 DEF FreshIInv, TypeOK
<1>4. PICK image \in SectorType : image = [mbr[cur] EXCEPT !.code = buf.code]
  BY <1>2, <1>3, SectorFields
<1>5. /\ image.code = buf.code /\ image.magic = mbr[cur].magic /\ image.lba = mbr[cur].lba
      /\ image.table = mbr[cur].table
  BY <1>3, <1>4 DEF SectorType
<1>6. mbr' = [i \in Copies |-> IF i = cur THEN image ELSE mbr[i]]
  BY <1>1, <1>4 DEF FreshIInv, TypeOK
<1>7. \A i \in Copies : mbr'[i].table = mbr[i].table /\ mbr'[i].magic = mbr[i].magic
  BY <1>5, <1>6
<1>8. /\ pc' \in {"update", "update stage"} /\ (pc' = "update" <=> cur < last)
  BY DEF UpdateWrite
<1>9. TypeOK' /\ pc' \in Phases
  <2>1. mbr' \in [Copies -> SectorType]
    BY <1>6 DEF FreshIInv, TypeOK
  <2>2. cur' \in Nat
    BY <1>1, <1>2
  <2> QED
    BY <1>1, <1>8, <2>1, <2>2 DEF FreshIInv, TypeOK, Phases
<1>10. TablesOK'
  BY <1>2, <1>7, <1>8 DEF FreshIInv, TablesOK, Syncing
<1>11. ASSUME NEW i \in Copies, i < cur'
       PROVE  mbr'[i].code = buf.code
  <2>1. CASE i = cur
    BY <1>5, <1>6, <2>1
  <2>2. CASE i # cur
    <3>1. i \in Nat
      BY CopyNumbers
    <3>2. i < cur
      BY <1>1, <1>2, <1>11, <2>2, <3>1
    <3> QED
      BY <1>1, <1>6, <2>2, <3>2 DEF FreshIInv, WrittenOK
  <2> QED
    BY <2>1, <2>2
<1>12. ASSUME pc' = "update stage", NEW i \in Copies
       PROVE  i < cur'
  <2>1. i \in Nat /\ i =< Base
    BY CopyNumbers
  <2>2. ~(cur < Base) /\ cur' = cur + 1
    BY <1>1, <1>2, <1>8, <1>12
  <2> QED
    BY <1>2, <2>1, <2>2
<1>13. WrittenOK'
  BY <1>1, <1>8, <1>11, <1>12 DEF WrittenOK, Syncing
<1>14. CommandOK'
  BY <1>1, <1>2, <1>8 DEF FreshIInv, CommandOK
<1>15. TablesFollow' /\ CodeMatches'
  BY <1>1, <1>2 DEF TablesFollow, CodeMatches, Fresh
<1> QED
  BY <1>9, <1>10, <1>13, <1>14, <1>15 DEF FreshIInv

\* A run that ends early promises nothing.
LEMMA FreshInterrupt == ASSUME FreshIInv, Interrupt PROVE FreshIInv'
<1>1. /\ pc # "idle" /\ pc' = "idle" /\ UNCHANGED <<mbr, head, buf, cur, last, marked, gone, done>>
  BY DEF Interrupt
<1>2. done = "none"
  BY <1>1 DEF FreshIInv, CommandOK
<1>3. TypeOK' /\ pc' \in Phases
  BY <1>1 DEF FreshIInv, TypeOK, Phases
<1>4. TablesOK'
  BY <1>1 DEF FreshIInv, TablesOK, Syncing
<1>5. WrittenOK' /\ CommandOK'
  BY <1>1, <1>2 DEF FreshIInv, WrittenOK, CommandOK, Syncing
<1>6. TablesFollow' /\ CodeMatches'
  BY <1>1, <1>2 DEF TablesFollow, CodeMatches, Fresh
<1> QED
  BY <1>3, <1>4, <1>5, <1>6 DEF FreshIInv

\* What other programs do ends every promise.
LEMMA FreshOther == ASSUME FreshIInv, Other PROVE FreshIInv'
<1>1. /\ pc = "idle" /\ UNCHANGED <<pc, buf, cur, last, head, marked>> /\ done' = "none"
  BY DEF Other, Repartition, Overwrite, Harm, run
<1>2. 0 \in Copies /\ mbr[0] \in SectorType /\ mbr \in [Copies -> SectorType]
      /\ gone \subseteq Copies
  BY CopyNumbers DEF FreshIInv, TypeOK
<1>3. mbr' \in [Copies -> SectorType] /\ gone' \subseteq Copies
  <2>1. ASSUME NEW table \in Tables, Repartition(table)
        PROVE  mbr' \in [Copies -> SectorType] /\ gone' \subseteq Copies
    <3>1. table \in Seq(Int)
      BY TablesAssumption
    <3>2. PICK image \in SectorType : image = [mbr[0] EXCEPT !.table = table]
      BY <1>2, <3>1, SectorFields
    <3>3. mbr' = [mbr EXCEPT ![0] = image] /\ gone' = gone
      BY <2>1, <3>2 DEF Repartition
    <3> QED
      BY <1>2, <3>3
  <2>2. ASSUME NEW n \in Copies, Overwrite(n)
        PROVE  mbr' \in [Copies -> SectorType] /\ gone' \subseteq Copies
    <3>1. mbr' = [i \in Copies |-> IF i = 0 THEN Alien(mbr[0].table)
                                   ELSE IF i =< n THEN Alien(<<>>) ELSE mbr[i]]
      BY <2>2 DEF Overwrite
    <3>2. mbr[0].table \in Seq(Int) /\ <<>> \in Seq(Int)
      BY <1>2 DEF SectorType
    <3>3. Alien(mbr[0].table) \in SectorType /\ Alien(<<>>) \in SectorType
      BY <3>2, AlienSector, Zenon
    <3>4. 0 .. n \subseteq Copies
      BY CopiesAssumption DEF Copies
    <3> QED
      BY <1>2, <2>2, <3>1, <3>3, <3>4 DEF Overwrite
  <2> QED
    BY <2>1, <2>2 DEF Other
<1>4. TypeOK' /\ pc' \in Phases
  BY <1>1, <1>3 DEF FreshIInv, TypeOK
<1>5. TablesOK'
  BY <1>1 DEF TablesOK, Syncing
<1>6. WrittenOK' /\ CommandOK'
  BY <1>1 DEF FreshIInv, WrittenOK, CommandOK, Syncing
<1>7. TablesFollow' /\ CodeMatches'
  BY <1>1 DEF TablesFollow, CodeMatches, Fresh
<1> QED
  BY <1>4, <1>5, <1>6, <1>7 DEF FreshIInv

LEMMA FreshNext == FreshIInv /\ CopiesInv /\ [Next]_vars => FreshIInv'
<1> SUFFICES ASSUME FreshIInv, CopiesInv, [Next]_vars PROVE FreshIInv'
  OBVIOUS
<1>1. CASE Step
  BY <1>1, FreshSyncWrite, FreshStage, FreshUpdateWrite DEF Step
<1>2. CASE UNCHANGED vars
  <2>1. TypeOK' /\ pc' \in Phases
    BY <1>2 DEF vars, run, FreshIInv, TypeOK
  <2>2. TablesOK' /\ WrittenOK' /\ CommandOK'
    BY <1>2 DEF vars, run, FreshIInv, TablesOK, WrittenOK, CommandOK, Syncing, Follows, Intact
  <2>3. TablesFollow' /\ CodeMatches'
    BY <1>2 DEF vars, run, FreshIInv, TablesFollow, CodeMatches, Fresh, Intact
  <2> QED
    BY <2>1, <2>2, <2>3 DEF FreshIInv
<1> QED
  BY <1>1, <1>2, FreshCommand, FreshInterrupt, FreshOther DEF Next, Stop

-----------------------------------------------------------------------------
(***************************************************************************)
(* Cylinders, heads and sectors.                                           *)
(***************************************************************************)

LEMMA Quotient ==
    ASSUME NEW b \in Nat \ {0}, NEW q \in Int, NEW r \in Nat, r < b
    PROVE  (b * q + r) \div b = q /\ (b * q + r) % b = r
<1>1. PICK p \in Int : p = b * q
  OBVIOUS
<1>2. DEFINE d == (p + r) \div b
             e == (p + r) % b
<1>3. d \in Int /\ e \in Nat /\ e < b /\ p + r = b * d + e
  BY <1>1
<1> HIDE DEF d, e
<1>4. PICK w \in Int : w = b * d
  BY <1>3
<1>5. d = q
  <2>1. CASE d < q
    <3>1. b * (d + 1) =< b * q
      BY <1>3, <2>1
    <3>2. b * (d + 1) = w + b
      BY <1>3, <1>4
    <3> QED
      BY <1>1, <1>3, <1>4, <3>1, <3>2
  <2>2. CASE d > q
    <3>1. b * (q + 1) =< b * d
      BY <1>3, <2>2
    <3>2. b * (q + 1) = p + b
      BY <1>1
    <3> QED
      BY <1>1, <1>3, <1>4, <3>1, <3>2
  <2> QED
    BY <1>3, <2>1, <2>2
<1>6. e = r
  BY <1>1, <1>3, <1>4, <1>5
<1> QED
  BY <1>1, <1>5, <1>6 DEF d, e

\* A number is its whole parts and the rest.
LEMMA Parts2 ==
    ASSUME NEW n \in Nat, NEW b \in Nat \ {0}
    PROVE  /\ n \div b \in Nat /\ n % b \in Nat /\ n % b < b
           /\ n = b * (n \div b) + (n % b)
OBVIOUS

\* A sector's track by number, and the cylinder and the head of the track.
LEMMA TrackOf ==
    ASSUME NEW n \in Nat, NEW st \in Nat \ {0}, NEW hd \in Nat \ {0}
    PROVE  /\ n \div (st * hd) = (n \div st) \div hd
           /\ (n % (st * hd)) \div st = (n \div st) % hd
<1>1. PICK t \in Nat, s \in Nat : t = n \div st /\ s = n % st /\ s < st /\ n = st * t + s
  BY Parts2
<1>2. PICK u \in Nat, v \in Nat : u = t \div hd /\ v = t % hd /\ v < hd /\ t = hd * u + v
  <2>1. t \in Nat
    BY <1>1
  <2>2. /\ t \div hd \in Nat /\ t % hd \in Nat /\ t % hd < hd
        /\ t = hd * (t \div hd) + (t % hd)
    BY <2>1, Parts2
  <2> QED
    BY <2>2
<1>3. PICK m \in Nat \ {0} : m = st * hd
  OBVIOUS
<1>4. PICK y \in Nat : y = st * v
  BY <1>2
<1>5. y + s < m
  <2>1. st * (v + 1) =< st * hd
    BY <1>2
  <2>2. st * (v + 1) = y + st
    BY <1>2, <1>4
  <2> QED
    BY <1>1, <1>3, <1>4, <2>1, <2>2
<1>6. n = m * u + (y + s)
  <2>1. PICK x \in Nat : x = hd * u
    BY <1>2
  <2>2. st * (x + v) = st * x + st * v
    BY <1>2, <2>1
  <2>3. st * x = (st * hd) * u
    BY <1>2, <2>1
  <2>4. st * t = m * u + y
    BY <1>2, <1>3, <1>4, <2>1, <2>2, <2>3
  <2>5. PICK z \in Nat : z = m * u
    BY <1>2, <1>3
  <2> QED
    BY <1>1, <1>4, <2>4, <2>5
<1>7. n \div m = u /\ n % m = y + s
  <2>1. PICK r \in Nat : r = y + s /\ r < m
    <3>1. y + s \in Nat /\ y + s < m
      BY <1>1, <1>4, <1>5
    <3> QED
      BY <3>1
  <2>2. (m * u + r) \div m = u /\ (m * u + r) % m = r
    <3>1. m \in Nat \ {0} /\ u \in Nat /\ r \in Nat /\ r < m
      BY <1>2, <1>3, <2>1
    <3> QED
      BY <3>1, Quotient
  <2>3. n = m * u + r
    BY <1>6, <2>1
  <2> QED
    BY <2>1, <2>2, <2>3
<1>8. (y + s) \div st = v
  <2>1. (st * v + s) \div st = v
    <3>1. v \in Nat /\ s \in Nat /\ s < st
      BY <1>1, <1>2
    <3> QED
      BY <3>1, Quotient
  <2> QED
    BY <1>4, <2>1
<1> QED
  BY <1>1, <1>2, <1>3, <1>7, <1>8

\* The sector after a place, on the same track or on the next one.
LEMMA NextOnTrack ==
    ASSUME NEW n \in Nat, NEW st \in Nat \ {0}, NEW a \in Nat, (n % st) + a =< st
    PROVE  IF (n % st) + a = st
           THEN (n + a) \div st = (n \div st) + 1 /\ (n + a) % st = 0
           ELSE (n + a) \div st = n \div st /\ (n + a) % st = (n % st) + a
<1>1. PICK t \in Nat, s \in Nat : t = n \div st /\ s = n % st /\ s < st /\ n = st * t + s
  BY Parts2
<1>2. PICK p \in Nat : p = st * t
  BY <1>1
<1>3. n + a = p + (s + a)
  BY <1>1, <1>2
<1>4. CASE s + a = st
  <2>1. (st * (t + 1) + 0) \div st = t + 1 /\ (st * (t + 1) + 0) % st = 0
    <3>1. t + 1 \in Nat /\ 0 \in Nat /\ 0 < st
      BY <1>1
    <3> QED
      BY <3>1, Quotient
  <2>2. st * (t + 1) + 0 = p + st
    BY <1>1, <1>2
  <2>3. n + a = p + st
    BY <1>3, <1>4
  <2> QED
    BY <1>1, <1>4, <2>1, <2>2, <2>3
<1>5. CASE s + a # st
  <2>1. s + a \in Nat /\ s + a < st
    BY <1>1, <1>5
  <2>2. PICK r \in Nat : r = s + a /\ r < st
    BY <2>1
  <2>3. (st * t + r) \div st = t /\ (st * t + r) % st = r
    <3>1. t \in Nat /\ r \in Nat /\ r < st
      BY <1>1, <2>2
    <3> QED
      BY <3>1, Quotient
  <2>4. n + a = st * t + r
    BY <1>2, <1>3, <2>2
  <2>5. (n + a) \div st = t /\ (n + a) % st = r
    BY <2>3, <2>4
  <2>6. n \div st = t /\ n % st = s
    BY <1>1
  <2> QED
    BY <1>5, <2>2, <2>5, <2>6
<1> QED
  BY <1>4, <1>5

LEMMA SameTrack ==
    ASSUME NEW n \in Nat, NEW st \in Nat \ {0}, NEW a \in Nat, (n % st) + a < st
    PROVE  (n + a) \div st = n \div st /\ (n + a) % st = (n % st) + a
<1>1. (n % st) + a =< st /\ (n % st) + a # st
  <2>1. PICK s \in Nat : s = n % st
    BY Parts2
  <2>2. s + a =< st /\ s + a # st
    BY <2>1
  <2> QED
    BY <2>1, <2>2
<1>2. IF (n % st) + a = st
      THEN (n + a) \div st = (n \div st) + 1 /\ (n + a) % st = 0
      ELSE (n + a) \div st = n \div st /\ (n + a) % st = (n % st) + a
  BY <1>1, NextOnTrack, ZenonT(40)
<1> QED
  BY <1>1, <1>2, Zenon

LEMMA AnotherTrack ==
    ASSUME NEW n \in Nat, NEW st \in Nat \ {0}, NEW a \in Nat, (n % st) + a = st
    PROVE  (n + a) \div st = (n \div st) + 1 /\ (n + a) % st = 0
<1>1. (n % st) + a =< st
  OBVIOUS
<1> QED
  BY <1>1, NextOnTrack, ZenonT(40)

\* The number after the next one counts on or starts again.
LEMMA NextRemainder ==
    ASSUME NEW n \in Nat, NEW c \in Nat \ {0}
    PROVE  (n + 1) % c = ((n % c) + 1) % c
<1>1. n % c \in Nat /\ n % c < c
  BY Parts2
<1>2. 1 \in Nat /\ (n % c) + 1 =< c
  BY <1>1
<1>3. IF (n % c) + 1 = c
      THEN (n + 1) \div c = (n \div c) + 1 /\ (n + 1) % c = 0
      ELSE (n + 1) \div c = n \div c /\ (n + 1) % c = (n % c) + 1
  BY <1>2, NextOnTrack, ZenonT(40)
<1>4. PICK s \in Nat : s = n % c
  BY <1>1
<1>5. CASE s + 1 = c
  <2>1. (c * 1 + 0) % c = 0
    BY Quotient
  <2>2. c * 1 + 0 = c
    OBVIOUS
  <2>3. c % c = 0
    BY <2>1, <2>2
  <2>4. (n + 1) % c = 0
    BY <1>3, <1>4, <1>5
  <2> QED
    BY <1>4, <1>5, <2>3, <2>4
<1>6. CASE s + 1 # c
  <2>1. s + 1 \in Nat /\ s + 1 < c
    BY <1>1, <1>4, <1>6
  <2>2. (s + 1) % c = s + 1
    BY <2>1
  <2>3. (n + 1) % c = s + 1
    BY <1>3, <1>4, <1>6
  <2> QED
    BY <1>4, <2>2, <2>3
<1> QED
  BY <1>5, <1>6

LEMMA ProductGrows ==
    ASSUME NEW a \in Nat, NEW b \in Nat, a =< b, NEW c \in Nat
    PROVE  a * c =< b * c /\ c * a =< c * b
<1>1. PICK d \in Nat : b = a + d
  <2>1. b - a \in Nat /\ b = a + (b - a)
    OBVIOUS
  <2> QED
    BY <2>1
<1>2. b * c = a * c + d * c
  BY <1>1
<1>3. PICK x \in Nat, y \in Nat, z \in Nat : x = a * c /\ y = b * c /\ z = d * c
  BY <1>1
<1>4. c * a = x /\ c * b = y
  BY <1>3
<1> QED
  BY <1>2, <1>3, <1>4

\* Where the boot code looks for a sector: on its track.
LEMMA PlaceByTrack ==
    ASSUME NEW n \in Nat, NEW st \in Nat \ {0}, NEW hd \in Nat \ {0}
    PROVE  Place(n, FALSE, st, hd) = [cyl |-> ((n \div st) \div hd) % Cylinders,
                                      head |-> (n \div st) % hd, sec |-> n % st]
BY TrackOf DEF Place

LEMMA PlaceInside ==
    ASSUME NEW n \in Nat, NEW st \in Nat \ {0}, NEW hd \in Nat \ {0}
    PROVE  LET p == Place(n, FALSE, st, hd) IN
           /\ p.cyl \in Nat /\ p.head \in Nat /\ p.head < hd /\ p.sec \in Nat /\ p.sec < st
           /\ p.sec = n % st
           /\ p.cyl =< (n \div st) \div hd
           /\ n < Cylinders * st * hd => p.cyl = (n \div st) \div hd
<1>1. PICK t \in Nat : t = n \div st
  BY Parts2
<1>2. PICK u \in Nat : u = t \div hd
  BY <1>1, Parts2
<1>3. t % hd \in Nat /\ t % hd < hd /\ n % st \in Nat /\ n % st < st
  BY <1>1, Parts2
<1>4. PICK p : p = [cyl |-> u % Cylinders, head |-> t % hd, sec |-> n % st]
  OBVIOUS
<1>5. p = Place(n, FALSE, st, hd)
  BY <1>1, <1>2, <1>4, PlaceByTrack
<1>6. u % Cylinders \in Nat /\ u % Cylinders =< u /\ (u < Cylinders => u % Cylinders = u)
  BY <1>2, BootAssumption
<1>7. ASSUME n < Cylinders * st * hd PROVE u < Cylinders
  <2>1. PICK m \in Nat \ {0} : m = st * hd
    OBVIOUS
  <2>2. n \div m = u
    BY <1>1, <1>2, <2>1, TrackOf
  <2>3. n = m * u + (n % m) /\ n % m \in Nat
    BY <2>1, <2>2, Parts2
  <2>4. Cylinders * st * hd = m * Cylinders
    BY <2>1, BootAssumption
  <2>5. ~(u < Cylinders) => m * Cylinders =< m * u
    <3>1. Cylinders \in Nat /\ (~(u < Cylinders) => Cylinders =< u)
      BY <1>2, BootAssumption
    <3> QED
      BY <1>2, <2>1, <3>1, ProductGrows
  <2>6. PICK x \in Nat : x = m * Cylinders
    BY <2>1, BootAssumption
  <2>9. PICK y \in Nat : y = m * u
    BY <1>2, <2>1
  <2>7. n < x /\ n = y + (n % m)
    BY <1>7, <2>3, <2>4, <2>6, <2>9
  <2>8. ~(x =< y)
    BY <2>3, <2>6, <2>7, <2>9
  <2> QED
    BY <2>5, <2>6, <2>8, <2>9
<1>8. p.cyl = u % Cylinders /\ p.head = t % hd /\ p.sec = n % st
  BY <1>4
<1> QED
  BY <1>1, <1>2, <1>3, <1>5, <1>6, <1>7, <1>8

\* The BIOS finds the sector there, unless its cylinder cannot be told; then one
\* before it.
LEMMA NumberOfPlace ==
    ASSUME NEW n \in Nat, NEW st \in Nat \ {0}, NEW hd \in Nat \ {0}
    PROVE  LET p == Place(n, FALSE, st, hd)
               x == ((p.cyl * hd) + p.head) * st + p.sec
           IN  x \in Nat /\ x =< n /\ (n < Cylinders * st * hd => x = n)
<1>1. PICK t \in Nat, s \in Nat : t = n \div st /\ s = n % st /\ s < st /\ n = st * t + s
  BY Parts2
<1>2. PICK u \in Nat, v \in Nat : u = t \div hd /\ v = t % hd /\ t = hd * u + v
  <2>1. t \in Nat
    BY <1>1
  <2>2. t \div hd \in Nat /\ t % hd \in Nat /\ t = hd * (t \div hd) + (t % hd)
    BY <2>1, Parts2
  <2> QED
    BY <2>2
<1>3. PICK p : p = Place(n, FALSE, st, hd)
  OBVIOUS
<1>4. /\ p.cyl \in Nat /\ p.cyl =< u /\ (n < Cylinders * st * hd => p.cyl = u)
      /\ p.head = v /\ p.sec = s
  <2>1. p.head = v /\ p.sec = s
    <3>1. p = [cyl |-> u % Cylinders, head |-> v, sec |-> s]
      BY <1>1, <1>2, <1>3, PlaceByTrack
    <3> QED
      BY <3>1
  <2> QED
    BY <1>1, <1>2, <1>3, <2>1, PlaceInside
<1>5. PICK c \in Nat : c = p.cyl
  BY <1>4
<1>6. c * hd + v \in Nat /\ c * hd + v =< t /\ (c = u => c * hd + v = t)
  <2>1. c * hd =< u * hd
    BY <1>2, <1>4, <1>5
  <2>2. PICK y \in Nat, z \in Nat : y = c * hd /\ z = u * hd
    BY <1>2, <1>5
  <2>3. hd * u = z
    BY <1>2, <2>2
  <2>4. c = u => y = z
    BY <2>2
  <2> QED
    BY <1>2, <2>1, <2>2, <2>3, <2>4
<1>7. PICK w \in Nat : w = (c * hd) + v
  BY <1>6
<1>8. w * st + s \in Nat /\ w * st + s =< n /\ (w = t => w * st + s = n)
  <2>1. w * st =< t * st
    <3>1. w =< t
      BY <1>6, <1>7
    <3> QED
      BY <1>1, <1>7, <3>1, ProductGrows
  <2>2. PICK y \in Nat : y = w * st
    BY <1>7
  <2>3. PICK z \in Nat : z = t * st
    BY <1>1
  <2>4. st * t = z
    BY <1>1, <2>3
  <2>5. w = t => y = z
    BY <2>2, <2>3
  <2> QED
    BY <1>1, <2>1, <2>2, <2>3, <2>4, <2>5
<1>9. n < Cylinders * st * hd => w = t
  BY <1>4, <1>5, <1>6, <1>7
<1>10. ((p.cyl * hd) + p.head) * st + p.sec = w * st + s
  BY <1>4, <1>5, <1>7
<1> QED
  BY <1>3, <1>8, <1>9, <1>10

\* What read_sectors_cont_2 goes on to is the place of the sector that comes next.
LEMMA PlaceOnward ==
    ASSUME NEW n \in Nat, NEW a \in Nat, ~byNumber, NEW st \in Nat \ {0}, NEW hd \in Nat \ {0},
           spt = st, heads = hd, (n % st) + a =< st
    PROVE  Onward(Place(n, FALSE, st, hd), a) = Place(n + a, FALSE, st, hd)
<1>1. PICK t \in Nat, s \in Nat : t = n \div st /\ s = n % st
  BY Parts2
<1>2. PICK u \in Nat, v \in Nat : u = t \div hd /\ v = t % hd /\ v < hd
  BY <1>1, Parts2
<1>3. PICK x \in Nat : x = u % Cylinders
  BY <1>2, BootAssumption, Parts2
<1>4. PICK p : p = [cyl |-> x, head |-> v, sec |-> s]
  OBVIOUS
<1>5. Place(n, FALSE, st, hd) = p
  BY <1>1, <1>2, <1>3, <1>4, PlaceByTrack
<1>6. n + a \in Nat
  OBVIOUS
<1>7. Place(n + a, FALSE, st, hd)
        = [cyl |-> (((n + a) \div st) \div hd) % Cylinders,
           head |-> ((n + a) \div st) % hd, sec |-> (n + a) % st]
  BY <1>6, PlaceByTrack
<1>8. IF s + a = st THEN (n + a) \div st = t + 1 /\ (n + a) % st = 0
                     ELSE (n + a) \div st = t /\ (n + a) % st = s + a
  <2>1. CASE s + a = st
    <3>1. (n % st) + a = st
      BY <1>1, <2>1
    <3>2. (n + a) \div st = (n \div st) + 1 /\ (n + a) % st = 0
      BY <3>1, AnotherTrack, ZenonT(40)
    <3> QED
      BY <1>1, <2>1, <3>2
  <2>2. CASE s + a # st
    <3>1. (n % st) + a < st
      BY <1>1, <2>2
    <3>2. (n + a) \div st = n \div st /\ (n + a) % st = (n % st) + a
      BY <3>1, SameTrack, ZenonT(40)
    <3> QED
      BY <1>1, <2>2, <3>2
  <2> QED
    BY <2>1, <2>2
<1>9. p.cyl = x /\ p.head = v /\ p.sec = s
  BY <1>4
<1>10. CASE s + a # st
  <2>1. Onward(p, a) = [p EXCEPT !.sec = s + a]
    BY <1>9, <1>10 DEF Onward
  <2>2. Onward(p, a) = [cyl |-> x, head |-> v, sec |-> s + a]
    BY <1>4, <2>1
  <2>3. Place(n + a, FALSE, st, hd) = [cyl |-> x, head |-> v, sec |-> s + a]
    BY <1>2, <1>3, <1>7, <1>8, <1>10
  <2> QED
    BY <1>5, <2>2, <2>3
<1>11. CASE s + a = st
  <2>1. Onward(p, a) = NextTrack(p)
    BY <1>9, <1>11 DEF Onward
  <2>2. Place(n + a, FALSE, st, hd)
          = [cyl |-> ((t + 1) \div hd) % Cylinders, head |-> (t + 1) % hd, sec |-> 0]
    BY <1>7, <1>8, <1>11
  <2>3. IF v + 1 = hd THEN (t + 1) \div hd = u + 1 /\ (t + 1) % hd = 0
                         ELSE (t + 1) \div hd = u /\ (t + 1) % hd = v + 1
    <3>1. CASE v + 1 = hd
      <4>1. t \in Nat /\ 1 \in Nat /\ (t % hd) + 1 = hd
        BY <1>1, <1>2, <3>1
      <4>2. (t + 1) \div hd = (t \div hd) + 1 /\ (t + 1) % hd = 0
        BY <4>1, AnotherTrack, ZenonT(40)
      <4> QED
        BY <1>2, <3>1, <4>2
    <3>2. CASE v + 1 # hd
      <4>1. t \in Nat /\ 1 \in Nat /\ (t % hd) + 1 < hd
        BY <1>1, <1>2, <3>2
      <4>2. (t + 1) \div hd = t \div hd /\ (t + 1) % hd = (t % hd) + 1
        BY <4>1, SameTrack, ZenonT(40)
      <4> QED
        BY <1>2, <3>2, <4>2
    <3> QED
      BY <3>1, <3>2
  <2>4. CASE v + 1 # hd
    <3>1. v + 1 < hd
      BY <1>2, <2>4
    <3>2. NextTrack(p) = [[p EXCEPT !.head = v + 1] EXCEPT !.sec = 0]
      BY <1>9, <3>1 DEF NextTrack
    <3>3. PICK q : q = [cyl |-> x, head |-> v + 1, sec |-> s]
      OBVIOUS
    <3>4. [p EXCEPT !.head = v + 1] = q
      BY <1>4, <3>3
    <3>5. [q EXCEPT !.sec = 0] = [cyl |-> x, head |-> v + 1, sec |-> 0]
      BY <3>3
    <3>6. Place(n + a, FALSE, st, hd) = [cyl |-> x, head |-> v + 1, sec |-> 0]
      BY <1>3, <2>2, <2>3, <2>4
    <3> QED
      BY <1>5, <2>1, <3>2, <3>4, <3>5, <3>6
  <2>5. CASE v + 1 = hd
    <3>1. NextTrack(p) = [cyl |-> (x + 1) % Cylinders, head |-> 0, sec |-> 0]
      BY <1>9, <2>5 DEF NextTrack
    <3>2. (u + 1) % Cylinders = (x + 1) % Cylinders
      BY <1>2, <1>3, BootAssumption, NextRemainder
    <3>3. Place(n + a, FALSE, st, hd)
            = [cyl |-> (u + 1) % Cylinders, head |-> 0, sec |-> 0]
      BY <2>2, <2>3, <2>5
    <3> QED
      BY <1>5, <2>1, <3>1, <3>2, <3>3
  <2> QED
    BY <2>4, <2>5
<1> QED
  BY <1>10, <1>11

-----------------------------------------------------------------------------
(***************************************************************************)
(* The boot code on any of the copies.                                     *)
(***************************************************************************)

\* What the boot code knows of the BIOS.
BootKnown ==
    /\ bpc # "off" => pc = "idle" /\ mbr[copy].magic /\ bios \in Bioses
    /\ bpc \in {"off", "detect", "load", "booted"} => spt # 0
    /\ bpc = "heads" => ~bios.lba /\ (Base < ByteValues /\ Learnable => spt = bios.spt)
    /\ Running => byNumber = bios.lba
    /\ GeometryKnown /\ faults \in Nat

\* What it has loaded, and where the next sector is.
LoadOK ==
    Running =>
        /\ byNumber \in BOOLEAN /\ mem \in Seq(Int) /\ (job = 4 => file \in Files)
        /\ togo + Len(mem) = (IF job = 2 THEN BootSize ELSE JobSize(job, file))
        /\ place = Place(Seen(JobAt(job, file) + Len(mem)), byNumber, spt, heads)

BootIInv == BootTypeOK /\ BootKnown /\ LoadOK /\ LoadedRight /\ SoundBoots

\* A boot code that can boot knows the geometry or needs none.
LEMMA CertainBoots == ASSUME BootKnown, Running, CanBoot PROVE Certain
BY DEF BootKnown, CanBoot, CanNumber, Certain

\* What can boot can as long as nothing is done to the disk, and no read fails.
LEMMA CanBootStays ==
    ASSUME UNCHANGED <<disk, bios, copy, file, faults>>
    PROVE  CanBoot' <=> CanBoot
BY DEF disk, CanBoot, CanNumber, TestWorks, Learnable, SptSector, HeadsSector, OnDisk, Behind, Seen

\* Nothing more is done to the disk.
LEMMA DiskStays ==
    ASSUME UNCHANGED disk
    PROVE  UNCHANGED vars
BY DEF disk, vars

\* A job is behind the copies.
LEMMA JobPlace ==
    ASSUME NEW j \in 1 .. 4, NEW f, j = 4 => f \in Files
    PROVE  /\ JobAt(j, f) \in Nat /\ JobAt(j, f) > Base /\ JobSize(j, f) \in Nat
           /\ j # 4 => /\ JobAt(j, f) + JobSize(j, f) =< DiskSize
                       /\ j = 2 => JobAt(j, f) + BootSize =< DiskSize
<1>1. CASE j = 4
  <2>1. f.at \in Nat /\ f.at > Base /\ f.size \in Nat \ {0}
    BY <1>1, BootAssumption
  <2>2. Block(f) \in Nat \ {0}
    BY BootAssumption DEF Block
  <2>3. PICK b \in Nat \ {0} : b = Block(f)
    BY <2>2
  <2>4. f.size + b - 1 \in Nat
    BY <2>1, <2>3
  <2>5. Count(f) \in Nat
    BY <2>3, <2>4, Parts2 DEF Count
  <2> QED
    BY <1>1, <2>1, <2>5 DEF JobAt, JobSize
<1>2. CASE j = 3
  BY <1>2, BootAssumption, CopiesAssumption DEF JobAt, JobSize
<1>3. CASE j = 2
  BY <1>3, BootAssumption, CopiesAssumption DEF JobAt, JobSize
<1>4. CASE j = 1
  BY <1>4, BootAssumption, CopiesAssumption DEF JobAt, JobSize
<1> QED
  BY <1>1, <1>2, <1>3, <1>4

\* A sector behind the copies has a number for the boot code.
LEMMA SeenNumber ==
    ASSUME CopiesInv, copy \in Copies, mbr[copy].magic, NEW s \in Int
    PROVE  /\ Seen(s) = s - mbr[copy].lba /\ mbr[copy].lba \in Nat /\ mbr[copy].lba =< copy
           /\ s > Base => Seen(s) \in Nat
<1>1. mbr[copy].lba = copy % ByteValues /\ copy \in Nat /\ copy =< Base /\ Base \in Nat
  BY CopyNumbers, CopiesAssumption DEF CopiesInv, NumbersOK, Lba
<1>2. copy % ByteValues \in Nat /\ copy % ByteValues =< copy
  <2>1. PICK q \in Nat, l \in Nat : l = copy % ByteValues /\ q = copy \div ByteValues
                                    /\ copy = ByteValues * q + l
    BY <1>1, CopiesAssumption, Parts2
  <2>2. PICK x \in Nat : x = ByteValues * q
    BY <2>1, CopiesAssumption
  <2>3. copy = x + l
    BY <2>1, <2>2
  <2>4. l \in Nat /\ l =< copy
    BY <1>1, <2>2, <2>3
  <2> QED
    BY <2>1, <2>4
<1> QED
  BY <1>1, <1>2 DEF Seen

\* Where the copies can be counted in a byte, the BIOS finds it by that number.
LEMMA SeenRight ==
    ASSUME CopiesInv, copy \in Copies, mbr[copy].magic, Base < ByteValues, NEW s \in Int
    PROVE  mbr[copy].lba = copy /\ Seen(s) = s - copy /\ OnDisk(Seen(s)) = s
<1>1. mbr[copy].lba = copy /\ copy \in Nat
  BY CopyNumbers, NumberIsSector DEF CopiesInv, NumbersOK
<1> QED
  BY <1>1 DEF Seen, OnDisk

\* The BIOS and what the boot code knows of it.
LEMMA BiosOK ==
    ASSUME BootKnown, bpc # "off"
    PROVE  /\ bios.spt \in Nat \ {0} /\ bios.heads \in Nat \ {0} /\ bios.most \in Nat \ {0}
           /\ bios.lba \in BOOLEAN
           /\ bios.spt \in 1 .. MaxSpt /\ bios.heads \in 1 .. ByteValues - 1
<1>1. bios \in Bioses
  BY DEF BootKnown
<1>2. bios.spt \in 1 .. MaxSpt /\ bios.heads \in 1 .. ByteValues - 1
  BY <1>1, BootAssumption
<1> QED
  BY <1>1, <1>2, BootAssumption

\* Where the next sector is.
LEMMA NextSector ==
    ASSUME CopiesInv, BootIInv, Running, NEW s, s = JobAt(job, file) + Len(mem)
    PROVE  /\ s \in Nat /\ s > Base /\ Seen(s) \in Nat
           /\ place = Place(Seen(s), byNumber, spt, heads)
           /\ Sector(place) \in Int /\ place.sec \in Nat
           /\ ~byNumber => place.sec < spt /\ place.sec = Seen(s) % spt
           /\ Certain => /\ Sector(place) =< s
                         /\ Sector(place) = s \/ Behind(s)
                         /\ ~byNumber => place.head < bios.heads
<1>1. /\ job \in 1 .. 4 /\ (job = 4 => file \in Files) /\ mem \in Seq(Int)
      /\ copy \in Copies /\ mbr[copy].magic /\ spt \in Nat \ {0} /\ heads \in Nat \ {0}
      /\ bpc # "off" /\ byNumber \in BOOLEAN
      /\ place = Place(Seen(s), byNumber, spt, heads)
  BY DEF BootIInv, BootTypeOK, BootKnown, LoadOK, Running
<1>2. Len(mem) \in Nat
  BY <1>1
<1>3. s \in Nat /\ s > Base
  <2>1. JobAt(job, file) \in Nat /\ JobAt(job, file) > Base
    BY <1>1, JobPlace
  <2> QED
    BY <1>2, <2>1, CopiesAssumption
<1>4. PICK n \in Nat : n = Seen(s)
  BY <1>1, <1>3, SeenNumber
<1>5. ASSUME Certain PROVE n = s - copy
  BY <1>1, <1>3, <1>4, <1>5, SeenRight DEF Certain
<1>6. copy \in Nat
  BY <1>1, CopyNumbers
<1>7. CASE byNumber
  <2>1. place = [cyl |-> 0, head |-> 0, sec |-> n]
    BY <1>1, <1>4, <1>7 DEF Place
  <2>2. place.sec = n
    BY <2>1
  <2>3. Sector(place) = copy + n
    BY <1>7, <2>2 DEF Sector, OnDisk
  <2>4. Sector(place) \in Int /\ (Certain => Sector(place) = s)
    BY <1>3, <1>4, <1>5, <1>6, <2>3
  <2>5. Certain => Sector(place) =< s
    BY <1>3, <2>4
  <2> QED
    BY <1>1, <1>3, <1>4, <1>7, <2>2, <2>4, <2>5
<1>8. CASE ~byNumber
  <2>1. byNumber = FALSE
    BY <1>1, <1>8
  <2>2. Certain => spt = bios.spt /\ heads = bios.heads
    BY <1>8 DEF BootIInv, BootKnown, GeometryKnown
  <2>3. PICK st \in Nat \ {0} : st = spt
    BY <1>1
  <2>4. PICK hd \in Nat \ {0} : hd = heads
    BY <1>1
  <2>5. place = Place(n, FALSE, st, hd)
    BY <1>1, <1>4, <2>1, <2>3, <2>4
  <2>6. /\ place.cyl \in Nat /\ place.head \in Nat /\ place.head < hd /\ place.sec \in Nat
        /\ place.sec < st /\ place.sec = n % st
    BY <2>5, PlaceInside
  <2>7. Sector(place) \in Int
    <3>1. bios.spt \in Nat /\ bios.heads \in Nat
      BY <1>1, BiosOK DEF BootIInv
    <3>2. PICK y \in Nat : y = place.cyl * bios.heads
      BY <2>6, <3>1
    <3>3. PICK z \in Nat : z = (y + place.head) * bios.spt
      BY <2>6, <3>1, <3>2
    <3> QED
      BY <1>6, <1>8, <2>6, <3>2, <3>3 DEF Sector, Numbered, OnDisk
  <2>8. ASSUME Certain
        PROVE  Sector(place) =< s /\ (Sector(place) = s \/ Behind(s)) /\ place.head < bios.heads
    <3>1. PICK x : x = ((place.cyl * hd) + place.head) * st + place.sec
      OBVIOUS
    <3>2. x \in Nat /\ x =< n /\ (n < Cylinders * st * hd => x = n)
      BY <2>5, <3>1, NumberOfPlace
    <3>3. st = bios.spt /\ hd = bios.heads
      BY <2>2, <2>3, <2>4, <2>8
    <3>4. Sector(place) = copy + x
      BY <1>8, <3>1, <3>3 DEF Sector, Numbered, OnDisk
    <3>5. ~Behind(s) => n < Cylinders * st * hd
      <4>1. Cylinders * st * hd \in Nat
        BY BootAssumption
      <4>2. ~CanNumber
        BY <1>8 DEF BootIInv, BootKnown, CanNumber
      <4> QED
        BY <1>4, <3>3, <4>1, <4>2 DEF Behind
    <3>6. copy + x =< s /\ (x = n => copy + x = s)
      BY <1>3, <1>5, <1>6, <2>8, <3>2
    <3> QED
      BY <2>6, <3>2, <3>3, <3>4, <3>5, <3>6
  <2> QED
    BY <1>1, <1>3, <1>4, <1>8, <2>3, <2>6, <2>7, <2>8
<1> QED
  BY <1>7, <1>8

\* A call asks for a sector at least, and stays on the track.
LEMMA AskedOK ==
    ASSUME CopiesInv, BootIInv, Loading
    PROVE  /\ Asked \in Nat \ {0} /\ Asked =< togo /\ Asked =< maxsec
           /\ ~byNumber => place.sec + Asked =< spt
<1>1. Running /\ bpc = "load" /\ togo \in Nat \ {0} /\ maxsec \in Nat \ {0} /\ spt \in Nat \ {0}
  BY BootAssumption DEF Loading, Running, BootIInv, BootTypeOK, BootKnown
<1>2. place.sec \in Nat /\ (~byNumber => place.sec < spt)
  <2>1. PICK s : s = JobAt(job, file) + Len(mem)
    OBVIOUS
  <2> QED
    BY <1>1, <2>1, NextSector
<1>3. CASE byNumber
  BY <1>1, <1>3 DEF Asked, Min2
<1>4. CASE ~byNumber
  <2>1. spt - place.sec \in Nat \ {0}
    BY <1>1, <1>2, <1>4
  <2>2. Min2(spt - place.sec, maxsec) \in Nat \ {0}
        /\ Min2(spt - place.sec, maxsec) =< spt - place.sec
        /\ Min2(spt - place.sec, maxsec) =< maxsec
    BY <1>1, <2>1 DEF Min2
  <2>3. PICK m \in Nat \ {0} : m = Min2(spt - place.sec, maxsec)
    BY <2>2
  <2>4. Asked = Min2(togo, m)
    BY <1>4, <2>3 DEF Asked
  <2>5. Asked \in Nat \ {0} /\ Asked =< togo /\ Asked =< m
    BY <1>1, <2>3, <2>4 DEF Min2
  <2> QED
    BY <1>1, <1>2, <2>1, <2>2, <2>3, <2>5
<1> QED
  BY <1>3, <1>4

LEMMA BootStarts == BootInit => CopiesInv /\ FreshIInv /\ BootIInv
<1> SUFFICES ASSUME BootInit PROVE CopiesInv /\ FreshIInv /\ BootIInv
  OBVIOUS
<1>1. Init /\ bpc = "off"
  BY DEF BootInit
<1>2. CopiesInv /\ FreshIInv
  BY <1>1, CopiesInit, FreshInit
<1>3. BootTypeOK
  <2>1. MaxSec \in 1 .. MaxSec
    BY BootAssumption
  <2> QED
    BY <1>1, <2>1, CopyNumbers DEF BootInit, BootTypeOK
<1>4. BootKnown /\ LoadOK /\ LoadedRight /\ SoundBoots
  BY <1>1 DEF BootInit, BootKnown, LoadOK, LoadedRight, SoundBoots, GeometryKnown, Running
<1> QED
  BY <1>2, <1>3, <1>4 DEF BootIInv

\* The machine starts from a copy, and nothing that was promised of the disk changes.
LEMMA PowerOnKeeps ==
    ASSUME CopiesInv, FreshIInv, BootIInv, NEW i \in Copies, NEW b \in Bioses, PowerOn(i, b)
    PROVE  CopiesInv' /\ FreshIInv' /\ BootIInv'
<1>1. /\ bpc = "off" /\ pc = "idle" /\ mbr[i].magic /\ copy' = i /\ bios' = b
      /\ bpc' = "detect" /\ buf' = Alien(<<>>) /\ cur' = 0 /\ last' = 0
      /\ UNCHANGED <<mbr, head, pc, marked, gone, done, file, byNumber, spt, heads, maxsec, job, place,
                     togo, mem, faults>>
  BY DEF PowerOn
<1>2. IsSector(Alien(<<>>)) /\ Alien(<<>>) \in SectorType
  <2>1. <<>> \in Seq(Int)
    OBVIOUS
  <2>2. Alien(<<>>) \in SectorType
    BY <2>1, AlienSector, Zenon
  <2>3. IsSector(Alien(<<>>))
    BY CopiesAssumption DEF IsSector, Alien
  <2> QED
    BY <2>2, <2>3
<1>3. CopiesInv'
  BY <1>1, <1>2 DEF CopiesInv, SectorsOK, LoopOK, BufferOK, NumbersOK, AloneOK, Intact,
                    Syncing
<1>4. FreshIInv'
  <2>1. TypeOK' /\ pc' \in Phases
    <3>1. 0 \in Nat /\ 0 \in Copies
      BY CopyNumbers
    <3> QED
      BY <1>1, <1>2, <3>1 DEF FreshIInv, TypeOK
  <2>2. TablesOK'
    BY <1>1 DEF TablesOK
  <2>3. WrittenOK' /\ CommandOK'
    BY <1>1 DEF FreshIInv, WrittenOK, CommandOK, Syncing
  <2>4. Fresh' \subseteq Fresh
    <3>1. last \in Copies /\ 0 .. 0 \subseteq 0 .. last
      <4>1. last \in Copies
        BY DEF FreshIInv, TypeOK
      <4>2. last \in Nat
        BY <4>1, CopyNumbers
      <4> QED
        BY <4>1, <4>2
    <3> QED
      BY <1>1, <3>1 DEF Fresh
  <2>5. TablesFollow' /\ CodeMatches'
    BY <1>1, <2>4 DEF FreshIInv, TablesFollow, CodeMatches, Intact
  <2> QED
    BY <2>1, <2>2, <2>3, <2>5 DEF FreshIInv
<1>5. BootIInv'
  <2>1. BootTypeOK'
    BY <1>1 DEF BootIInv, BootTypeOK
  <2>2. BootKnown' /\ LoadOK' /\ LoadedRight' /\ SoundBoots'
    BY <1>1 DEF BootIInv, BootKnown, LoadOK, LoadedRight, SoundBoots, GeometryKnown, Running
  <2> QED
    BY <2>1, <2>2 DEF BootIInv
<1> QED
  BY <1>3, <1>4, <1>5

\* The load begins with the first sector of the second stage.
LEMMA LoadStageKeeps ==
    ASSUME CopiesInv, BootIInv, NEW byN \in BOOLEAN, NEW st \in Nat \ {0}, NEW hd \in Nat \ {0},
           LoadStage(byN, st, hd), UNCHANGED <<disk, bios, copy, file, maxsec, faults>>,
           bpc # "off", byN = bios.lba,
           ~byN /\ Base < ByteValues /\ Learnable => st = bios.spt /\ hd = bios.heads
    PROVE  BootIInv'
<1>1. /\ bpc' = "load" /\ byNumber' = byN /\ spt' = st /\ heads' = hd
      /\ job' = 1 /\ togo' = 1 /\ mem' = <<>> /\ place' = Place(Seen(Base + 1), byN, st, hd)
      /\ UNCHANGED <<mbr, pc, marked, gone, bios, copy, file, maxsec, faults>>
  BY DEF LoadStage, disk, run
<1>2. mem' \in Seq(Int) /\ Len(mem') = 0 /\ DOMAIN mem' = {}
  BY <1>1
<1>3. JobAt(1, file) = Base + 1 /\ JobSize(1, file) = 1
  BY DEF JobAt, JobSize
<1>4. BootTypeOK'
  <2>1. 1 \in Nat /\ 1 \in 1 .. 4 /\ 1 + 0 = 1
    OBVIOUS
  <2> QED
    BY <1>1, <1>2, <1>3, <2>1 DEF BootIInv, BootTypeOK, JobSize
<1>5. BootKnown'
  <2>1. Learnable' <=> Learnable
    BY <1>1 DEF Learnable, SptSector, HeadsSector, OnDisk
  <2> QED
    BY <1>1, <2>1 DEF BootIInv, BootKnown, GeometryKnown, Running, Certain
<1>6. LoadOK'
  <2>1. togo' + Len(mem') = 1 /\ Base + 1 + Len(mem') = Base + 1
    BY <1>1, <1>2, CopiesAssumption
  <2>2. JobAt(job', file') = Base + 1 /\ JobSize(job', file') = 1 /\ job' # 2 /\ job' # 4
    BY <1>1, <1>3
  <2>3. Seen(Base + 1)' = Seen(Base + 1)
    BY <1>1 DEF Seen
  <2>4. place' = Place(Seen(JobAt(job, file) + Len(mem))', byNumber', spt', heads')
    BY <1>1, <2>1, <2>2, <2>3 DEF Seen
  <2> QED
    BY <1>1, <1>2, <2>1, <2>2, <2>4 DEF LoadOK
<1>7. LoadedRight' /\ SoundBoots'
  BY <1>1, <1>2 DEF LoadedRight, SoundBoots
<1> QED
  BY <1>4, <1>5, <1>6, <1>7 DEF BootIInv

LEMMA UseNumbersKeeps == ASSUME CopiesInv, BootIInv, UseNumbers PROVE BootIInv'
<1>1. spt \in Nat \ {0} /\ heads \in Nat \ {0} /\ bpc # "off" /\ bios.lba = TRUE
  <2>1. bpc = "detect" /\ bios.lba
    BY DEF UseNumbers, CanNumber
  <2> QED
    BY <2>1, BiosOK DEF BootIInv, BootTypeOK, BootKnown
<1> QED
  BY <1>1, LoadStageKeeps DEF UseNumbers

\* A product of the sectors of a track and the heads is a word.
LEMMA GeometryIsWord ==
    ASSUME NEW st \in 1 .. MaxSpt, NEW hd \in 1 .. ByteValues - 1
    PROVE  st * hd \in Nat /\ st =< st * hd /\ st * hd < WordValues
<1>1. MaxSpt \in Nat /\ ByteValues \in Nat /\ st \in Nat /\ hd \in Nat
  BY BootAssumption, CopiesAssumption
<1>2. st * 1 =< st * hd
  BY <1>1, ProductGrows
<1>3. st * hd =< MaxSpt * hd /\ MaxSpt * hd =< MaxSpt * ByteValues
  BY <1>1, ProductGrows
<1>4. PICK x \in Nat, y \in Nat, z \in Nat :
        x = st * hd /\ y = MaxSpt * hd /\ z = MaxSpt * ByteValues
  BY <1>1
<1>5. (MaxSpt + 1) * ByteValues = z + ByteValues
  BY <1>1, <1>4
<1>6. WordValues \in Nat /\ (MaxSpt + 1) * ByteValues =< WordValues /\ ByteValues # 0
  BY BootAssumption, CopiesAssumption
<1>7. st =< x
  BY <1>2, <1>4
<1>8. x < WordValues
  BY <1>1, <1>3, <1>4, <1>5, <1>6
<1> QED
  BY <1>4, <1>7, <1>8

\* To count from another sector, in words.
LEMMA WordDifference ==
    ASSUME NEW s \in Nat, NEW c \in Nat, NEW w \in Nat \ {0}, c =< s, s - c < w
    PROVE  (s - c) % w = s - c /\ ((s % w) - c) % w = s - c
<1>1. PICK q \in Nat, r \in Nat : r = s % w /\ s = w * q + r
  BY Parts2
<1>2. PICK d \in Nat : d = s - c /\ d < w
  OBVIOUS
<1>3. (w * (0 - q) + d) % w = d /\ (w * 0 + d) % w = d
  <2>1. 0 - q \in Int /\ 0 \in Int
    BY <1>1
  <2> QED
    BY <1>2, <2>1, Quotient
<1>4. w * (0 - q) = 0 - w * q /\ w * 0 = 0
  BY <1>1
<1>5. r - c = w * (0 - q) + d
  <2>1. PICK x \in Nat : x = w * q
    BY <1>1
  <2> QED
    BY <1>1, <1>2, <1>4, <2>1
<1>6. (s % w) - c = w * (0 - q) + d
  BY <1>1, <1>5
<1>7. s - c = w * 0 + d
  BY <1>2, <1>4
<1> QED
  BY <1>2, <1>3, <1>6, <1>7

LEMMA WordsThere == WordValues \in Nat \ {0}
<1>1. PICK m \in Nat, b \in Nat \ {0} : m = MaxSpt /\ b = ByteValues
  BY BootAssumption, CopiesAssumption
<1>2. (m + 1) * b =< WordValues /\ WordValues \in Nat
  BY <1>1, BootAssumption
<1>3. 1 * b =< (m + 1) * b
  BY <1>1, ProductGrows
<1>4. PICK x \in Nat : x = (m + 1) * b
  BY <1>1
<1> QED
  BY <1>1, <1>2, <1>3, <1>4

\* The number in a sector that was not overwritten is the sector.
LEMMA NumberRight ==
    ASSUME CopiesInv, FreshIInv, copy \in Copies, mbr[copy].magic, Base < ByteValues,
           NEW s \in Nat, s \notin gone, s < marked, copy =< s, s - copy < WordValues
    PROVE  HasNumber(s) /\ \A word \in EndWords(s) : CalcLba(word) = s - copy
<1>1. head # NoCode
  <2>1. marked \in Nat
    BY DEF FreshIInv, TypeOK
  <2>2. marked # 0
    BY <2>1
  <2> QED
    BY <2>2 DEF FreshIInv, CommandOK
<1>2. s \in Copies => mbr[s].magic /\ mbr[s].lba = s
  BY <1>1, NumberIsSector DEF CopiesInv, AloneOK, Intact
<1>3. HasNumber(s)
  BY <1>2 DEF HasNumber
<1>4. mbr[copy].lba = copy /\ copy \in Nat
  BY SeenRight, CopyNumbers
<1>5. WordValues \in Nat \ {0}
  BY WordsThere
<1>6. (s - copy) % WordValues = s - copy /\ ((s % WordValues) - copy) % WordValues = s - copy
  BY <1>4, <1>5, WordDifference
<1> QED
  BY <1>2, <1>3, <1>4, <1>6 DEF EndWords, CalcLba

\* So the two sectors tell the geometry, if they can.
LEMMA GeometryTold ==
    ASSUME CopiesInv, FreshIInv, BootIInv, bpc # "off", Base < ByteValues, Learnable
    PROVE  /\ HasNumber(SptSector) /\ HasNumber(HeadsSector)
           /\ SptSector \in Nat /\ SptSector =< HeadsSector
           /\ \A word \in EndWords(SptSector) : CalcLba(word) % ByteValues = bios.spt
           /\ \A word \in EndWords(HeadsSector) : CalcLba(word) \div bios.spt = bios.heads
<1>1. copy \in Copies /\ mbr[copy].magic /\ copy \in Nat
  BY CopyNumbers DEF BootIInv, BootTypeOK, BootKnown
<1>2. PICK st \in 1 .. MaxSpt, hd \in 1 .. ByteValues - 1 : st = bios.spt /\ hd = bios.heads
  BY BiosOK DEF BootIInv
<1>3. PICK m \in Nat : m = st * hd /\ st =< m /\ m < WordValues
  BY GeometryIsWord
<1>4. SptSector = copy + st /\ HeadsSector = copy + m
  BY <1>2, <1>3 DEF SptSector, HeadsSector, OnDisk
<1>5. /\ SptSector \in Nat /\ HeadsSector \in Nat /\ SptSector =< HeadsSector
      /\ SptSector - copy = st /\ HeadsSector - copy = m
      /\ copy =< SptSector /\ copy =< HeadsSector
      /\ SptSector - copy < WordValues /\ HeadsSector - copy < WordValues
  BY <1>1, <1>3, <1>4, BootAssumption
<1>6. SptSector < marked /\ HeadsSector < marked /\ SptSector \notin gone /\ HeadsSector \notin gone
  BY <1>5 DEF Learnable, FreshIInv, TypeOK
<1>7. HasNumber(SptSector) /\ \A word \in EndWords(SptSector) : CalcLba(word) = st
  BY <1>1, <1>5, <1>6, NumberRight
<1>8. HasNumber(HeadsSector) /\ \A word \in EndWords(HeadsSector) : CalcLba(word) = m
  BY <1>1, <1>5, <1>6, NumberRight
<1>9. st % ByteValues = st
  BY <1>2, BootAssumption, CopiesAssumption
<1>10. m \div st = hd
  <2>1. st \in Nat \ {0} /\ hd \in Int /\ 0 \in Nat /\ 0 < st
    BY BootAssumption, CopiesAssumption
  <2>2. (st * hd + 0) \div st = hd
    BY <2>1, Quotient
  <2>3. st * hd + 0 = m
    BY <1>3
  <2> QED
    BY <2>2, <2>3
<1> QED
  BY <1>2, <1>5, <1>7, <1>8, <1>9, <1>10

LEMMA FindSptKeeps == ASSUME CopiesInv, FreshIInv, BootIInv, FindSpt PROVE BootIInv'
<1>1. /\ bpc = "detect" /\ bpc' = "heads" /\ ~bios.lba
      /\ UNCHANGED <<mbr, pc, marked, gone, bios, copy, file, byNumber, heads, maxsec, job, place,
                     togo, mem, faults>>
  BY DEF FindSpt, disk, run, CanNumber
<1>2. PICK word \in EndWords(SptSector) : spt' = CalcLba(word) % ByteValues
  BY DEF FindSpt
<1>3. spt' \in Nat
  <2>1. word \in Int
    <3>1. CASE ~HasNumber(SptSector)
      BY <3>1, BootAssumption DEF EndWords
    <3>2. CASE HasNumber(SptSector) /\ SptSector \in Copies
      BY <3>2 DEF EndWords, FreshIInv, TypeOK, SectorType
    <3>3. CASE HasNumber(SptSector) /\ SptSector \notin Copies
      <4>1. copy \in Nat /\ bios.spt \in Nat
        BY <1>1, BiosOK, CopyNumbers DEF BootIInv, BootTypeOK
      <4>2. SptSector \in Nat /\ WordValues \in Nat \ {0}
        BY <4>1, WordsThere DEF SptSector, OnDisk
      <4> QED
        BY <3>3, <4>2 DEF EndWords
    <3> QED
      BY <3>1, <3>2, <3>3
  <2>2. mbr[copy].lba \in Int /\ WordValues \in Nat \ {0}
    BY WordsThere DEF BootIInv, BootTypeOK, FreshIInv, TypeOK, SectorType
  <2>3. CalcLba(word) \in Int
    BY <2>1, <2>2 DEF CalcLba
  <2> QED
    BY <1>2, <2>3, CopiesAssumption
<1>4. BootTypeOK'
  BY <1>1, <1>3 DEF BootIInv, BootTypeOK
<1>5. ~Running'
  BY <1>1 DEF Running
<1>6. BootKnown'
  <2>1. Learnable' <=> Learnable
    BY <1>1 DEF Learnable, SptSector, HeadsSector, OnDisk
  <2>2. Base < ByteValues /\ Learnable => spt' = bios.spt
    BY <1>1, <1>2, GeometryTold
  <2> QED
    BY <1>1, <1>5, <2>1, <2>2 DEF BootIInv, BootKnown, GeometryKnown
<1>7. LoadOK' /\ LoadedRight' /\ SoundBoots'
  BY <1>1, <1>5 DEF LoadOK, LoadedRight, SoundBoots
<1> QED
  BY <1>4, <1>6, <1>7 DEF BootIInv

LEMMA FindHeadsKeeps == ASSUME CopiesInv, FreshIInv, BootIInv, FindHeads PROVE BootIInv'
<1>1. bpc = "heads" /\ spt \in 1 .. MaxSpt
  BY DEF FindHeads
<1>2. PICK word \in EndWords(HeadsSector) :
         /\ CalcLba(word) \div spt \in 1 .. ByteValues - 1
         /\ LoadStage(FALSE, spt, CalcLba(word) \div spt)
  BY DEF FindHeads
<1>3. PICK st \in Nat \ {0} : st = spt
  BY <1>1, BootAssumption
<1>4. PICK hd \in Nat \ {0} : hd = CalcLba(word) \div spt
  BY <1>2, CopiesAssumption
<1>5. bios.lba = FALSE
  BY <1>1, BiosOK DEF BootIInv, BootKnown
<1>6. Base < ByteValues /\ Learnable => st = bios.spt /\ hd = bios.heads
  <2> SUFFICES ASSUME Base < ByteValues, Learnable PROVE st = bios.spt /\ hd = bios.heads
    OBVIOUS
  <2>1. spt = bios.spt
    BY <1>1 DEF BootIInv, BootKnown
  <2>2. CalcLba(word) \div bios.spt = bios.heads
    BY <1>1, GeometryTold
  <2> QED
    BY <1>3, <1>4, <2>1, <2>2
<1>7. LoadStage(FALSE, st, hd) /\ UNCHANGED <<disk, bios, copy, file, maxsec, faults>>
  BY <1>2, <1>3, <1>4 DEF FindHeads
<1> QED
  BY <1>1, <1>5, <1>6, <1>7, LoadStageKeeps

\* A boot that ends before it loads.
LEMMA GiveUpKeeps ==
    ASSUME BootIInv, NEW how \in SUBSET {"lost", "halted"}, GiveUp(how), ~CanBoot',
           faults' \in Nat, bpc # "off"
    PROVE  BootIInv'
<1>1. /\ bpc' \in {"lost", "halted"}
      /\ UNCHANGED <<bios, copy, file, byNumber, spt, heads, maxsec, job, place, togo, mem>>
  BY DEF GiveUp
<1>2. BootTypeOK'
  BY <1>1 DEF BootIInv, BootTypeOK
<1>3. BootKnown' /\ LoadOK' /\ LoadedRight'
  <2>1. ~Running'
    BY <1>1 DEF Running
  <2>2. BootKnown'
    <3>1. bpc # "off" => pc' = "idle" /\ mbr'[copy'].magic /\ bios' \in Bioses
      BY <1>1 DEF GiveUp, disk, run, BootIInv, BootKnown
    <3> QED
      BY <1>1, <2>1, <3>1 DEF BootKnown, GeometryKnown
  <2> QED
    BY <2>1, <2>2 DEF LoadOK, LoadedRight
<1>4. SoundBoots'
  BY DEF SoundBoots
<1> QED
  BY <1>2, <1>3, <1>4 DEF BootIInv

LEMMA FaultCounts ==
    ASSUME BootIInv, Fault
    PROVE  faults' \in Nat /\ faults' # 0 /\ ~CanBoot'
<1>1. faults \in Nat /\ faults' = faults + 1
  BY DEF BootIInv, BootKnown, Fault
<1>2. faults' \in Nat /\ faults' # 0
  BY <1>1
<1> QED
  BY <1>2 DEF CanBoot

LEMMA TestFailsKeeps == ASSUME BootIInv, TestFails PROVE BootIInv'
<1>1. bpc = "detect" /\ bios.lba /\ GiveUp({"lost", "halted"})
  BY DEF TestFails, CanNumber
<1>2. faults' \in Nat /\ ~CanBoot'
  <2>1. CASE TestWorks
    BY <2>1, FaultCounts DEF TestFails
  <2>2. CASE ~TestWorks
    <3>1. faults' = faults /\ faults \in Nat
      BY <2>2 DEF TestFails, BootIInv, BootKnown
    <3>2. bios' = bios /\ copy' = copy
      BY <1>1 DEF GiveUp
    <3>3. ~TestWorks' /\ CanNumber'
      BY <1>1, <2>2, <3>2 DEF TestWorks, OnDisk, CanNumber
    <3> QED
      BY <3>1, <3>3 DEF CanBoot
  <2> QED
    BY <2>1, <2>2
<1> QED
  BY <1>1, <1>2, GiveUpKeeps

\* A disk that can boot is not taken for one of another program, and its geometry is one.
LEMMA BadGeometryKeeps ==
    ASSUME CopiesInv, FreshIInv, BootIInv, BadGeometry \/ NotOurs
    PROVE  BootIInv'
<1>1. /\ bpc \in {"detect", "heads"} /\ ~bios.lba /\ faults' = faults
      /\ GiveUp({"lost"}) \/ GiveUp({"halted"})
  BY DEF BadGeometry, NotOurs, Probing, CanNumber, BootIInv, BootKnown
<1>2. CanBoot' <=> CanBoot
  <2>1. UNCHANGED <<disk, bios, copy, file, faults>>
    BY <1>1 DEF GiveUp
  <2> QED
    BY <2>1, CanBootStays
<1>3. ~CanBoot
  <2> SUFFICES ASSUME CanBoot PROVE FALSE
    OBVIOUS
  <2>1. Base < ByteValues /\ Learnable
    BY <1>1 DEF CanBoot, CanNumber
  <2>2. HasNumber(SptSector) /\ HasNumber(HeadsSector)
    BY <1>1, <2>1, GeometryTold
  <2>3. CASE NotOurs
    BY <2>2, <2>3 DEF NotOurs, Probed
  <2>4. CASE BadGeometry
    <3>1. spt = bios.spt
      BY <2>1, <2>4 DEF BadGeometry, BootIInv, BootKnown
    <3>2. bios.spt \in 1 .. MaxSpt /\ bios.heads \in 1 .. ByteValues - 1
      BY <1>1, BiosOK DEF BootIInv
    <3>3. \A word \in EndWords(HeadsSector) : CalcLba(word) \div bios.spt = bios.heads
      BY <1>1, <2>1, GeometryTold
    <3> QED
      BY <2>4, <3>1, <3>2, <3>3 DEF BadGeometry
  <2> QED
    BY <2>3, <2>4
<1>4. faults' \in Nat
  BY <1>1 DEF BootIInv, BootKnown
<1>5. {"lost"} \in SUBSET {"lost", "halted"} /\ {"halted"} \in SUBSET {"lost", "halted"}
  OBVIOUS
<1> QED
  BY <1>1, <1>2, <1>3, <1>4, <1>5, GiveUpKeeps

LEMMA ReadRefusedKeeps == ASSUME CopiesInv, FreshIInv, BootIInv, ReadRefused PROVE BootIInv'
<1>1. bpc \in {"detect", "heads"} /\ ~bios.lba /\ GiveUp({"halted"})
  BY DEF ReadRefused, Probing, CanNumber, BootIInv, BootKnown
<1>2. faults' \in Nat /\ ~CanBoot'
  <2>1. CASE ProbeThere
    BY <2>1, FaultCounts DEF ReadRefused
  <2>2. CASE ~ProbeThere
    <3>1. faults' = faults /\ faults \in Nat
      BY <2>2 DEF ReadRefused, BootIInv, BootKnown
    <3>2. CanBoot' <=> CanBoot
      <4>1. UNCHANGED <<disk, bios, copy, file, faults>>
        BY <1>1, <3>1 DEF GiveUp
      <4> QED
        BY <4>1, CanBootStays
    <3>3. ~CanBoot
      <4> SUFFICES ASSUME CanBoot PROVE FALSE
        OBVIOUS
      <4>1. Base < ByteValues /\ Learnable /\ bios.heads > 1 /\ HeadsSector < DiskSize
        BY <1>1 DEF CanBoot, CanNumber
      <4>2. SptSector \in Nat /\ SptSector =< HeadsSector
        BY <1>1, <4>1, GeometryTold
      <4>3. HeadsSector \in Int /\ DiskSize \in Nat
        <5>1. copy \in Nat /\ bios.spt \in Nat /\ bios.heads \in Nat
          BY <1>1, BiosOK, CopyNumbers DEF BootIInv, BootTypeOK
        <5>2. bios.spt * bios.heads \in Nat
          BY <5>1
        <5> QED
          BY <5>1, <5>2, BootAssumption DEF HeadsSector, OnDisk
      <4>4. Probed < DiskSize
        BY <4>1, <4>2, <4>3 DEF Probed
      <4> QED
        BY <2>2, <4>1, <4>4 DEF ProbeThere
    <3> QED
      BY <3>1, <3>2, <3>3
  <2> QED
    BY <2>1, <2>2
<1>3. {"halted"} \in SUBSET {"lost", "halted"}
  OBVIOUS
<1> QED
  BY <1>1, <1>2, <1>3, GiveUpKeeps

\* A call reads the sectors that come next.
LEMMA ReadSectorsKeeps == ASSUME CopiesInv, BootIInv, ReadSectors PROVE BootIInv'
<1>1. /\ bpc = "load" /\ bpc' = bpc /\ Running /\ Loading
      /\ mem' = mem \o [k \in 1 .. Asked |-> Sector(place) + k - 1]
      /\ place' = Onward(place, Asked) /\ togo' = togo - Asked
      /\ UNCHANGED <<mbr, head, pc, marked, gone, done, bios, copy, file, byNumber, spt, heads,
                     maxsec, job, faults>>
  BY DEF ReadSectors, Loading, Running, disk, run
<1>2. PICK a \in Nat \ {0} : a = Asked
  BY <1>1, AskedOK
<1>3. a =< togo /\ togo \in Nat /\ (~byNumber => place.sec + a =< spt)
  BY <1>1, <1>2, AskedOK DEF BootIInv, BootTypeOK
<1>4. /\ byNumber \in BOOLEAN /\ mem \in Seq(Int) /\ (job = 4 => file \in Files)
      /\ togo + Len(mem) = (IF job = 2 THEN BootSize ELSE JobSize(job, file))
      /\ job \in 1 .. 4 /\ copy \in Copies /\ mbr[copy].magic /\ bpc # "off"
      /\ spt \in Nat \ {0} /\ heads \in Nat \ {0}
  BY <1>1 DEF BootIInv, BootTypeOK, LoadOK, BootKnown
<1>5. PICK l \in Nat : l = Len(mem)
  BY <1>4
<1>6. PICK at \in Nat : at = JobAt(job, file)
  BY <1>4, JobPlace
<1>7. at > Base
  BY <1>4, <1>6, JobPlace
<1>8. PICK s \in Nat : s = at + l
  BY <1>5, <1>6
<1>9. /\ s > Base /\ place = Place(Seen(s), byNumber, spt, heads)
      /\ Sector(place) \in Int /\ (Certain => Sector(place) = s \/ Behind(s)) /\ Seen(s) \in Nat
      /\ (~byNumber => place.sec = Seen(s) % spt)
  BY <1>1, <1>5, <1>6, <1>8, NextSector
<1>10. PICK x \in Int : x = Sector(place)
  BY <1>9
<1>11. PICK new \in Seq(Int) : new = [k \in 1 .. a |-> x + k - 1]
  <2>1. \A k \in 1 .. a : x + k - 1 \in Int
    BY <1>10
  <2>2. [k \in 1 .. a |-> x + k - 1] \in Seq(Int)
    BY <1>2, <2>1
  <2> QED
    BY <2>2
<1>12. Len(new) = a /\ \A k \in 1 .. a : new[k] = x + k - 1
  BY <1>2, <1>11
<1>13. mem' = mem \o new
  BY <1>1, <1>2, <1>10, <1>11
<1>14. /\ mem' \in Seq(Int) /\ Len(mem') = l + a
       /\ \A k \in 1 .. l : mem'[k] = mem[k]
       /\ \A k \in 1 .. a : mem'[l + k] = new[k]
  BY <1>2, <1>4, <1>5, <1>11, <1>12, <1>13
<1>15. PICK c \in Nat : c = mbr[copy].lba /\ Seen(s) = s - c
  <2>1. s \in Int
    BY <1>8
  <2>2. Seen(s) = s - mbr[copy].lba /\ mbr[copy].lba \in Nat
    BY <1>4, <2>1, SeenNumber
  <2> QED
    BY <2>2
<1>16. PICK n \in Nat : n = Seen(s)
  BY <1>9
<1>17. at + (l + a) = s + a /\ Seen(s + a)' = n + a
  <2>1. at + (l + a) = s + a /\ s + a \in Int
    BY <1>2, <1>5, <1>6, <1>8
  <2>2. PICK y \in Int : y = s + a
    BY <2>1
  <2>3. Seen(y) = y - c
    BY <1>15 DEF Seen
  <2>4. y - c = n + a
    BY <1>2, <1>8, <1>15, <1>16, <2>2
  <2>5. Seen(y)' = Seen(y)
    BY <1>1 DEF Seen
  <2>6. Seen(y)' = n + a
    BY <2>3, <2>4, <2>5
  <2> QED
    BY <2>1, <2>2, <2>6 DEF Seen
<1>18. place' = Place(n + a, byNumber, spt, heads)
  <2>1. CASE byNumber
    <3>1. Place(n, byNumber, spt, heads) = [cyl |-> 0, head |-> 0, sec |-> n]
      BY <2>1 DEF Place
    <3>2. Place(n + a, byNumber, spt, heads) = [cyl |-> 0, head |-> 0, sec |-> n + a]
      BY <2>1 DEF Place
    <3>3. PICK p : p = [cyl |-> 0, head |-> 0, sec |-> n]
      OBVIOUS
    <3>4. Onward(p, a) = [p EXCEPT !.sec = n + a]
      BY <2>1, <3>3 DEF Onward
    <3>5. [p EXCEPT !.sec = n + a] = [cyl |-> 0, head |-> 0, sec |-> n + a]
      BY <3>3
    <3>6. place = p
      BY <1>9, <1>16, <3>1, <3>3
    <3> QED
      BY <1>1, <1>2, <3>2, <3>4, <3>5, <3>6
  <2>2. CASE ~byNumber
    <3>1. byNumber = FALSE
      BY <1>4, <2>2
    <3>2. PICK st \in Nat \ {0} : st = spt
      BY <1>4
    <3>3. PICK hd \in Nat \ {0} : hd = heads
      BY <1>4
    <3>4. (n % st) + a =< st
      <4>1. place.sec + a =< st /\ place.sec = n % st
        BY <1>3, <1>9, <1>16, <2>2, <3>2
      <4> QED
        BY <4>1
    <3>7. n \in Nat /\ a \in Nat /\ ~byNumber /\ spt = st /\ heads = hd /\ (n % st) + a =< st
      <4>1. n \in Nat /\ a \in Nat
        BY <1>2, <1>16
      <4>2. spt = st /\ heads = hd
        BY <3>2, <3>3
      <4> QED
        BY <2>2, <3>4, <4>1, <4>2, Zenon
    <3>5. Onward(Place(n, FALSE, st, hd), a) = Place(n + a, FALSE, st, hd)
      BY <3>7, PlaceOnward, ZenonT(40)
    <3>6. place = Place(n, FALSE, st, hd)
      BY <1>9, <1>16, <3>1, <3>2, <3>3
    <3> QED
      BY <1>1, <1>2, <3>1, <3>2, <3>3, <3>5, <3>6
  <2> QED
    BY <2>1, <2>2
<1>19. LoadOK'
  <2>1. JobAt(job', file') = at /\ JobSize(job', file') = JobSize(job, file)
    BY <1>1, <1>6
  <2>2. PICK z : z = IF job = 2 THEN BootSize ELSE JobSize(job, file)
    OBVIOUS
  <2>3. togo' + Len(mem') = togo + Len(mem)
    BY <1>1, <1>2, <1>3, <1>5, <1>14
  <2>4. togo' + Len(mem') = (IF job = 2 THEN BootSize ELSE JobSize(job, file))
    BY <1>4, <2>3
  <2>5. at + Len(mem') = s + a
    BY <1>14, <1>17
  <2>6. Seen(JobAt(job, file) + Len(mem))' = n + a
    BY <1>17, <2>1, <2>5 DEF Seen
  <2> QED
    BY <1>1, <1>4, <1>14, <1>18, <2>1, <2>4, <2>6 DEF LoadOK
<1>20. LoadedRight'
  <2> SUFFICES ASSUME Certain', NEW k \in DOMAIN mem'
               PROVE  mem'[k] = JobAt(job', file') + k - 1
                        \/ Behind(JobAt(job, file) + k - 1)'
    BY DEF LoadedRight
  <2>0. Certain
    BY <1>1 DEF Certain, Learnable, SptSector, HeadsSector, OnDisk
  <2>1. k \in 1 .. l + a
    BY <1>14
  <2>2. \A y : Behind(y)' <=> Behind(y)
    BY <1>1 DEF Behind, Seen, CanNumber
  <2>3. JobAt(job', file') = at
    BY <1>1, <1>6
  <2>4. CASE k =< l
    <3>1. k \in 1 .. l /\ k \in DOMAIN mem
      BY <1>4, <1>5, <2>1, <2>4
    <3>2. mem[k] = at + k - 1 \/ Behind(at + k - 1)
      BY <1>1, <1>6, <2>0, <3>1 DEF BootIInv, LoadedRight
    <3> QED
      BY <1>1, <1>6, <1>14, <2>2, <2>3, <3>1, <3>2 DEF Behind, Seen, CanNumber
  <2>5. CASE k > l
    <3>1. PICK j \in 1 .. a : k = l + j
      <4>1. k - l \in 1 .. a /\ k = l + (k - l)
        BY <1>2, <1>5, <2>1, <2>5
      <4> QED
        BY <4>1
    <3>2. mem'[k] = x + j - 1
      BY <1>12, <1>14, <3>1
    <3>3. at + k - 1 = s + j - 1
      BY <1>5, <1>6, <1>8, <3>1
    <3>4. CASE x = s
      BY <2>3, <3>2, <3>3, <3>4
    <3>5. CASE Behind(s)
      <4>1. ~CanNumber /\ n >= Cylinders * bios.spt * bios.heads
        BY <1>16, <3>5 DEF Behind
      <4>2. PICK y \in Int : y = s + j - 1
        BY <1>8, <3>1
      <4>3. PICK w \in Int : w = Cylinders * bios.spt * bios.heads
        BY <1>4, BiosOK, BootAssumption DEF BootIInv
      <4>4. Seen(y) = y - c
        BY <1>15 DEF Seen
      <4>5. Seen(y) \in Int /\ Seen(y) >= w
        BY <1>8, <1>15, <1>16, <3>1, <4>1, <4>2, <4>3, <4>4
      <4>6. Behind(y)
        BY <4>1, <4>3, <4>5 DEF Behind
      <4>7. Behind(y)'
        BY <2>2, <4>6
      <4> QED
        BY <2>3, <3>3, <4>2, <4>7 DEF Behind, Seen, CanNumber
    <3> QED
      BY <1>9, <1>10, <2>0, <3>4, <3>5
  <2> QED
    BY <1>5, <2>1, <2>4, <2>5
<1>21. BootTypeOK'
  <2>1. togo' \in Nat
    BY <1>1, <1>2, <1>3
  <2>2. togo' + Len(mem') \in {JobSize(job', file'), BootSize}
    BY <1>1, <1>19 DEF LoadOK, Running
  <2> QED
    BY <1>1, <2>1, <2>2 DEF BootIInv, BootTypeOK
<1>22. BootKnown' /\ SoundBoots'
  <2>1. Learnable' <=> Learnable
    BY <1>1 DEF Learnable, SptSector, HeadsSector, OnDisk
  <2> QED
    BY <1>1, <2>1 DEF BootIInv, BootKnown, GeometryKnown, Running, SoundBoots, Certain
<1> QED
  BY <1>19, <1>20, <1>21, <1>22 DEF BootIInv

\* What is asked for lies on the disk, if the file does.
LEMMA OnTheDisk ==
    ASSUME CopiesInv, BootIInv, Loading, CanBoot
    PROVE  Can(place, 1)
<1>1. /\ bpc = "load" /\ bpc # "off" /\ Running /\ togo \in Nat \ {0} /\ job \in 1 .. 4
      /\ (job = 4 => file \in Files) /\ spt \in Nat \ {0} /\ byNumber \in BOOLEAN
      /\ mem \in Seq(Int) /\ Certain
      /\ togo + Len(mem) = (IF job = 2 THEN BootSize ELSE JobSize(job, file))
  BY CertainBoots DEF Loading, Running, BootIInv, BootTypeOK, BootKnown, LoadOK
<1>2. PICK l \in Nat : l = Len(mem)
  BY <1>1
<1>3. PICK at \in Nat : at = JobAt(job, file)
  BY <1>1, JobPlace
<1>4. PICK z \in Nat : z = IF job = 2 THEN BootSize ELSE JobSize(job, file)
  BY <1>1, <1>2
<1>5. at + z =< DiskSize
  <2>1. CASE job = 4
    <3>1. at = file.at /\ z = Count(file)
      BY <1>3, <1>4, <2>1 DEF JobAt, JobSize
    <3> QED
      BY <3>1 DEF CanBoot
  <2>2. CASE job = 2
    BY <1>1, <1>3, <1>4, <2>2, JobPlace
  <2>3. CASE job # 4 /\ job # 2
    BY <1>1, <1>3, <1>4, <2>3, JobPlace
  <2> QED
    BY <2>1, <2>2, <2>3
<1>6. PICK s \in Nat : s = at + l
  BY <1>2, <1>3
<1>7. s + 1 =< DiskSize /\ DiskSize \in Nat
  <2>1. togo + l = z
    BY <1>1, <1>2, <1>4
  <2>2. l + 1 =< z
    BY <1>1, <1>2, <1>4, <2>1
  <2>3. DiskSize \in Nat
    BY BootAssumption
  <2> QED
    BY <1>2, <1>3, <1>4, <1>5, <1>6, <2>2, <2>3
<1>8. /\ Sector(place) \in Int /\ Sector(place) =< s /\ place.sec \in Nat
      /\ (~byNumber => place.sec < spt /\ place.head < bios.heads)
  BY <1>1, <1>2, <1>3, <1>6, NextSector
<1>9. PICK x \in Int : x = Sector(place)
  BY <1>8
<1>10. x + 1 =< DiskSize
  BY <1>6, <1>7, <1>8, <1>9
<1>11. 1 =< bios.most
  BY <1>1, BiosOK DEF BootIInv
<1>12. CASE byNumber
  <2>1. OnDisk(place.sec) = x
    BY <1>9, <1>12 DEF Sector
  <2> QED
    BY <1>10, <1>11, <1>12, <2>1 DEF Can
<1>13. CASE ~byNumber
  <2>1. OnDisk(Numbered(place)) = x
    BY <1>9, <1>13 DEF Sector
  <2>2. spt = bios.spt
    BY <1>1, <1>13 DEF BootIInv, BootKnown, GeometryKnown
  <2>3. place.sec + 1 =< bios.spt
    BY <1>1, <1>8, <1>13, <2>2
  <2> QED
    BY <1>8, <1>10, <1>11, <1>13, <2>1, <2>3 DEF Can
<1> QED
  BY <1>12, <1>13

\* A failed call makes the next one shorter; if a single sector fails, it is not
\* there or a fault has happened.
LEMMA ReadFailsKeeps == ASSUME CopiesInv, BootIInv, ReadFails PROVE BootIInv'
<1>1. /\ bpc = "load" /\ Running /\ Loading
      /\ UNCHANGED <<mbr, head, pc, marked, gone, done, bios, copy, file, byNumber, spt, heads,
                     job, place, togo, mem>>
  BY DEF ReadFails, Loading, Running, disk, run
<1>2. Asked \in Nat \ {0}
  BY <1>1, AskedOK
<1>3. faults' \in Nat
  <2>1. faults \in Nat
    BY DEF BootIInv, BootKnown
  <2>2. CASE Can(place, Asked)
    BY <2>1, <2>2 DEF ReadFails, Fault
  <2>3. CASE ~Can(place, Asked)
    BY <2>1, <2>3 DEF ReadFails
  <2> QED
    BY <2>2, <2>3
<1>4. /\ bpc' \in {"load", "halted"} /\ maxsec' \in 1 .. MaxSec
      /\ Asked > 1 => bpc' = bpc
  <2>1. CASE Asked =< 1
    BY <1>1, <1>2, <2>1 DEF ReadFails, BootIInv, BootTypeOK
  <2>2. CASE ~(Asked =< 1)
    BY <1>1, <1>2, <2>2, BootAssumption DEF ReadFails, Shorter
  <2> QED
    BY <2>1, <2>2
<1>5. BootTypeOK'
  BY <1>1, <1>4 DEF BootIInv, BootTypeOK
<1>6. BootKnown' /\ LoadOK' /\ LoadedRight'
  <2>1. Running' => Running
    BY <1>1
  <2>2. BootKnown'
    <3>1. Learnable' <=> Learnable
      BY <1>1 DEF Learnable, SptSector, HeadsSector, OnDisk
    <3> QED
      BY <1>1, <1>3, <1>4, <3>1 DEF BootIInv, BootKnown, GeometryKnown, Running, Certain
  <2>3. LoadOK'
    BY <1>1 DEF BootIInv, LoadOK, Seen
  <2>4. LoadedRight'
    BY <1>1 DEF BootIInv, LoadedRight, Behind, Seen, CanNumber, Certain, Learnable, SptSector,
                HeadsSector, OnDisk
  <2> QED
    BY <2>2, <2>3, <2>4
<1>7. SoundBoots'
  <2> SUFFICES ASSUME CanBoot', bpc' = "halted" PROVE FALSE
    BY <1>4 DEF SoundBoots
  <2>1. Asked = 1
    BY <1>1, <1>2, <1>4
  <2>2. CASE Can(place, Asked)
    <3>1. Fault
      BY <2>2 DEF ReadFails
    <3> QED
      BY <3>1, FaultCounts
  <2>3. CASE ~Can(place, Asked)
    <3>1. faults' = faults
      BY <2>3 DEF ReadFails
    <3>2. CanBoot
      BY <3>1, CanBootStays DEF ReadFails
    <3> QED
      BY <1>1, <2>1, <2>3, <3>2, OnTheDisk
  <2> QED
    BY <2>2, <2>3
<1> QED
  BY <1>5, <1>6, <1>7 DEF BootIInv

\* The next job starts behind the first sector of the second stage, or anew.
LEMMA NextJobKeeps == ASSUME CopiesInv, FreshIInv, BootIInv, NextJob PROVE BootIInv'
<1>1. /\ bpc = "load" /\ Running /\ togo = 0 /\ job' = job + 1
      /\ job \in 1 .. 4 /\ job < 4
      /\ UNCHANGED <<mbr, head, pc, marked, gone, done, bios, copy, byNumber, spt, heads, maxsec,
                     faults>>
      /\ bpc' = IF head = NoCode \/ ~Loaded THEN "lost" ELSE bpc
      /\ togo' = JobSize(job', file')
  BY DEF NextJob, Running, disk, run, BootIInv, BootTypeOK
<1>2. PICK j \in 1 .. 4 : j = job'
  BY <1>1
<1>3. PICK f : f = file'
  OBVIOUS
<1>4. /\ (j = 4 => f \in Files) /\ (job # 3 => f = file)
  BY <1>1, <1>2, <1>3 DEF NextJob
<1>5. /\ JobAt(j, f) \in Nat /\ JobSize(j, f) \in Nat
  BY <1>2, <1>4, JobPlace
<1>6. /\ byNumber \in BOOLEAN /\ mem \in Seq(Int)
      /\ togo + Len(mem) = (IF job = 2 THEN BootSize ELSE JobSize(job, file))
      /\ place = Place(Seen(JobAt(job, file) + Len(mem)), byNumber, spt, heads)
  BY <1>1 DEF BootIInv, LoadOK
<1>7. PICK l \in Nat : l = Len(mem)
  BY <1>6
<1>8. /\ mem' \in Seq(Int) /\ togo' + Len(mem') = (IF j = 2 THEN BootSize ELSE JobSize(j, f))
      /\ place' = Place(Seen(JobAt(j, f) + Len(mem')), byNumber, spt, heads)
  <2>1. CASE job = 1
    <3>1. j = 2 /\ mem' = mem /\ place' = place
      BY <1>1, <1>2, <2>1 DEF NextJob
    <3>2. JobAt(j, f) = JobAt(job, file)
      BY <2>1, <3>1 DEF JobAt
    <3>3. l = 1
      BY <1>1, <1>6, <1>7, <2>1 DEF JobSize
    <3>4. togo' = BootSize - 1
      BY <1>1, <1>2, <3>1 DEF JobSize
    <3>5. togo' + Len(mem') = BootSize
      BY <1>7, <3>1, <3>3, <3>4, CopiesAssumption
    <3> QED
      BY <1>6, <3>1, <3>2, <3>5
  <2>2. CASE job # 1
    <3>1. j # 2 /\ mem' = <<>> /\ place' = Place(Seen(JobAt(j, f)), byNumber, spt, heads)
      BY <1>1, <1>2, <1>3, <2>2 DEF NextJob
    <3>2. mem' \in Seq(Int) /\ Len(mem') = 0
      BY <3>1
    <3>3. JobAt(j, f) + Len(mem') = JobAt(j, f)
      BY <1>5, <3>2
    <3>4. togo' + Len(mem') = JobSize(j, f)
      BY <1>1, <1>2, <1>3, <1>5, <3>2
    <3> QED
      BY <3>1, <3>2, <3>3, <3>4
  <2> QED
    BY <2>1, <2>2
<1>9. LoadOK'
  <2>1. Seen(JobAt(job, file) + Len(mem))' = Seen(JobAt(j, f) + Len(mem'))
    BY <1>1, <1>2, <1>3 DEF Seen
  <2> QED
    BY <1>1, <1>2, <1>3, <1>4, <1>6, <1>8, <2>1 DEF LoadOK
<1>10. BootTypeOK'
  <2>1. togo' \in Nat
    BY <1>1, <1>2, <1>3, <1>5
  <2>2. togo' + Len(mem') \in {JobSize(job', file'), BootSize}
    BY <1>2, <1>3, <1>8
  <2> QED
    BY <1>1, <1>2, <2>1, <2>2 DEF BootIInv, BootTypeOK
<1>11. BootKnown' /\ (Certain' <=> Certain)
  <2>1. Learnable' <=> Learnable
    BY <1>1 DEF Learnable, SptSector, HeadsSector, OnDisk
  <2> QED
    BY <1>1, <2>1 DEF BootIInv, BootKnown, GeometryKnown, Running, Certain
<1>12. LoadedRight'
  <2> SUFFICES ASSUME Certain', NEW k \in DOMAIN mem'
               PROVE  mem'[k] = JobAt(job', file') + k - 1
                        \/ Behind(JobAt(job, file) + k - 1)'
    BY DEF LoadedRight
  <2>1. CASE job = 1
    <3>1. job' = 2 /\ mem' = mem
      BY <1>1, <2>1 DEF NextJob
    <3>2. JobAt(job', file') = JobAt(job, file)
      BY <2>1, <3>1 DEF JobAt
    <3>3. mem[k] = JobAt(job, file) + k - 1 \/ Behind(JobAt(job, file) + k - 1)
      BY <1>1, <1>11, <3>1 DEF BootIInv, LoadedRight
    <3> QED
      BY <1>1, <3>1, <3>2, <3>3 DEF Behind, Seen, CanNumber
  <2>2. CASE job # 1
    <3>1. mem' = <<>>
      BY <2>2 DEF NextJob
    <3> QED
      BY <3>1
  <2> QED
    BY <2>1, <2>2
<1>13. SoundBoots'
  <2> SUFFICES ASSUME CanBoot' PROVE bpc' \notin {"lost", "halted"}
    BY DEF SoundBoots
  <2>1. head # NoCode /\ Base < ByteValues /\ ~Behind(Base + BootSize + ListUsed) /\ Certain
    BY <1>1 DEF CanBoot, CanNumber, TestWorks, Learnable, SptSector, HeadsSector, OnDisk, Behind,
                Seen, BootIInv, BootKnown, Certain
  <2>2. ASSUME NEW k \in DOMAIN mem PROVE mem[k] = JobAt(job, file) + k - 1
    <3>1. copy \in Copies /\ mbr[copy].magic /\ bpc # "off"
      BY <1>1 DEF BootIInv, BootTypeOK, BootKnown
    <3>2. PICK y \in Int : y = JobAt(job, file) + k - 1 /\ y =< Base + BootSize + ListUsed
      <4>1. l = IF job = 2 THEN BootSize ELSE JobSize(job, file)
        <5>1. togo + l = IF job = 2 THEN BootSize ELSE JobSize(job, file)
          BY <1>6, <1>7
        <5> QED
          BY <1>1, <1>7, <5>1
      <4>2. k \in 1 .. l
        BY <1>6, <1>7
      <4>3. CASE job = 3
        BY <4>1, <4>2, <4>3, BootAssumption, CopiesAssumption DEF JobAt, JobSize
      <4>4. CASE job = 2
        BY <4>1, <4>2, <4>4, BootAssumption, CopiesAssumption DEF JobAt
      <4>5. CASE job = 1
        BY <4>1, <4>2, <4>5, BootAssumption, CopiesAssumption DEF JobAt, JobSize
      <4> QED
        BY <1>1, <4>3, <4>4, <4>5
    <3>3. PICK z \in Int : z = Base + BootSize + ListUsed
      BY BootAssumption, CopiesAssumption
    <3>4. Seen(y) \in Int /\ Seen(z) \in Int /\ Seen(y) =< Seen(z)
      <4>1. PICK c \in Nat : c = mbr[copy].lba
        BY <3>1, SeenNumber
      <4> QED
        BY <3>2, <3>3, <4>1 DEF Seen
    <3>5. PICK w \in Int : w = Cylinders * bios.spt * bios.heads
      BY <3>1, BiosOK, BootAssumption DEF BootIInv
    <3>6. ~Behind(y)
      BY <2>1, <3>3, <3>4, <3>5 DEF Behind
    <3>7. mem[k] = y \/ Behind(y)
      BY <1>1, <2>1, <3>2 DEF BootIInv, LoadedRight
    <3> QED
      BY <3>2, <3>6, <3>7
  <2> QED
    BY <1>1, <2>1, <2>2 DEF Loaded
<1> QED
  BY <1>9, <1>10, <1>11, <1>12, <1>13 DEF BootIInv

\* The loaded file runs.
LEMMA RunKeeps == ASSUME BootIInv, Run PROVE BootIInv'
<1>1. /\ bpc = "load" /\ bpc' = "booted" /\ Running
      /\ UNCHANGED <<mbr, head, pc, marked, gone, done, bios, copy, file, byNumber, spt, heads,
                     maxsec, job, place, togo, mem, faults>>
  BY DEF Run, Running, disk, run
<1>2. BootTypeOK'
  BY <1>1 DEF BootIInv, BootTypeOK
<1>3. Certain' <=> Certain
  BY <1>1 DEF Certain, Learnable, SptSector, HeadsSector, OnDisk
<1>4. BootKnown' /\ SoundBoots'
  BY <1>1, <1>3 DEF BootIInv, BootKnown, GeometryKnown, Running, SoundBoots
<1>5. LoadOK'
  BY <1>1 DEF BootIInv, LoadOK, Seen
<1>6. LoadedRight'
  BY <1>1, <1>3 DEF BootIInv, LoadedRight, Behind, Seen, CanNumber
<1> QED
  BY <1>2, <1>4, <1>5, <1>6 DEF BootIInv

\* A step of the boot code, before and while it loads.
LEMMA BootStepKeeps ==
    ASSUME CopiesInv, FreshIInv, BootIInv, BootStep
    PROVE  CopiesInv' /\ FreshIInv' /\ BootIInv'
<1>1. UNCHANGED disk
  BY DEF BootStep, UseNumbers, TestFails, FindSpt, FindHeads, BadGeometry, NotOurs,
         ReadRefused, GiveUp,
         ReadSectors, ReadFails, NextJob, Run
<1>2. CopiesInv' /\ FreshIInv'
  <2>1. UNCHANGED vars
    BY <1>1, DiskStays
  <2> QED
    BY <2>1, CopiesNext, FreshNext
<1> QED
  BY <1>2, UseNumbersKeeps, TestFailsKeeps, FindSptKeeps, FindHeadsKeeps,
     BadGeometryKeeps, ReadRefusedKeeps, ReadSectorsKeeps, ReadFailsKeeps, NextJobKeeps, RunKeeps DEF BootStep

\* Every step of fbinst, of other programs and of the boot code.
LEMMA BootNextKeeps ==
    CopiesInv /\ FreshIInv /\ BootIInv /\ [BootNext]_<<vars, bvars>>
      => CopiesInv' /\ FreshIInv' /\ BootIInv'
<1> SUFFICES ASSUME CopiesInv, FreshIInv, BootIInv, [BootNext]_<<vars, bvars>>
             PROVE  CopiesInv' /\ FreshIInv' /\ BootIInv'
  OBVIOUS
<1>1. CASE bpc = "off" /\ Next /\ UNCHANGED bvars
  <2>1. CopiesInv' /\ FreshIInv'
    BY <1>1, CopiesNext, FreshNext
  <2>2. /\ bpc = "off"
        /\ UNCHANGED <<bpc, bios, copy, file, byNumber, spt, heads, maxsec, job, place, togo, mem,
                       faults>>
    BY <1>1 DEF bvars
  <2>3. BootTypeOK'
    BY <2>2 DEF BootIInv, BootTypeOK
  <2>4. BootKnown' /\ LoadOK' /\ LoadedRight' /\ SoundBoots'
    BY <2>2 DEF BootIInv, BootKnown, GeometryKnown, LoadOK, LoadedRight, SoundBoots, Running
  <2> QED
    BY <2>1, <2>3, <2>4 DEF BootIInv
<1>2. ASSUME NEW i \in Copies, NEW b \in Bioses, PowerOn(i, b)
      PROVE  CopiesInv' /\ FreshIInv' /\ BootIInv'
  BY <1>2, PowerOnKeeps
<1>3. CASE BootStep
  BY <1>3, BootStepKeeps
<1>4. CASE UNCHANGED <<vars, bvars>>
  <2>1. CopiesInv' /\ FreshIInv'
    BY <1>4, CopiesNext, FreshNext
  <2>2. /\ UNCHANGED <<disk, bios, copy, file, faults>>
        /\ UNCHANGED <<mbr, pc, marked, gone, bpc, byNumber, spt, heads, maxsec, job, place, togo,
                       mem>>
    BY <1>4 DEF vars, bvars, run, disk
  <2>3. BootTypeOK'
    BY <2>2 DEF BootIInv, BootTypeOK
  <2>4. Learnable' <=> Learnable
    BY <2>2 DEF Learnable, SptSector, HeadsSector, OnDisk
  <2>5. BootKnown'
    BY <2>2, <2>4 DEF BootIInv, BootKnown, GeometryKnown, Running, Certain
  <2>6. LoadOK'
    BY <2>2 DEF BootIInv, LoadOK, Running, Seen
  <2>7. LoadedRight'
    BY <2>2, <2>4 DEF BootIInv, LoadedRight, Running, Behind, Seen, CanNumber, Certain
  <2>8. SoundBoots'
    BY <2>2, CanBootStays DEF BootIInv, SoundBoots
  <2> QED
    BY <2>1, <2>3, <2>5, <2>6, <2>7, <2>8 DEF BootIInv
<1> QED
  BY <1>1, <1>2, <1>3, <1>4 DEF BootNext

LEMMA BootAlways == BootSpec => [](CopiesInv /\ FreshIInv /\ BootIInv)
BY BootStarts, BootNextKeeps, PTL DEF BootSpec

\* What a finished command promises holds until something is done to the disk: after
\* a format, sync or restore every copy it wrote shows the partitions where sector 0
\* has them (sync_mbr shifts its buffer copy by copy, and a run may end between any
\* two), and after a format or update no copy has another boot code than the
\* second stage (format_disk, update_header).
THEOREM FreshAlways == BootSpec => []FreshInv
<1>1. FreshIInv => FreshInv
  BY DEF FreshIInv, FreshInv
<1> QED
  BY <1>1, BootAlways, PTL

\* For every BIOS, disk size, number of copies a byte can count, size of the files and
\* length of the calls, and whatever words other programs left on the disk: unless the
\* two sectors that tell the geometry were overwritten or never marked, the boot code
\* of fbmbr.S takes the sectors per track and the heads for what the BIOS takes them
\* for, and the sectors it loads are those of the second stage, the list and the
\* file; then every copy whose boot code is that of the second stage boots, unless a
\* read fails, a sector is not there, or the BIOS has a single head.
THEOREM LoadAlways == BootSpec => []LoadInv
<1>1. BootIInv => LoadInv
  BY DEF BootIInv, BootKnown, LoadInv
<1> QED
  BY <1>1, BootAlways, PTL

\* The machine may be started at any time: what the theorems above say of the
\* commands of fbinst holds on every disk that is booted from.
THEOREM CopiesServeBoot ==
    BootSpec => [](StageFound /\ Restorable) /\ IntactKept /\ PartitionsKept
<1>1. CopiesInv => StageFound /\ Restorable
  BY StageFromCopies, CopyLeftRestores
<1>2. /\ CopiesInv /\ [BootNext]_<<vars, bvars>>
           => [pc # "idle" => \A i \in Copies : Intact(i) => Intact(i)']_vars
      /\ CopiesInv /\ [BootNext]_<<vars, bvars>>
           => [pc \notin {"idle", "format"} => mbr'[0].table = mbr[0].table]_vars
  <2> SUFFICES ASSUME CopiesInv, [BootNext]_<<vars, bvars>>
               PROVE  /\ [pc # "idle" => \A i \in Copies : Intact(i) => Intact(i)']_vars
                      /\ [pc \notin {"idle", "format"} => mbr'[0].table = mbr[0].table]_vars
    OBVIOUS
  <2>1. CASE Next \/ UNCHANGED vars
    BY <2>1, StepKeepsIntact, StepKeepsPartitions
  <2>2. ASSUME NEW i \in Copies, NEW b \in Bioses, PowerOn(i, b) PROVE pc = "idle"
    BY <2>2 DEF PowerOn
  <2>3. CASE BootStep
    <3>1. UNCHANGED disk
      BY <2>3 DEF BootStep, UseNumbers, TestFails, FindSpt, FindHeads, BadGeometry, NotOurs,
         ReadRefused, GiveUp,
                  ReadSectors, ReadFails, NextJob, Run
    <3> QED
      BY <3>1, DiskStays
  <2> QED
    BY <2>1, <2>2, <2>3 DEF BootNext
<1> QED
  BY <1>1, <1>2, BootAlways, PTL DEF BootSpec, IntactKept, PartitionsKept
=============================================================================
