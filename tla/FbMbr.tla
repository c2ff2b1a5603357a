-------------------------------- MODULE FbMbr --------------------------------
(***************************************************************************)
(* The copies of the boot sector on an fbinst disk                         *)
(* (grubutils/fbinst/fbinst.c: format_disk, sync_disk, update_header,      *)
(* restore_disk; fbmbr.S).                                                 *)
(*                                                                         *)
(* A BIOS may show the disk from some sector on instead of from sector 0.  *)
(* So sectors 0 .. Base all hold the boot sector: each says in its lba     *)
(* field which one it is, and in its partition table where the partitions  *)
(* lie as seen from there.  The boot code in whichever copy is sector 0    *)
(* for the BIOS subtracts its lba from the sectors it reads.               *)
(*                                                                         *)
(* The sectors are written one after the other, and a run may end between  *)
(* two of them.  Other programs change the partition table of sector 0 and *)
(* put their own boot code over the first sectors, be it over all copies;  *)
(* restore_disk repairs the copies from the first one it finds, which it   *)
(* looks for in the first sectors only.                                    *)
(***************************************************************************)
EXTENDS Integers, Sequences, FiniteSetsExt

CONSTANTS Base,        \* boot_base: the last copy
          DefBase,     \* DEF_BASE_SIZE: the last sector restore looks at
          ByteValues,  \* number of values of a byte, as which a copy has its number
          BootSize,    \* boot_size: sectors of the second stage
          GlobBuf,     \* GLOB_BUF_SIZE: sectors that are marked in one call
          Tables,      \* partition tables: the first sectors of the partitions
          PriSize,     \* size of the primary area, which starts in sector 0
          DataStart,   \* where a forced format puts the data partition
          Versions,    \* boot codes an fbinst program carries
          MaxCmds, MaxHarm   \* bounds on commands and on changes by others

ASSUME CopiesAssumption ==
    /\ Base \in Nat /\ DefBase \in Nat /\ ByteValues \in Nat \ {0}
    /\ BootSize \in Nat \ {0} /\ GlobBuf \in Nat \ {0}

ASSUME TablesAssumption ==
    Tables \subseteq Seq(Nat) \ {<<>>} /\ PriSize \in Nat /\ DataStart \in Nat

ASSUME BoundsAssumption == MaxCmds \in Nat /\ MaxHarm \in Nat

NoCode == "none"

ASSUME VersionAssumption == NoCode \notin Versions

VARIABLES mbr,    \* sectors 0 .. Base
          head,   \* the boot code of the second stage, in the sectors after Base
          pc,     \* what the running command does next
          buf,    \* global_buffer: the boot sector it writes
          cur,    \* the sector it writes next
          last,   \* the last sector it writes
          marked, \* the sectors before this one that are no copies have their number as mark
          gone,   \* history: the copies other programs overwrote since a command wrote them
          done,   \* history: the last command, if nothing has happened since it ended
          ncmd, nharm

run == <<pc, buf, cur, last>>
vars == <<mbr, head, run, marked, gone, done, ncmd, nharm>>

Copies == 0 .. Base

\* The number of copy i: lba is a byte.
Lba(i) == i % ByteValues

\* A sector some other program wrote.
Alien(table) == [magic |-> FALSE, lba |-> 0, table |-> table, code |-> NoCode]

Min2(a, b) == IF a < b THEN a ELSE b

\* The table as seen from n sectors further on.  A partition that began before lies
\* behind the last sector a table can name; here it has a number below zero.
Shifted(table, n) == [k \in DOMAIN table |-> table[k] - n]

\* get_part_ofs
PartOfs(table) == Min({table[k] : k \in DOMAIN table})

Intact(i) == mbr[i].magic /\ mbr[i].lba = Lba(i)

-----------------------------------------------------------------------------
(***************************************************************************)
(* Commands, up to their first write.                                      *)
(***************************************************************************)

\* read_header accepts the disk.
Readable == mbr[0].magic /\ head # NoCode

Begin(command, image, end) ==
    /\ pc = "idle"
    /\ ncmd < MaxCmds
    /\ ncmd' = ncmd + 1
    /\ pc' = command /\ buf' = image /\ cur' = 0 /\ last' = end
    /\ done' = "none"
    /\ UNCHANGED <<mbr, head, marked, gone, nharm>>

\* The table of a new disk: the one in sector 0, unless forced or missing.
FormatTable(force) == IF force \/ mbr[0].table = <<>> THEN <<DataStart>> ELSE mbr[0].table

\* "offset of data partition too small"
FormatFits(force) ==
    ~force /\ mbr[0].table # <<>> => PartOfs(mbr[0].table) >= PriSize

FormatDisk(version, force) ==
    /\ FormatFits(force)
    /\ Begin("format",
          [magic |-> TRUE, lba |-> 0, table |-> FormatTable(force), code |-> version], Base)

SyncDisk == Readable /\ Begin("sync", mbr[0], Base)

UpdateHeader(version) ==
    /\ Readable
    /\ Begin("update", [mbr[0] EXCEPT !.code = version], Base)

\* Mutated: takes the partition table from the copy it found.
RestoreImage_OldTable(i) == mbr[i]

RestoreImage(i) == [mbr[i] EXCEPT !.table = mbr[0].table]

\* What restore_disk takes for a copy.
Found(i) == i =< DefBase /\ Intact(i)

\* restore_disk: the first copy it finds repairs those before it.
RestoreDisk ==
    \E i \in Copies :
        /\ Found(i)
        /\ \A j \in 0 .. i - 1 : ~Found(j)
        /\ i > 0
        /\ Begin("restore", RestoreImage(i), i - 1)

Command ==
    \/ \E version \in Versions, force \in BOOLEAN : FormatDisk(version, force)
    \/ SyncDisk
    \/ \E version \in Versions : UpdateHeader(version)
    \/ RestoreDisk

-----------------------------------------------------------------------------
(***************************************************************************)
(* The writes.                                                             *)
(***************************************************************************)

Syncing == pc \in {"format", "sync", "restore"}

\* Mutated: the copies keep the number of the first one.
NextImage_NoLba ==
    IF cur = 0 THEN [buf EXCEPT !.lba = Lba(cur)]
    ELSE [buf EXCEPT !.table = Shifted(buf.table, 1)]

\* Mutated: writes the table of sector 0 into every copy.
NextImage_NoShift == [buf EXCEPT !.lba = Lba(cur)]

\* sync_mbr changes its buffer for the next copy.
NextImage ==
    IF cur = 0 THEN [buf EXCEPT !.lba = Lba(cur)]
    ELSE [buf EXCEPT !.lba = Lba(cur), !.table = Shifted(buf.table, 1)]

Finish(command) == pc' = "idle" /\ done' = command

SyncWrite ==
    /\ Syncing
    /\ buf' = NextImage
    /\ mbr' = [mbr EXCEPT ![cur] = NextImage]
    /\ gone' = gone \ {cur}
    /\ cur' = cur + 1
    /\ IF cur < last THEN UNCHANGED <<pc, done>>
       ELSE IF pc = "format" THEN pc' = "format stage" /\ UNCHANGED done
       ELSE Finish(pc)
    /\ UNCHANGED <<head, last, marked, ncmd, nharm>>

\* The sectors up to cur have their marks; format ends with the primary area.
Mark ==
    /\ marked' = IF cur' > marked THEN cur' ELSE marked
    /\ IF cur' < PriSize THEN pc' = "format marks" /\ UNCHANGED done ELSE Finish("format")

\* format_disk writes the second stage, whose sectors have marks.
FormatStage ==
    /\ pc = "format stage"
    /\ head' = buf.code
    /\ cur' = Base + 1 + BootSize
    /\ Mark
    /\ UNCHANGED <<mbr, buf, last, gone, ncmd, nharm>>

\* Then it writes the rest of the primary area, empty sectors with their marks.
FormatMarks ==
    /\ pc = "format marks"
    /\ cur' = cur + Min2(GlobBuf, PriSize - cur)
    /\ Mark
    /\ UNCHANGED <<mbr, head, buf, last, gone, ncmd, nharm>>

\* Mutated: does not seek back to the sector it has read.
UpdateWrite_NoSeek ==
    /\ pc = "update"
    /\ mbr' = [mbr EXCEPT ![IF cur < Base THEN cur + 1 ELSE cur] = [mbr[cur] EXCEPT !.code = buf.code]]
    /\ cur' = cur + 1
    /\ pc' = IF cur < last THEN pc ELSE "update stage"
    /\ UNCHANGED <<head, buf, last, marked, gone, done, ncmd, nharm>>

\* Mutated: replaces the number of the copy, too.
UpdateWrite_Number ==
    /\ pc = "update"
    /\ mbr' = [mbr EXCEPT ![cur].code = buf.code, ![cur].lba = buf.lba]
    /\ cur' = cur + 1
    /\ pc' = IF cur < last THEN pc ELSE "update stage"
    /\ UNCHANGED <<head, buf, last, marked, gone, done, ncmd, nharm>>

\* update_header replaces the boot code in every sector, whatever else is in it.
UpdateWrite ==
    /\ pc = "update"
    /\ mbr' = [mbr EXCEPT ![cur].code = buf.code]
    /\ cur' = cur + 1
    /\ pc' = IF cur < last THEN pc ELSE "update stage"
    /\ UNCHANGED <<head, buf, last, marked, gone, done, ncmd, nharm>>

\* update_header writes the second stage, then write_header the list.
UpdateStage ==
    /\ pc = "update stage"
    /\ head' = buf.code
    /\ Finish("update")
    /\ UNCHANGED <<mbr, buf, cur, last, marked, gone, ncmd, nharm>>

Step == SyncWrite \/ FormatStage \/ FormatMarks \/ UpdateWrite \/ UpdateStage

Interrupt ==
    /\ pc # "idle"
    /\ pc' = "idle"
    /\ UNCHANGED <<mbr, head, buf, cur, last, marked, gone, done, ncmd, nharm>>

-----------------------------------------------------------------------------
(***************************************************************************)
(* Other programs.                                                         *)
(***************************************************************************)

Harm ==
    /\ pc = "idle"
    /\ nharm < MaxHarm
    /\ nharm' = nharm + 1
    /\ done' = "none"
    /\ UNCHANGED <<head, run, marked, ncmd>>

\* A partition tool changes the table of sector 0.
Repartition(table) ==
    /\ Harm
    /\ mbr' = [mbr EXCEPT ![0].table = table]
    /\ UNCHANGED gone

\* A boot manager takes sectors 0 .. n and keeps the partition table.
Overwrite(n) ==
    /\ Harm
    /\ mbr' = [i \in Copies |-> IF i = 0 THEN Alien(mbr[0].table)
                                ELSE IF i =< n THEN Alien(<<>>) ELSE mbr[i]]
    /\ gone' = gone \cup 0 .. n

Other ==
    \/ \E table \in Tables : Repartition(table)
    \/ \E n \in Copies : Overwrite(n)

Stop == pc = "idle" /\ ncmd = MaxCmds /\ UNCHANGED vars

\* A disk that was formatted by no fbinst, with or without partitions.
Init ==
    /\ \E table \in Tables \cup {<<>>} :
          mbr = [i \in Copies |-> Alien(IF i = 0 THEN table ELSE <<>>)]
    /\ head = NoCode
    /\ pc = "idle" /\ buf = Alien(<<>>) /\ cur = 0 /\ last = 0
    /\ marked = 0 /\ gone = {}
    /\ done = "none" /\ ncmd = 0 /\ nharm = 0

Next == Command \/ Step \/ Interrupt \/ Other \/ Stop

\* A started run is scheduled to its end.
Fairness == WF_vars(Step)

Spec == Init /\ [][Next]_vars /\ Fairness
-----------------------------------------------------------------------------
(***************************************************************************)
(* Properties.                                                             *)
(***************************************************************************)

SectorType ==
    [magic : BOOLEAN, lba : 0 .. ByteValues - 1, table : Seq(Int), code : Versions \cup {NoCode}]

TypeOK ==
    /\ mbr \in [Copies -> SectorType] /\ buf \in SectorType
    /\ head \in Versions \cup {NoCode}
    /\ cur \in Nat /\ last \in Copies
    /\ marked \in Nat /\ gone \subseteq Copies

\* The boot code that runs from sector i of the disk asks the BIOS, which counts
\* from i, for sector boot_base + 1 - lba (fbmbr.S, read_sectors): whichever copy
\* the BIOS takes for sector 0, and whatever was interrupted or overwritten
\* before, that is the sector after the last copy, if the copies can be counted
\* in a byte, which format does not see to.
StageFound ==
    Base < ByteValues =>
        \A i \in Copies : mbr[i].magic => i + (Base + 1 - mbr[i].lba) = Base + 1

\* No write of a command destroys an intact copy, so whatever restore_disk could
\* repair before the command it can repair after an interruption of it.
IntactKept == [][pc # "idle" => \A i \in Copies : Intact(i) => Intact(i)']_vars

\* Only a format may change the partition table the operating system sees; to
\* restore from a copy does not bring back the table of the day it was made.
PartitionsKept ==
    [][pc \notin {"idle", "format"} => mbr'[0].table = mbr[0].table]_vars

\* A disk that was formatted can be restored, wherever commands were interrupted, as
\* long as other programs left a copy alone among the sectors restore_disk looks at.
Restorable ==
    head # NoCode /\ (\E i \in Copies \ gone : i =< DefBase)
        => \E i \in Copies : i =< DefBase /\ Intact(i)

\* The copies a command has written, when nothing happened since.
Fresh ==
    IF done = "restore" THEN 0 .. last
    ELSE IF done \in {"format", "sync"} THEN Copies ELSE {}

\* After a format, sync or restore the partitions are where sector 0 says, seen
\* from any of the copies it wrote.
TablesFollow == \A i \in Fresh : Intact(i) /\ mbr[i].table = Shifted(mbr[0].table, i)

\* After an update, no copy is left with a boot code other than that of the
\* second stage it loads.
CodeMatches == done \in {"format", "update"} => \A i \in Copies : mbr[i].code = head

-----------------------------------------------------------------------------
(***************************************************************************)
(* An inductive invariant that implies StageFound and Restorable.          *)
(***************************************************************************)

\* A record with the fields of a boot sector.
IsSector(r) ==
    /\ DOMAIN r = {"magic", "lba", "table", "code"}
    /\ r.magic \in BOOLEAN
    /\ r.lba \in 0 .. ByteValues - 1

SectorsOK ==
    /\ DOMAIN mbr = Copies
    /\ \A i \in Copies : IsSector(mbr[i])
    /\ IsSector(buf)

\* The loop that is under way has a copy to write.
LoopOK ==
    Syncing \/ pc = "update" => last \in Copies /\ cur \in Copies /\ cur =< last

\* What sync_mbr writes is a boot sector of fbinst, with the partitions of sector 0.
BufferOK ==
    /\ Syncing => buf.magic
    /\ Syncing /\ cur = 0 /\ pc # "format" => buf.table = mbr[0].table

NumbersOK == \A i \in Copies : mbr[i].magic => mbr[i].lba = Lba(i)

\* The copies other programs left alone are intact from the time all were written.
AloneOK ==
    /\ gone \subseteq Copies
    /\ \A i \in gone : ~mbr[i].magic
    /\ head # NoCode => \A i \in Copies \ gone : Intact(i)
    /\ pc = "format" => last = Base /\ \A i \in Copies : i < cur => Intact(i)
    /\ pc = "format stage" => \A i \in Copies : Intact(i)
    /\ pc \in {"update", "update stage"} => head # NoCode

CopiesInv == SectorsOK /\ LoopOK /\ BufferOK /\ NumbersOK /\ AloneOK
=============================================================================
