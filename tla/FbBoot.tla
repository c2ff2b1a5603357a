--------------------------------- MODULE FbBoot ---------------------------------
(***************************************************************************)
(* The boot code of fbinst (grubutils/fbinst/fbmbr.S) on the disk whose    *)
(* copies of the boot sector FbMbr describes.                              *)
(*                                                                         *)
(* The machine starts from any copy and takes it for sector 0.  The boot   *)
(* code reads by number if the BIOS can; otherwise by cylinder, head and   *)
(* sector, and it learns how many of them the BIOS counts from the         *)
(* numbers in two sectors it reads first.  It takes almost any word for    *)
(* such a number: where another program wrote over one of the two sectors, *)
(* or where no fbinst ever wrote it, the boot goes on with a geometry that *)
(* is wrong.  Then the boot code loads the second stage, the file list and *)
(* a file, in calls that stay inside a track and become shorter when one   *)
(* fails.                                                                  *)
(*                                                                         *)
(* Sectors have their numbers on the disk; the BIOS counts from the copy   *)
(* it started from.  A loaded sector is its number.                        *)
(***************************************************************************)
EXTENDS FbMbr

CONSTANTS DiskSize,      \* sectors of the disk
          ListUsed,      \* list_used: sectors of the list to load
          Files,         \* files: first sector and bytes
          PriBlock, ExtBlock,   \* bytes in a sector of the two areas: 510 and 512
          Bioses,        \* BIOSes: whether they read by number (and bit 7 of max_sec
                         \* does not forbid it), their sectors per track and heads,
                         \* and the sectors they read at once
          Cylinders,     \* cylinders a BIOS can be asked for: 1024
          MaxSec, Mid,   \* max_sec, and what it falls to: 63 and 7
          WordValues,    \* number of values of a word, as which a mark has its number
          MaxSpt,        \* sectors of a track in an address of int 13h: 63
          Foreign,       \* words at the end of the sectors fbinst did not write
          TestSector,    \* the sector that is read to see whether numbers work: 0x220
          MaxFaults      \* bound on reads that fail once

ASSUME BootAssumption ==
    /\ ListUsed \in Nat \ {0} /\ MaxFaults \in Nat
    /\ PriBlock \in Nat \ {0} /\ ExtBlock \in Nat \ {0} /\ Cylinders \in Nat \ {0}
    /\ WordValues \in Nat /\ MaxSpt \in Nat /\ MaxSpt < ByteValues
    /\ (MaxSpt + 1) * ByteValues =< WordValues
    /\ Foreign \subseteq 0 .. WordValues - 1
    /\ MaxSec \in Nat /\ Mid \in Nat /\ 1 < Mid /\ Mid < MaxSec
    /\ DiskSize \in Nat /\ Base + BootSize + ListUsed < DiskSize /\ TestSector \in Nat
    /\ \A b \in Bioses :
          /\ b.lba \in BOOLEAN /\ b.spt \in 1 .. MaxSpt /\ b.most \in Nat \ {0}
          /\ b.heads \in 1 .. ByteValues - 1   \* 255 in dh stands for reading by number
    /\ \A f \in Files : f.at \in Nat /\ f.at > Base /\ f.size \in Nat \ {0}

VARIABLES bpc,      \* "off", "detect", "heads", "load", "booted", "halted", "lost"
          bios, copy,     \* the BIOS; the sector it starts from
          file,     \* the file that is booted
          byNumber, \* dh is 0xff
          spt, heads, maxsec,
          job,      \* 1, 2: the second stage, its first sector and the rest; 3: the list; 4: the file
          place,    \* where the next sector is, as the BIOS is told
          togo,     \* si: the sectors that remain
          mem,      \* the sectors that were loaded
          faults

bvars == <<bpc, bios, copy, file, byNumber, spt, heads, maxsec, job, place, togo, mem, faults>>
disk == <<mbr, head, run, marked, gone, done, ncmd, nharm>>

-----------------------------------------------------------------------------
(***************************************************************************)
(* What the BIOS reads.                                                    *)
(***************************************************************************)

\* The sector of the disk the BIOS takes for n, and what the boot code takes it for.
OnDisk(n) == copy + n
Seen(s) == s - mbr[copy].lba

Numbered(p) == ((p.cyl * bios.heads) + p.head) * bios.spt + p.sec

\* Reads by number may go on anywhere, others end with the track.
Can(p, n) ==
    /\ n =< bios.most
    /\ IF byNumber THEN OnDisk(p.sec) + n =< DiskSize
       ELSE /\ p.head < bios.heads /\ p.sec + n =< bios.spt
            /\ OnDisk(Numbered(p)) + n =< DiskSize

Sector(p) == OnDisk(IF byNumber THEN p.sec ELSE Numbered(p))

\* Where the BIOS is told sector n is (lba_mode, chs_mode), by number or with st sectors
\* in a track and hd heads.
Place(n, byN, st, hd) ==
    IF byN THEN [cyl |-> 0, head |-> 0, sec |-> n]
    ELSE [cyl |-> (n \div (st * hd)) % Cylinders, head |-> (n % (st * hd)) \div st, sec |-> n % st]

\* Mutated: the head is not set back at the end of the cylinder.
NextTrack_KeepHead(p) ==
    IF p.head + 1 < heads THEN [p EXCEPT !.head = @ + 1, !.sec = 0]
    ELSE [p EXCEPT !.cyl = (@ + 1) % Cylinders, !.sec = 0]

NextTrack(p) ==
    IF p.head + 1 < heads THEN [p EXCEPT !.head = @ + 1, !.sec = 0]
    ELSE [cyl |-> (p.cyl + 1) % Cylinders, head |-> 0, sec |-> 0]

\* n sectors on (read_sectors_cont_2).
Onward(p, n) ==
    IF ~byNumber /\ p.sec + n = spt THEN NextTrack(p)
    ELSE [p EXCEPT !.sec = @ + n]

\* The sectors of the next call.
Asked == Min2(togo, IF byNumber THEN maxsec ELSE Min2(spt - place.sec, maxsec))

-----------------------------------------------------------------------------
(***************************************************************************)
(* How the BIOS counts.                                                    *)
(***************************************************************************)

\* The memory of fbinst is gone, and nothing more is done to the disk.
PowerOn(i, b) ==
    /\ bpc = "off" /\ pc = "idle"
    /\ mbr[i].magic
    /\ copy' = i /\ bios' = b
    /\ bpc' = "detect"
    /\ ncmd' = MaxCmds /\ nharm' = MaxHarm
    /\ buf' = Alien(<<>>) /\ cur' = 0 /\ last' = 0
    /\ UNCHANGED <<mbr, head, pc, marked, gone, done, file, byNumber, spt, heads, maxsec, job,
                   place, togo, mem, faults>>

\* The first sector of the second stage.  read_sectors subtracts the copy's number.
LoadStage(byN, st, hd) ==
    /\ bpc' = "load" /\ byNumber' = byN /\ spt' = st /\ heads' = hd
    /\ job' = 1 /\ togo' = 1 /\ mem' = <<>>
    /\ place' = Place(Seen(Base + 1), byN, st, hd)

\* int 13h, function 41h.
CanNumber == bios.lba

TestWorks == OnDisk(TestSector) < DiskSize

UseNumbers ==
    /\ bpc = "detect" /\ CanNumber /\ TestWorks
    /\ LoadStage(TRUE, spt, heads)
    /\ UNCHANGED <<disk, bios, copy, file, maxsec, faults>>

\* Ends as nobody knows, or with hlt.
GiveUp(how) ==
    /\ bpc' \in how
    /\ UNCHANGED <<disk, bios, copy, file, byNumber, spt, heads, maxsec, job, place,
                   togo, mem>>

Fault == faults < MaxFaults /\ faults' = faults + 1

\* try_chs takes its registers from the stack, where the packet of the test lies.
TestFails ==
    /\ bpc = "detect" /\ CanNumber
    /\ IF TestWorks THEN Fault ELSE UNCHANGED faults
    /\ GiveUp({"lost", "halted"})

\* The first sectors of the second track and of the second cylinder.
SptSector == OnDisk(bios.spt)
HeadsSector == OnDisk(bios.spt * bios.heads)

\* The sector it reads next.  A BIOS with one head refuses the second track, which
\* is to be head 1 of the first cylinder.
Probing == (bpc = "detect" /\ ~CanNumber) \/ bpc = "heads"
Probed == IF bpc = "detect" THEN SptSector ELSE HeadsSector
ProbeThere == Probed < DiskSize /\ (bpc = "detect" => bios.heads > 1)

\* fbinst wrote the number of a sector into it: a copy, or one with a mark.
HasNumber(s) == IF s \in Copies THEN mbr[s].magic ELSE s < marked

\* The words calc_lba may take from sector s: it has no way to tell a mark from
\* whatever stands at the end of a sector fbinst did not write.
EndWords(s) ==
    IF ~HasNumber(s) THEN Foreign
    ELSE {IF s \in Copies THEN mbr[s].lba ELSE s % WordValues}

CalcLba(word) == (word - mbr[copy].lba) % WordValues

FindSpt ==
    /\ bpc = "detect" /\ ~CanNumber /\ ProbeThere
    /\ \E word \in EndWords(SptSector) : spt' = CalcLba(word) % ByteValues
    /\ bpc' = "heads"
    /\ UNCHANGED <<disk, bios, copy, file, byNumber, heads, maxsec, job, place, togo, mem,
                   faults>>

FindHeads ==
    /\ bpc = "heads" /\ ProbeThere /\ spt \in 1 .. MaxSpt
    /\ \E word \in EndWords(HeadsSector) :
          /\ CalcLba(word) \div spt \in 1 .. ByteValues - 1
          /\ LoadStage(FALSE, spt, CalcLba(word) \div spt)
    /\ UNCHANGED <<disk, bios, copy, file, maxsec, faults>>

\* A quotient that is no byte, a division by zero, or a track longer than a BIOS can
\* be told of: what follows is not modelled.
BadGeometry ==
    /\ bpc = "heads" /\ ProbeThere
    /\ spt \in 1 .. MaxSpt =>
          \E word \in EndWords(HeadsSector) : CalcLba(word) \div spt \notin 1 .. ByteValues - 1
    /\ GiveUp({"lost"})
    /\ UNCHANGED faults

\* check_mbr: a sector with the signature of a boot sector must be fbinst's.
NotOurs ==
    /\ Probing /\ ProbeThere /\ ~HasNumber(Probed)
    /\ GiveUp({"halted"})
    /\ UNCHANGED faults

\* safe_int13 tries once.
ReadRefused ==
    /\ Probing
    /\ IF ProbeThere THEN Fault ELSE UNCHANGED faults
    /\ GiveUp({"halted"})

-----------------------------------------------------------------------------
(***************************************************************************)
(* Loading.                                                                *)
(***************************************************************************)

\* check_file: the sectors of a file, in blocks of the area it is in.
Block(f) == IF f.at < PriSize THEN PriBlock ELSE ExtBlock
Count(f) == (f.size + Block(f) - 1) \div Block(f)

\* The first sector and the length of each job; 2 goes on where 1 ended.
JobAt(j, f) == CASE j =< 2 -> Base + 1 [] j = 3 -> Base + 1 + BootSize [] j = 4 -> f.at
JobSize(j, f) == CASE j = 1 -> 1 [] j = 2 -> BootSize - 1 [] j = 3 -> ListUsed [] j = 4 -> Count(f)

Loading == bpc = "load" /\ togo > 0

ReadSectors ==
    /\ Loading /\ Can(place, Asked)
    /\ mem' = mem \o [k \in 1 .. Asked |-> Sector(place) + k - 1]
    /\ place' = Onward(place, Asked) /\ togo' = togo - Asked
    /\ UNCHANGED <<disk, bpc, bios, copy, file, byNumber, spt, heads, maxsec, job, faults>>

\* Mutated: a call is not made shorter than Mid.
Shorter_NotOne(n) == Mid

Shorter(n) == IF n > Mid THEN Mid ELSE 1

\* read_int13_fail: fewer sectors from now on, until a single one fails.
ReadFails ==
    /\ Loading
    /\ IF Can(place, Asked) THEN Fault ELSE UNCHANGED faults
    /\ IF Asked =< 1 THEN bpc' = "halted" /\ UNCHANGED maxsec
       ELSE maxsec' = Shorter(Asked) /\ UNCHANGED bpc
    /\ UNCHANGED <<disk, bios, copy, file, byNumber, spt, heads, job, place, togo, mem>>

\* Memory holds the sectors that were asked for.
Loaded == \A k \in DOMAIN mem : mem[k] = JobAt(job, file) + k - 1

\* What was loaded runs or is read: the second stage or the list, if it is that and
\* if one was ever written.
NextJob ==
    /\ bpc = "load" /\ togo = 0 /\ job < 4
    /\ job' = job + 1
    /\ IF job = 3 THEN file' \in Files ELSE UNCHANGED file
    /\ togo' = JobSize(job', file')
    /\ IF job = 1 THEN UNCHANGED <<mem, place>>
       ELSE mem' = <<>> /\ place' = Place(Seen(JobAt(job', file')), byNumber, spt, heads)
    /\ bpc' = IF head = NoCode \/ ~Loaded THEN "lost" ELSE bpc
    /\ UNCHANGED <<disk, bios, copy, byNumber, spt, heads, maxsec, faults>>

Run ==
    /\ bpc = "load" /\ togo = 0 /\ job = 4
    /\ bpc' = "booted"
    /\ UNCHANGED <<disk, bios, copy, file, byNumber, spt, heads, maxsec, job, place, togo,
                   mem, faults>>

BootStep ==
    \/ UseNumbers \/ TestFails \/ FindSpt \/ FindHeads \/ BadGeometry \/ NotOurs
    \/ ReadRefused \/ ReadSectors \/ ReadFails \/ NextJob \/ Run

-----------------------------------------------------------------------------
NoBios == [lba |-> FALSE, spt |-> 1, heads |-> 1, most |-> 1]

BootInit ==
    /\ Init
    /\ bpc = "off" /\ bios = NoBios /\ copy = 0 /\ file = [at |-> 0, size |-> 1]
    /\ byNumber = FALSE /\ spt = 1 /\ heads = 1 /\ maxsec = MaxSec
    /\ job = 1 /\ place = Place(0, TRUE, 1, 1) /\ togo = 0 /\ mem = <<>> /\ faults = 0

BootNext ==
    \/ bpc = "off" /\ Next /\ UNCHANGED bvars
    \/ \E i \in Copies, b \in Bioses : PowerOn(i, b)
    \/ BootStep
    \/ bpc \in {"booted", "halted", "lost"} /\ UNCHANGED <<vars, bvars>>

\* The boot code waits for nothing; every call of the BIOS returns.
BootSpec == BootInit /\ [][BootNext]_<<vars, bvars>> /\ WF_<<vars, bvars>>(BootStep)

-----------------------------------------------------------------------------
(***************************************************************************)
(* Properties.                                                             *)
(***************************************************************************)

\* The types of the boot code's state.
BootTypeOK ==
    /\ bpc \in {"off", "detect", "heads", "load", "booted", "halted", "lost"}
    /\ bios \in Bioses \cup {NoBios} /\ copy \in Copies
    /\ spt \in Nat /\ heads \in Nat \ {0} /\ maxsec \in 1 .. MaxSec
    /\ job \in 1 .. 4 /\ togo \in Nat
    /\ bpc = "load" => togo + Len(mem) \in {JobSize(job, file), BootSize}

Running == bpc \in {"load", "booted"}

\* The two sectors that tell the geometry are as fbinst wrote them: other programs
\* did not write over them since, and the second cylinder begins among the sectors
\* that were given marks.
Learnable == {SptSector, HeadsSector} \cap gone = {} /\ HeadsSector < marked

\* The boot code needs no geometry or can learn it, from copies that can be counted in
\* a byte.
Certain == Base < ByteValues /\ (byNumber \/ Learnable)

\* Then, from whichever copy it was started and wherever commands were interrupted,
\* it knows how the BIOS counts.
GeometryKnown == Running /\ ~byNumber /\ Certain => spt = bios.spt /\ heads = bios.heads

\* Behind the last cylinder a BIOS can be asked for.
Behind(s) == ~CanNumber /\ Seen(s) >= Cylinders * bios.spt * bios.heads

\* And what it loads is the second stage, the list and the file, sector by sector, in
\* calls of any length and over the ends of tracks and cylinders.
LoadedRight ==
    Running /\ Certain
        => \A k \in DOMAIN mem : LET s == JobAt(job, file) + k - 1 IN mem[k] = s \/ Behind(s)

\* A disk that was formatted boots from every copy whose boot code is that of the
\* second stage, whatever happened to the other copies, as long as all sectors can
\* be read: if the BIOS reads by number the test sector must be there, and if not
\* the geometry must be one that can be learned, with more than one head.
CanBoot ==
    /\ head # NoCode /\ mbr[copy].code = head /\ faults = 0 /\ Base < ByteValues
    /\ IF CanNumber THEN TestWorks
       ELSE Learnable /\ bios.heads > 1 /\ HeadsSector < DiskSize
    /\ ~Behind(Base + BootSize + ListUsed)
    /\ file.at + Count(file) =< DiskSize /\ ~Behind(file.at + Count(file))

SoundBoots == CanBoot /\ bpc # "off" => bpc \notin {"lost", "halted"}

\* The invariant of a boot: the types, the geometry, what is in memory, and the disks
\* that boot.
LoadInv == BootTypeOK /\ GeometryKnown /\ LoadedRight /\ SoundBoots

\* A boot ends: with the file in memory, halted, or where it runs what is no code.
LoadEnds == bpc = "detect" ~> bpc \in {"booted", "halted", "lost"}

\* What a finished command promises of the copies: the types, the tables, the codes.
FreshInv == TypeOK /\ TablesFollow /\ CodeMatches
=============================================================================
