---------------------------- MODULE InstallersProofs ----------------------------
(***************************************************************************)
(* Proofs about the boot track, for every size of the tracks and of the    *)
(* disk, every set of partition tables and boot managers, and every number *)
(* of runs: the partition table and the partitions survive, the replaced   *)
(* boot record stays on the disk, weesetup reports what it did, and what   *)
(* grubinst saved comes back.                                              *)
(***************************************************************************)
EXTENDS Installers, TLAPS

-----------------------------------------------------------------------------
(***************************************************************************)
(* The kinds of sectors.                                                   *)
(***************************************************************************)

\* What a boot record is made of, and what is none.
LEMMA Kinds ==
    /\ \A c, t : IsSigned(Mbr(c, t)) /\ Mbr(c, t).code = c /\ Mbr(c, t).table = t
    /\ \A c, k : ~IsSigned(Code(c, k))
    /\ \A s : ~IsSigned(Data(s))
    /\ ~IsSigned(Zero) /\ ~IsSigned(Junk)
  BY DEF IsSigned, Mbr, Code, Data, Zero, Junk

\* The tracks of boot managers begin with a boot record.
LEMMA TrackStart ==
    ASSUME NEW owner, NEW size \in Nat, size > 0, NEW t
    PROVE  Track(owner, size, t)[0] = Mbr(owner, t)
  BY DEF Track

-----------------------------------------------------------------------------
(***************************************************************************)
(* The partition table and the partitions.                                 *)
(***************************************************************************)

\* A run of grubinst has read a boot record with the table of the disk, and has
\* made sure that its track ends before the first partition.
GrubRun ==
    /\ pc # "idle" => /\ wpc = "idle" /\ cmd \in Runs
                      /\ IsSigned(prev[0]) /\ prev[0].table = table
                      /\ Size[cmd.ver] =< Tables[table]
    /\ pc = "write" => IsSigned(new[0]) /\ new[0].table = table

\* So has one of weesetup.
WeeRun ==
    wpc # "idle" => /\ pc = "idle" /\ wcmd \in WeeRuns
                    /\ IsSigned(read[0]) /\ read[0].table = table
                    /\ WeeSize[wcmd.install] =< Tables[table]

DiskOK ==
    /\ disk = [s \in 0 .. DiskSize - 1 |-> disk[s]]
    /\ table \in DOMAIN Tables

TrackIInv == DiskOK /\ TrackInv /\ GrubRun /\ WeeRun

\* A disk with a boot manager satisfies the invariant.
LEMMA TrackInitially == Init => TrackIInv
<1>. SUFFICES ASSUME Init PROVE TrackIInv
  OBVIOUS
<1>. USE DEF Init, TrackInit, GrubInit, WeeInit
<1>1. DiskOK
  BY DEF DiskOK
<1>2. GrubTypeOK /\ WeeTypeOK
  BY TrackAssumption, SaveAssumption, WeeSizeAssumption
     DEF GrubTypeOK, WeeTypeOK, NoRun, NoWee
<1>3. 0 \in 0 .. DiskSize - 1 /\ 0 < Managers[manager] /\ Managers[manager] \in Nat
  BY TrackAssumption
<1>4. disk[0] = Mbr(manager, table)
  BY <1>3, TrackStart
<1>5. TableKept
  BY <1>4, Kinds DEF TableKept
<1>6. PartitionsSafe
  BY TrackAssumption DEF PartitionsSafe, Sectors
<1> QED
  BY <1>1, <1>2, <1>5, <1>6 DEF TrackIInv, TrackInv, GrubRun, WeeRun

\* One sector of the track is written, by a run whose track ends before the first
\* partition; a boot record that is written has the table of the disk.
LEMMA OneSector ==
    ASSUME TrackIInv, NEW k \in Nat, k < Tables[table], NEW sector,
           IsSigned(sector) => k # 0 \/ sector.table = table,
           disk' = [disk EXCEPT ![k] = sector], table' = table
    PROVE  DiskOK' /\ TableKept' /\ PartitionsSafe'
<1>1. DiskOK' /\ Sectors' = Sectors
  BY DEF TrackIInv, DiskOK, Sectors
<1>2. \A s \in Sectors : s # k => disk'[s] = disk[s]
  BY DEF Sectors
<1>3. 0 \in Sectors
  BY TrackAssumption DEF TrackIInv, DiskOK, Sectors
<1>4. TableKept'
  <2>1. CASE k = 0
    <3>1. disk'[0] = sector
      BY <1>3, <2>1 DEF Sectors
    <3> QED
      BY <2>1, <3>1 DEF TableKept
  <2>2. CASE k # 0
    BY <1>2, <1>3, <2>2 DEF TrackIInv, TrackInv, TableKept
  <2> QED
    BY <2>1, <2>2
<1>5. PartitionsSafe'
  BY <1>1, <1>2, TrackAssumption DEF TrackIInv, TrackInv, PartitionsSafe, DiskOK, Sectors
<1> QED
  BY <1>1, <1>4, <1>5

\* Others write when no installer runs.
LEMMA TrackOthers == TrackIInv /\ Others => TrackIInv'
<1>. SUFFICES ASSUME TrackIInv, Others PROVE TrackIInv'
  OBVIOUS
<1>1. /\ pc = "idle" /\ wpc = "idle" /\ UNCHANGED <<gvars, wcmd, read, i, wpc, bad, faults>>
      /\ DOMAIN disk = 0 .. DiskSize - 1 /\ table \in DOMAIN Tables /\ 0 \in Sectors
      /\ TableKept /\ PartitionsSafe
  BY TrackAssumption DEF Others, Quiet, Overwritten, TrackIInv, TrackInv, DiskOK, Sectors
<1>2. GrubTypeOK' /\ WeeTypeOK'
  BY <1>1 DEF TrackIInv, TrackInv, GrubTypeOK, WeeTypeOK, gvars, LastSector
<1>3. GrubRun' /\ WeeRun'
  BY <1>1 DEF GrubRun, WeeRun, gvars
<1>4. DiskOK' /\ TableKept' /\ PartitionsSafe'
  <2>1. CASE \E t \in DOMAIN Tables : Repartition(t)
    <3>1. PICK t \in DOMAIN Tables : Repartition(t)
      BY <2>1
    <3>2. disk'[0] = Mbr(disk[0].code, t) /\ table' = t /\ DOMAIN disk' = DOMAIN disk
      BY <1>1, <3>1 DEF Repartition, Sectors
    <3>3. \A s \in Sectors : s >= Tables[t] => disk'[s] = Data(s)
      BY <1>1, <3>1, TrackAssumption DEF Repartition, Sectors
    <3>4. DiskOK'
      BY <1>1, <3>1 DEF DiskOK, Repartition, Sectors
    <3>5. PartitionsSafe'
      BY <1>1, <3>2, <3>3 DEF PartitionsSafe, Sectors
    <3> QED
      BY <3>2, <3>4, <3>5, Kinds DEF TableKept
  <2>2. CASE \E m \in DOMAIN Managers : InstallManager(m)
    <3>1. PICK m \in DOMAIN Managers : InstallManager(m)
      BY <2>2
    <3>2. disk[0].table = table /\ Managers[m] =< Tables[table] /\ table' = table
      BY <1>1, <3>1 DEF InstallManager, TableKept, First
    <3>3. Managers[m] \in Nat /\ Managers[m] > 0 /\ Tables[table] \in Nat
      BY <1>1, TrackAssumption
    <3>4. disk'[0] = Mbr(m, table) /\ DOMAIN disk' = DOMAIN disk
      BY <1>1, <3>1, <3>2, <3>3, TrackStart DEF InstallManager, Sectors
    <3>5. \A s \in Sectors : s >= Tables[table] => disk'[s] = disk[s]
      BY <1>1, <3>1, <3>2, <3>3 DEF InstallManager, Sectors
    <3>6. DiskOK'
      BY <1>1, <3>1, <3>2 DEF DiskOK, InstallManager, Sectors
    <3>7. PartitionsSafe'
      BY <1>1, <3>2, <3>4, <3>5 DEF PartitionsSafe, Sectors
    <3> QED
      BY <3>2, <3>4, <3>6, <3>7, Kinds DEF TableKept
  <2> QED
    BY <2>1, <2>2 DEF Others
<1> QED
  BY <1>2, <1>3, <1>4 DEF TrackIInv, TrackInv

\* What grubinst writes begins with a boot record that has the table of the disk.
LEMMA NewStart ==
    ASSUME TrackIInv, Build
    PROVE  IsSigned(new'[0]) /\ new'[0].table = table
<1>1. cmd \in Runs /\ prev[0].table = table /\ Size[cmd.ver] \in Nat /\ Size[cmd.ver] > 1
  BY TrackAssumption DEF TrackIInv, GrubRun, Build, Runs
<1>2. \A track : 0 \in DOMAIN track => Patch(track)[0] = Mbr(track[0].code, table)
  BY <1>1 DEF Patch
<1>3. 0 \in DOMAIN Installed /\ 0 \in DOMAIN PrevTrack /\ 0 \in DOMAIN FileTrack
  BY <1>1 DEF Installed, PrevTrack, FileTrack, Track
<1>4. \E track : 0 \in DOMAIN track /\ new' = Patch(track)
  <2>1. cmd.mode \in {"install", "prev", "file"}
    BY <1>1, SaveAssumption DEF Runs
  <2> QED
    BY <1>3, <2>1 DEF Build
<1> QED
  BY <1>2, <1>4, Kinds

\* The steps of grubinst that leave the disk alone.
LEMMA TrackGrubQuiet ==
    ASSUME TrackIInv, wpc = "idle", Overwritten, UNCHANGED <<disk, table>>, GrubTypeOK', GrubRun'
    PROVE  TrackIInv'
<1>1. WeeTypeOK' /\ WeeRun'
  BY DEF TrackIInv, TrackInv, Overwritten, WeeTypeOK, WeeRun, LastSector
<1>2. DiskOK' /\ TableKept' /\ PartitionsSafe'
  BY DEF TrackIInv, TrackInv, DiskOK, TableKept, PartitionsSafe, Sectors
<1> QED
  BY <1>1, <1>2 DEF TrackIInv, TrackInv

\* Every step of grubinst keeps the invariant.
LEMMA TrackGrubinst == TrackIInv /\ Grubinst => TrackIInv'
<1>. SUFFICES ASSUME TrackIInv, Grubinst PROVE TrackIInv'
  OBVIOUS
<1>1. wpc = "idle" /\ GrubStep /\ Overwritten
  BY DEF Grubinst
<1>2. GrubTypeOK /\ GrubRun /\ WeeTypeOK /\ DiskOK /\ TableKept
  BY DEF TrackIInv, TrackInv
<1>3. CASE \E r \in Runs : Start(r)
  <2>1. PICK r \in Runs : Start(r)
    BY <1>3
  <2>2. GrubTypeOK'
    BY <1>2, <2>1 DEF GrubTypeOK, Start
  <2>3. GrubRun'
    BY <1>1, <1>2, <2>1 DEF GrubRun, Start, Overwritten, HasRoom, First, TableKept
  <2> QED
    BY <1>1, <2>1, <2>2, <2>3, TrackGrubQuiet DEF Start
<1>4. CASE SaveFile
  <2>1. Len(ToSave) \in {1, SaveSize} /\ Len(<<>>) = 0
    BY SaveAssumption DEF ToSave
  <2>2. GrubTypeOK'
    BY <1>2, <1>4, <2>1 DEF GrubTypeOK, SaveFile, Leave
  <2>3. GrubRun'
    BY <1>1, <1>2, <1>4 DEF GrubRun, SaveFile, Leave, Overwritten, ghosts
  <2> QED
    BY <1>1, <1>4, <2>2, <2>3, TrackGrubQuiet DEF SaveFile, ghosts
<1>5. CASE NothingToSave \/ Refuse
  <2>1. GrubTypeOK' /\ GrubRun'
    BY <1>2, <1>5 DEF GrubTypeOK, GrubRun, NothingToSave, Refuse, Leave
  <2> QED
    BY <1>1, <1>5, <2>1, TrackGrubQuiet DEF NothingToSave, Refuse, ghosts
<1>6. CASE Build
  <2>1. GrubTypeOK'
    BY <1>2, <1>6, TrackAssumption DEF GrubTypeOK, GrubRun, Build, Runs
  <2>2. GrubRun'
    BY <1>1, <1>2, <1>6, NewStart DEF GrubRun, Build, Overwritten, ghosts
  <2> QED
    BY <1>1, <1>6, <2>1, <2>2, TrackGrubQuiet DEF Build, ghosts
<1>7. CASE Write
  <2>1. /\ cmd \in Runs /\ Size[cmd.ver] =< Tables[table] /\ n \in Nat /\ n < Size[cmd.ver]
        /\ IsSigned(new[0]) /\ new[0].table = table
    BY <1>2, <1>7 DEF GrubRun, GrubTypeOK, Write
  <2>2. Size[cmd.ver] \in Nat /\ Tables[table] \in Nat
    BY <1>2, <2>1, TrackAssumption DEF Runs, DiskOK
  <2>3. GrubTypeOK'
    BY <1>2, <1>7, <2>1, <2>2 DEF GrubTypeOK, Write, Leave
  <2>4. GrubRun'
    BY <1>1, <1>2, <1>7 DEF GrubRun, Write, Leave, Overwritten
  <2>5. n < Tables[table]
    BY <2>1, <2>2
  <2>6. DiskOK' /\ TableKept' /\ PartitionsSafe'
    <3>1. IsSigned(new[n]) => n # 0 \/ new[n].table = table
      BY <2>1
    <3>2. disk' = [disk EXCEPT ![n] = new[n]] /\ table' = table
      BY <1>7 DEF Write
    <3> QED
      BY <2>1, <2>5, <3>1, <3>2, OneSector
  <2>7. WeeTypeOK' /\ WeeRun'
    BY <1>1, <1>2 DEF WeeTypeOK, WeeRun, Overwritten, LastSector
  <2> QED
    BY <2>3, <2>4, <2>6, <2>7 DEF TrackIInv, TrackInv
<1>8. CASE Interrupt
  <2>1. GrubTypeOK' /\ GrubRun'
    BY <1>2, <1>8 DEF GrubTypeOK, GrubRun, Interrupt, Leave
  <2> QED
    BY <1>1, <1>8, <2>1, TrackGrubQuiet DEF Interrupt
<1> QED
  BY <1>1, <1>3, <1>4, <1>5, <1>6, <1>7, <1>8 DEF GrubStep

\* What weesetup writes begins with a boot record that has the table of the disk.
LEMMA ImageStart ==
    ASSUME WeeRun, DiskOK, wpc # "idle"
    PROVE  /\ LastSector \in Nat /\ LastSector > 0 /\ LastSector < Tables[table]
           /\ Image[0] = Mbr("wee", table)
<1>1. wcmd \in WeeRuns /\ read[0].table = table /\ WeeSize[wcmd.install] =< Tables[table]
  BY DEF WeeRun
<1>2. WeeSize[wcmd.install] \in Nat /\ WeeSize[wcmd.install] > 1
  BY <1>1, WeeSizeAssumption DEF WeeRuns
<1>3. Tables[table] \in Nat
  BY TrackAssumption DEF DiskOK
<1> QED
  BY <1>1, <1>2, <1>3 DEF LastSector, Image

\* Writing a sector, right or wrong, within the track of wee.
LEMMA WeeStores ==
    ASSUME TrackIInv, wpc \in {"write", "rewind"}, pc = "idle", UNCHANGED gvars,
           NEW sector, i = 0 => IsSigned(sector) /\ sector.table = table,
           NEW next \in {"reread", "recheck"},
           Store(i, sector), Advance(next), UNCHANGED <<wcmd, read, table>>
    PROVE  TrackIInv'
<1>1. GrubTypeOK' /\ GrubRun'
  BY DEF TrackIInv, TrackInv, GrubTypeOK, GrubRun, gvars
<1>2. WeeRun'
  BY DEF TrackIInv, WeeRun, Advance, gvars
<1>3. LastSector \in Nat /\ LastSector < Tables[table] /\ i \in Nat /\ i =< LastSector /\ i < Tables[table]
  BY ImageStart, TrackAssumption DEF TrackIInv, TrackInv, WeeTypeOK, DiskOK
<1>4. WeeTypeOK'
  <2>1. wcmd' \in WeeRuns \union {NoWee} /\ wpc' \in {"idle", "write", "reread", "rewind", "recheck"}
    BY DEF TrackIInv, TrackInv, WeeTypeOK, Advance
  <2>2. i' \in Nat /\ (wpc' # "idle" => i' =< LastSector')
    BY <1>3 DEF Advance, LastSector
  <2>3. bad' \in Nat /\ faults' \in Nat /\ bad' =< faults' /\ faults' =< MaxFaults
    <3>1. bad =< faults /\ faults =< MaxFaults /\ bad \in Nat /\ faults \in Nat
      BY DEF TrackIInv, TrackInv, WeeTypeOK
    <3> QED
      BY <3>1, WeeSizeAssumption DEF Store
  <2> QED
    BY <2>1, <2>2, <2>3 DEF WeeTypeOK
<1>5. PICK what : disk' = [disk EXCEPT ![i] = what] /\ (IsSigned(what) => i # 0 \/ what.table = table)
  <2>1. CASE disk' = [disk EXCEPT ![i] = sector]
    BY <2>1
  <2>2. CASE disk' = [disk EXCEPT ![i] = Junk]
    BY <2>2, Kinds
  <2>3. CASE disk' = disk
    <3>1. disk' = [disk EXCEPT ![i] = disk[i]]
      BY <2>3 DEF TrackIInv, DiskOK
    <3>2. IsSigned(disk[i]) => i # 0 \/ disk[i].table = table
      BY DEF TrackIInv, TrackInv, TableKept
    <3> QED
      BY <3>1, <3>2
  <2> QED
    BY <2>1, <2>2, <2>3 DEF Store
<1>6. DiskOK' /\ TableKept' /\ PartitionsSafe'
  BY <1>3, <1>5, OneSector
<1> QED
  BY <1>1, <1>2, <1>4, <1>6 DEF TrackIInv, TrackInv

\* The steps of weesetup that leave the disk alone.
LEMMA TrackWeeQuiet ==
    ASSUME TrackIInv, UNCHANGED <<gvars, disk, table>>, WeeTypeOK', WeeRun',
           pc = "idle" 
    PROVE  TrackIInv'
<1>1. GrubTypeOK' /\ GrubRun'
  BY DEF TrackIInv, TrackInv, GrubTypeOK, GrubRun, gvars
<1>2. DiskOK' /\ TableKept' /\ PartitionsSafe'
  BY DEF TrackIInv, TrackInv, DiskOK, TableKept, PartitionsSafe, Sectors
<1> QED
  BY <1>1, <1>2 DEF TrackIInv, TrackInv

\* Every step of weesetup keeps the invariant.
LEMMA TrackWeesetup == TrackIInv /\ Weesetup => TrackIInv'
<1>. SUFFICES ASSUME TrackIInv, Weesetup PROVE TrackIInv'
  OBVIOUS
<1>1. pc = "idle" /\ WeeStep /\ UNCHANGED gvars
  BY DEF Weesetup
<1>2. WeeTypeOK /\ WeeRun /\ DiskOK /\ TableKept /\ bad \in Nat /\ faults \in Nat
  BY DEF TrackIInv, TrackInv, WeeTypeOK
<1>3. CASE \E w \in WeeRuns : Install(w)
  <2>1. PICK w \in WeeRuns : Install(w)
    BY <1>3
  <2>2. WeeSize[w.install] \in Nat /\ WeeSize[w.install] > 1
    BY WeeSizeAssumption DEF WeeRuns
  <2>3. WeeTypeOK'
    BY <1>2, <2>1, <2>2 DEF WeeTypeOK, Install, LastSector
  <2>4. WeeRun'
    BY <1>1, <1>2, <2>1 DEF WeeRun, Install, CanInstall, First, TableKept, gvars
  <2> QED
    BY <1>1, <2>1, <2>3, <2>4, TrackWeeQuiet DEF Install
<1>4. CASE WriteWee
  BY <1>1, <1>2, <1>4, ImageStart, Kinds, WeeStores DEF WriteWee, ghosts
<1>5. CASE SkipSame
  <2>1. LastSector \in Nat /\ i \in Nat /\ i =< LastSector
    BY <1>2, <1>5, ImageStart DEF SkipSame, WeeTypeOK
  <2>2. WeeTypeOK'
    BY <1>2, <1>5, <2>1 DEF SkipSame, WeeTypeOK, LastSector, Advance
  <2>3. WeeRun'
    BY <1>1, <1>2, <1>5 DEF SkipSame, WeeRun, Advance, ghosts, gvars
  <2> QED
    BY <1>1, <1>5, <2>2, <2>3, TrackWeeQuiet DEF SkipSame, ghosts
<1>6. CASE Reread
  <2>1. WeeTypeOK' /\ WeeRun'
    BY <1>1, <1>2, <1>6 DEF Reread, Quit, WeeTypeOK, WeeRun, LastSector, gvars
  <2> QED
    BY <1>1, <1>6, <2>1, TrackWeeQuiet DEF Reread
<1>7. CASE Rewind
  BY <1>1, <1>2, <1>7, WeeStores DEF Rewind, WeeRun, ghosts
<1>8. CASE Recheck \/ Exit
  <2>1. WeeTypeOK' /\ WeeRun'
    BY <1>1, <1>2, <1>8 DEF Recheck, Exit, Quit, WeeTypeOK, WeeRun
  <2> QED
    BY <1>1, <1>8, <2>1, TrackWeeQuiet DEF Recheck, Exit
<1>9. CASE \E force \in BOOLEAN : Restore(force)
  <2>1. /\ disk' = [disk EXCEPT ![0] = Restored] /\ table' = table
        /\ UNCHANGED wvars /\ wpc = "idle" /\ IsWee(disk[0])
    BY <1>9 DEF Restore
  <2>2. Restored.table = table
    BY <1>2, <2>1, Kinds DEF Restored, IsWee, TableKept
  <2>3. 0 < Tables[table]
    BY <1>2, TrackAssumption DEF DiskOK
  <2>4. DiskOK' /\ TableKept' /\ PartitionsSafe'
    BY <2>1, <2>2, <2>3, OneSector
  <2>5. GrubTypeOK' /\ GrubRun' /\ WeeTypeOK' /\ WeeRun'
    BY <1>1, <2>1 DEF TrackIInv, TrackInv, GrubTypeOK, GrubRun, WeeTypeOK, WeeRun, gvars, wvars, LastSector
  <2> QED
    BY <2>4, <2>5 DEF TrackIInv, TrackInv
<1> QED
  BY <1>1, <1>3, <1>4, <1>5, <1>6, <1>7, <1>8, <1>9 DEF WeeStep

\* A step that changes nothing.
LEMMA TrackStutters == TrackIInv /\ UNCHANGED vars => TrackIInv'
  BY DEF TrackIInv, TrackInv, GrubTypeOK, WeeTypeOK, GrubRun, WeeRun, DiskOK, TableKept,
         PartitionsSafe, Sectors, LastSector, vars, tvars, gvars, wvars, ghosts

\* The inductive invariant: TrackInv, and that every run knows the table of the disk
\* and the room before the first partition.
THEOREM TrackInvariant == Spec => []TrackIInv
<1>1. TrackIInv /\ [Next]_vars => TrackIInv'
  BY TrackOthers, TrackGrubinst, TrackWeesetup, TrackStutters DEF Next
<1> QED
  BY <1>1, TrackInitially, PTL DEF Spec

\* The disk keeps its partition table and its partitions at every step of grubinst
\* and of weesetup (TableKept and PartitionsSafe), whatever the others leave.
THEOREM TrackSafe == Spec => []TrackInv
<1>1. TrackIInv => TrackInv
  BY DEF TrackIInv
<1> QED
  BY <1>1, TrackInvariant, PTL

-----------------------------------------------------------------------------
(***************************************************************************)
(* How far a run has come.                                                 *)
(***************************************************************************)

\* grubinst has written the first n sectors of its track over the one it read.
GrubWritten ==
    /\ pc \in {"save", "build"} => disk = prev
    /\ pc = "write" => \A k \in Sectors : disk[k] = IF k < n THEN new[k] ELSE prev[k]

\* So has weesetup, unless the disk has stored a sector wrong; and it rewinds only
\* when the disk has.
WeeWritten ==
    /\ wpc = "write" /\ bad = 0 => \A k \in Sectors : disk[k] = IF k < i THEN Image[k] ELSE read[k]
    /\ wpc = "reread" => i = 0 /\ (bad = 0 => Holds(Image))
    /\ wpc \in {"rewind", "recheck"} => bad > 0
    /\ wpc = "rewind" /\ bad = 1 => \A k \in 0 .. LastSector : k < i => disk[k] = read[k]
    /\ wpc = "recheck" /\ bad = 1 => Holds(read)
    /\ wpc # "idle" /\ bad > 0 => previous = "none"

\* A run that is on its way has reported nothing.
Silent == pc # "idle" \/ wpc # "idle" => last = "none"

\* PreviousKept, in the middle of a run too.
PreviousHeld == previous # "none" => IsSigned(disk[1]) /\ disk[1].code = previous

ProgressInv == GrubWritten /\ WeeWritten /\ Silent /\ Healed /\ PreviousHeld

\* The track of wee lies on the disk, and has a second sector.
LEMMA WeeTrack ==
    ASSUME TrackIInv, wpc # "idle"
    PROVE  /\ LastSector \in Nat /\ LastSector > 0
           /\ \A k \in 0 .. LastSector : k \in Sectors
           /\ {0, 1} \subseteq 0 .. LastSector
           /\ i \in 0 .. LastSector
           /\ bad \in Nat
<1>1. LastSector \in Nat /\ LastSector > 0 /\ LastSector < Tables[table]
  BY ImageStart DEF TrackIInv
<1>2. Tables[table] \in Nat /\ Tables[table] =< DiskSize /\ DiskSize \in Nat
  BY TrackAssumption DEF TrackIInv, DiskOK
<1>3. Sectors = 0 .. DiskSize - 1
  BY DEF TrackIInv, DiskOK, Sectors
<1> QED
  BY <1>1, <1>2, <1>3 DEF TrackIInv, TrackInv, WeeTypeOK

\* The track of grubinst too.
LEMMA GrubTrack ==
    ASSUME TrackIInv, pc # "idle"
    PROVE  /\ Size[cmd.ver] \in Nat /\ Size[cmd.ver] > 1
           /\ \A k \in 0 .. Size[cmd.ver] - 1 : k \in Sectors
           /\ {0, 1} \subseteq Sectors
           /\ n \in Nat /\ (pc = "write" => n \in 0 .. Size[cmd.ver] - 1)
<1>1. cmd \in Runs /\ Size[cmd.ver] =< Tables[table]
  BY DEF TrackIInv, GrubRun
<1>2. Tables[table] \in Nat /\ Tables[table] =< DiskSize /\ DiskSize \in Nat
  BY TrackAssumption DEF TrackIInv, DiskOK
<1>3. Size[cmd.ver] \in Nat /\ Size[cmd.ver] > 1
  BY <1>1, TrackAssumption DEF Runs
<1>4. Sectors = 0 .. DiskSize - 1
  BY DEF TrackIInv, DiskOK, Sectors
<1> QED
  BY <1>1, <1>2, <1>3, <1>4 DEF TrackIInv, TrackInv, GrubTypeOK

\* No run is on its way on a new disk.
LEMMA ProgressInitially == Init => ProgressInv
  BY DEF Init, TrackInit, GrubInit, WeeInit, ProgressInv, GrubWritten, WeeWritten,
         Silent, Healed, PreviousHeld

\* Other programs report nothing, and what they do to the second sector ends the promise.
LEMMA ProgressOthers == TrackIInv /\ ProgressInv /\ Others => ProgressInv'
<1>. SUFFICES ASSUME TrackIInv, ProgressInv, Others PROVE ProgressInv'
  OBVIOUS
<1>1. pc' = "idle" /\ wpc' = "idle" /\ last' = "none"
  BY DEF Others, Quiet, Overwritten, Repartition, InstallManager, gvars
<1>2. PreviousHeld'
  BY DEF Others, Overwritten, ProgressInv, PreviousHeld
<1> QED
  BY <1>1, <1>2 DEF ProgressInv, GrubWritten, WeeWritten, Silent, Healed

\* grubinst writes its track in order.
LEMMA ProgressGrubinst == TrackIInv /\ ProgressInv /\ Grubinst => ProgressInv'
<1>. SUFFICES ASSUME TrackIInv, ProgressInv, Grubinst PROVE ProgressInv'
  OBVIOUS
<1>1. wpc = "idle" /\ wpc' = "idle" /\ GrubStep /\ bad' = bad
  BY DEF Grubinst, Overwritten
<1>2. PreviousHeld'
  BY DEF Grubinst, Overwritten, ProgressInv, PreviousHeld
<1>3. WeeWritten'
  BY <1>1 DEF WeeWritten
<1>4. Silent' /\ Healed' /\ GrubWritten'
  <2>. USE DEF ProgressInv, Silent, Healed, GrubWritten
  <2>1. CASE \E r \in Runs : Start(r)
    BY <1>1, <2>1 DEF Start
  <2>2. CASE SaveFile \/ NothingToSave \/ Refuse
    BY <1>1, <2>2 DEF SaveFile, NothingToSave, Refuse, Leave, ghosts
  <2>3. CASE Build
    <3>1. n' = 0 /\ disk' = disk /\ disk = prev /\ prev' = prev
      BY <2>3 DEF Build
    <3>2. \A k \in Sectors : k \in Int
      BY DEF TrackIInv, DiskOK, Sectors
    <3>3. \A k \in Sectors' : ~(k < 0)
      BY <3>1, TrackAssumption DEF TrackIInv, DiskOK, Sectors
    <3>4. GrubWritten'
      BY <2>3, <3>1, <3>3 DEF Build
    <3>5. Silent' /\ Healed'
      BY <1>1, <2>3 DEF Build, ghosts
    <3> QED
      BY <3>4, <3>5
  <2>4. CASE Write
    <3>1. Sectors' = Sectors /\ n \in Nat /\ \A k \in Sectors : k \in Int
      BY <2>4, GrubTrack DEF Write, TrackIInv, DiskOK, Sectors
    <3>2. GrubWritten'
      BY <2>4, <3>1 DEF Write, Leave, Sectors
    <3>3. Silent' /\ Healed'
      <4>1. pc' # "idle" => last' = last
        BY <2>4 DEF Write, Leave
      <4>2. last' \in {last} \union Modes
        BY <2>4, GrubTrack DEF Write, Leave, TrackIInv, GrubRun, Runs
      <4> QED
        BY <1>1, <2>4, <4>1, <4>2, SaveAssumption DEF Write
    <3> QED
      BY <3>2, <3>3
  <2>5. CASE Interrupt
    BY <1>1, <2>5 DEF Interrupt, Leave
  <2> QED
    BY <1>1, <2>1, <2>2, <2>3, <2>4, <2>5 DEF GrubStep
<1> QED
  BY <1>2, <1>3, <1>4 DEF ProgressInv

\* A sector of the track of wee is stored right, or the disk has stored one more wrong.
LEMMA OneStored ==
    ASSUME TrackIInv, wpc # "idle", NEW k \in 0 .. LastSector, NEW sector, Store(k, sector)
    PROVE  /\ Sectors' = Sectors
           /\ \A s \in Sectors : s # k => disk'[s] = disk[s]
           /\ \/ bad' = bad /\ disk'[k] = sector
              \/ bad' = bad + 1
<1>1. k \in Sectors
  BY WeeTrack
<1> QED
  BY <1>1 DEF Store, Sectors, TrackIInv, DiskOK

\* weesetup writes, reads back and rewinds in order.
LEMMA ProgressWeesetup == TrackIInv /\ ProgressInv /\ Weesetup => ProgressInv'
<1>. SUFFICES ASSUME TrackIInv, ProgressInv, Weesetup PROVE ProgressInv'
  OBVIOUS
<1>1. pc = "idle" /\ pc' = "idle" /\ WeeStep /\ bad \in Nat
  BY DEF Weesetup, gvars, TrackIInv, TrackInv, WeeTypeOK
<1>2. WeeWritten /\ Silent /\ Healed /\ PreviousHeld
  BY DEF ProgressInv
<1>3. GrubWritten'
  BY <1>1 DEF GrubWritten
<1>4. Sectors \subseteq Int /\ 1 \in Sectors /\ 0 \in Sectors
  BY TrackAssumption DEF TrackIInv, DiskOK, Sectors
<1>5. WeeWritten' /\ Silent' /\ Healed' /\ PreviousHeld'
  <2>1. CASE \E w \in WeeRuns : Install(w)
    <3>1. PICK w \in WeeRuns : Install(w)
      BY <2>1
    <3>2. \A k \in Sectors' : ~(k < 0) /\ disk'[k] = read'[k]
      BY <1>4, <3>1 DEF Install, TrackIInv, DiskOK, Sectors
    <3>3. WeeWritten'
      BY <3>1, <3>2 DEF Install, WeeWritten
    <3> QED
      BY <1>1, <1>2, <3>1, <3>3 DEF Install, Silent, Healed, PreviousHeld
  <2>2. CASE WriteWee
    <3>1. /\ wpc = "write" /\ Store(i, Image[i]) /\ Advance("reread")
          /\ previous' = "none" /\ last' = last /\ UNCHANGED <<wcmd, read>>
          /\ LastSector' = LastSector /\ Image' = Image
      BY <2>2 DEF WriteWee, ghosts, LastSector, Image
    <3>2. i \in 0 .. LastSector /\ LastSector \in Nat
      BY <3>1, WeeTrack
    <3>3. \A s \in Sectors : s # i => disk'[s] = disk[s]
      BY <3>1, <3>2, OneStored
    <3>4. bad' = 0 => bad = 0 /\ disk'[i] = Image[i]
      BY <1>1, <3>1, <3>2, OneStored
    <3>5. bad' = 0 => \A k \in Sectors : disk'[k] = IF k < i + 1 THEN Image[k] ELSE read[k]
      BY <1>2, <1>4, <3>1, <3>2, <3>3, <3>4 DEF WeeWritten
    <3>6. Sectors' = Sectors /\ \A k \in 0 .. LastSector : k \in Sectors
      BY <3>1, <3>2, OneStored, WeeTrack
    <3>7. WeeWritten'
      <4>1. CASE i = LastSector
        <5>1. wpc' = "reread" /\ i' = 0
          BY <3>1, <4>1 DEF Advance
        <5>2. bad' = 0 => Holds(Image)'
          BY <3>1, <3>2, <3>5, <3>6, <4>1 DEF Holds
        <5> QED
          BY <3>1, <5>1, <5>2 DEF WeeWritten
      <4>2. CASE i # LastSector
        <5>1. wpc' = "write" /\ i' = i + 1
          BY <3>1, <4>2 DEF Advance
        <5> QED
          BY <3>1, <3>5, <3>6, <5>1 DEF WeeWritten
      <4> QED
        BY <4>1, <4>2
    <3>8. wpc' # "idle"
      BY <3>1 DEF Advance
    <3> QED
      BY <1>2, <3>1, <3>7, <3>8 DEF Silent, Healed, PreviousHeld
  <2>3. CASE SkipSame
    <3>1. /\ wpc = "write" /\ Image[i] = read[i] /\ Advance("reread")
          /\ UNCHANGED <<wcmd, read, disk, last, previous, bad>>
          /\ LastSector' = LastSector /\ Image' = Image /\ Sectors' = Sectors
      BY <2>3 DEF SkipSame, ghosts, LastSector, Image, Sectors
    <3>2. i \in 0 .. LastSector /\ LastSector \in Nat /\ \A k \in 0 .. LastSector : k \in Sectors
      BY <3>1, WeeTrack
    <3>3. bad = 0 => \A k \in Sectors : disk[k] = IF k < i + 1 THEN Image[k] ELSE read[k]
      BY <1>2, <1>4, <3>1, <3>2 DEF WeeWritten
    <3>4. WeeWritten'
      <4>1. CASE i = LastSector
        <5>1. wpc' = "reread" /\ i' = 0
          BY <3>1, <4>1 DEF Advance
        <5>2. bad = 0 => Holds(Image)'
          BY <3>1, <3>2, <3>3, <4>1 DEF Holds
        <5> QED
          BY <1>2, <3>1, <5>1, <5>2 DEF WeeWritten
      <4>2. CASE i # LastSector
        <5>1. wpc' = "write" /\ i' = i + 1
          BY <3>1, <4>2 DEF Advance
        <5> QED
          BY <1>2, <3>1, <3>3, <5>1 DEF WeeWritten
      <4> QED
        BY <4>1, <4>2
    <3> QED
      BY <1>2, <3>1, <3>4 DEF Silent, Healed, PreviousHeld
  <2>4. CASE Reread
    <3>1. /\ wpc = "reread" /\ disk' = disk /\ bad' = bad
      BY <2>4 DEF Reread
    <3>2. CASE Holds(Image)
      <4>1. wpc' = "idle" /\ last' = "wee"
            /\ previous' = IF wcmd.backup THEN read[0].code ELSE "nt6"
        BY <2>4, <3>2 DEF Reread, Quit
      <4>2. disk[1] = IF wcmd.backup THEN read[0] ELSE Mbr("nt6", read[0].table)
        BY <3>1, <3>2, WeeTrack DEF Holds, Image
      <4>3. IsSigned(read[0])
        BY <3>1 DEF TrackIInv, WeeRun
      <4>4. PreviousHeld'
        BY <3>1, <4>1, <4>2, <4>3, Kinds DEF PreviousHeld
      <4> QED
        BY <1>1, <1>2, <4>1, <4>4 DEF WeeWritten, Silent, Healed
    <3>3. CASE ~Holds(Image)
      <4>1. wpc' = "rewind" /\ UNCHANGED <<wcmd, read, i, last, previous>>
        BY <2>4, <3>3 DEF Reread
      <4>2. bad > 0 /\ i = 0
        BY <1>1, <1>2, <3>1, <3>3 DEF WeeWritten
      <4> QED
        BY <1>2, <3>1, <4>1, <4>2 DEF WeeWritten, Silent, Healed, PreviousHeld
    <3> QED
      BY <3>2, <3>3
  <2>5. CASE Rewind
    <3>1. /\ wpc = "rewind" /\ Store(i, read[i]) /\ Advance("recheck")
          /\ UNCHANGED <<wcmd, read, previous, last>> /\ LastSector' = LastSector
      BY <2>5 DEF Rewind, ghosts, LastSector
    <3>2. i \in 0 .. LastSector /\ LastSector \in Nat /\ \A k \in 0 .. LastSector : k \in Sectors
      BY <3>1, WeeTrack
    <3>3. bad > 0 /\ previous = "none"
      BY <1>1, <1>2, <3>1 DEF WeeWritten
    <3>4. bad' > 0 /\ (bad' = 1 => bad = 1 /\ disk'[i] = read[i])
      BY <1>1, <3>1, <3>2, <3>3, OneStored
    <3>5. bad' = 1 => \A k \in 0 .. LastSector : k < i + 1 => disk'[k] = read[k]
      BY <1>2, <3>1, <3>2, <3>4, OneStored DEF WeeWritten
    <3>6. WeeWritten'
      <4>1. CASE i = LastSector
        <5>1. wpc' = "recheck"
          BY <3>1, <4>1 DEF Advance
        <5>2. bad' = 1 => Holds(read)'
          BY <3>1, <3>2, <3>5, <4>1 DEF Holds
        <5> QED
          BY <3>1, <3>3, <3>4, <5>1, <5>2 DEF WeeWritten
      <4>2. CASE i # LastSector
        <5>1. wpc' = "rewind" /\ i' = i + 1
          BY <3>1, <4>2 DEF Advance
        <5> QED
          BY <3>1, <3>3, <3>4, <3>5, <5>1 DEF WeeWritten
      <4> QED
        BY <4>1, <4>2
    <3>7. wpc' # "idle"
      BY <3>1 DEF Advance
    <3> QED
      BY <1>2, <3>1, <3>3, <3>6, <3>7 DEF Silent, Healed, PreviousHeld
  <2>6. CASE Recheck
    <3>1. bad > 0 /\ (bad = 1 => Holds(read))
      BY <1>2, <2>6 DEF WeeWritten, Recheck
    <3>2. wpc' = "idle" /\ bad' = bad /\ UNCHANGED <<disk, previous>>
          /\ last' = IF Holds(read) THEN "rewound" ELSE "failed"
      BY <2>6 DEF Recheck, Quit
    <3> QED
      BY <1>1, <1>2, <3>1, <3>2 DEF WeeWritten, Silent, Healed, PreviousHeld
  <2>7. CASE Exit
    BY <1>1, <1>2, <2>7 DEF Exit, Quit, WeeWritten, Silent, Healed, PreviousHeld
  <2>8. CASE \E force \in BOOLEAN : Restore(force)
    <3>1. /\ disk' = [disk EXCEPT ![0] = Restored] /\ wpc = "idle" /\ wpc' = "idle"
          /\ last' = "restored" /\ previous' = previous
      BY <2>8 DEF Restore, wvars
    <3>2. disk'[1] = disk[1]
      BY <1>4, <3>1 DEF Sectors
    <3> QED
      BY <1>1, <1>2, <3>1, <3>2 DEF WeeWritten, Silent, Healed, PreviousHeld
  <2> QED
    BY <1>1, <2>1, <2>2, <2>3, <2>4, <2>5, <2>6, <2>7, <2>8 DEF WeeStep
<1> QED
  BY <1>3, <1>5 DEF ProgressInv

\* A step that changes nothing.
LEMMA ProgressStutters == ProgressInv /\ UNCHANGED vars => ProgressInv'
<1>. SUFFICES ASSUME ProgressInv, UNCHANGED vars PROVE ProgressInv'
  OBVIOUS
<1>. USE DEF vars, tvars, gvars, wvars, ghosts
<1>1. GrubWritten' /\ Silent' /\ Healed' /\ PreviousHeld'
  BY DEF ProgressInv, GrubWritten, Silent, Healed, PreviousHeld, Sectors
<1>2. LastSector' = LastSector /\ Image' = Image /\ Sectors' = Sectors
  BY DEF Image, LastSector, Sectors
<1>3. Holds(Image)' = Holds(Image) /\ Holds(read)' = Holds(read)
  BY <1>2 DEF Holds
<1>4. WeeWritten'
  BY <1>2, <1>3 DEF ProgressInv, WeeWritten
<1> QED
  BY <1>1, <1>4 DEF ProgressInv

\* How far the runs have come, at every step of every run.
THEOREM ProgressInvariant == Spec => []ProgressInv
<1>1. TrackIInv /\ ProgressInv /\ [Next]_vars => ProgressInv'
  BY ProgressOthers, ProgressGrubinst, ProgressWeesetup, ProgressStutters DEF Next
<1> QED
  BY <1>1, ProgressInitially, TrackInvariant, PTL DEF Spec

\* weesetup gives up only when the disk stored a sector wrong, fails to rewind only
\* when it stored another one wrong (Healed), and while nothing else writes there the
\* second sector holds the boot record it promised (PreviousKept).
THEOREM WeeInvariant == Spec => []WeeInv
<1>1. ProgressInv => WeeInv
  BY DEF ProgressInv, PreviousHeld, WeeInv, PreviousKept
<1> QED
  BY <1>1, ProgressInvariant, PTL

-----------------------------------------------------------------------------
(***************************************************************************)
(* The boot record that GRLDR replaced.                                    *)
(***************************************************************************)

\* The second of two sectors holds the boot record GRLDR in the first one replaced.
Keeps(first, second) ==
    ~cut /\ IsGrldr(first) => IsSigned(second) /\ second.code = manager

\* BackupKept, in the middle of a run too, except between the first two sectors of
\* the first GRLDR on the disk; and what the run has read keeps the record as well.
BackupHeld ==
    /\ pc \in {"idle", "save", "build"} /\ wpc = "idle" => Keeps(disk[0], disk[1])
    /\ pc # "idle" => Keeps(prev[0], prev[1])
    /\ wpc # "idle" => Keeps(read[0], read[1])
    /\ pc = "write" /\ (n # 1 \/ IsGrldr(prev[0])) => Keeps(disk[0], disk[1])
    /\ pc = "write" /\ n > 0 => cut \/ cmd.mode = "install"

\* What an installation writes.
InstallNew ==
    pc = "write" /\ cmd.mode = "install" =>
        IsGrldr(new[0]) /\ (cmd.backup => new[1] = Backup)

BackupIInv == BackupHeld /\ InstallNew

\* There is no GRLDR on a new disk.
LEMMA BackupInitially == Init => BackupIInv
<1>. SUFFICES ASSUME Init PROVE BackupIInv
  OBVIOUS
<1>1. 0 \in 0 .. DiskSize - 1 /\ 0 < Managers[manager] /\ Managers[manager] \in Nat
  BY TrackAssumption DEF Init, TrackInit
<1>2. disk[0] = Mbr(manager, table)
  BY <1>1, TrackStart DEF Init, TrackInit
<1>3. ~IsGrldr(disk[0])
  BY <1>2, Kinds, TrackAssumption DEF IsGrldr, Init, TrackInit
<1> QED
  BY <1>3 DEF Init, GrubInit, WeeInit, BackupIInv, BackupHeld, InstallNew, Keeps

\* Other programs replace GRLDR or leave both sectors.
LEMMA BackupOthers == TrackIInv /\ BackupIInv /\ Others => BackupIInv'
<1>. SUFFICES ASSUME TrackIInv, BackupIInv, Others PROVE BackupIInv'
  OBVIOUS
<1>1. /\ pc = "idle" /\ pc' = "idle" /\ wpc = "idle" /\ wpc' = "idle"
      /\ UNCHANGED <<manager, cut>>
      /\ Keeps(disk[0], disk[1])
  BY DEF Others, Quiet, Overwritten, Repartition, InstallManager, gvars, BackupIInv, BackupHeld
<1>2. 0 \in Sectors /\ 1 \in Sectors /\ Sectors \subseteq Int
  BY TrackAssumption DEF TrackIInv, DiskOK, Sectors
<1>3. Keeps(disk'[0], disk'[1])
  <2>1. ASSUME NEW t \in DOMAIN Tables, Repartition(t) PROVE Keeps(disk'[0], disk'[1])
    <3>1. disk'[0] = Mbr(disk[0].code, t) /\ IsSigned(disk[0])
      BY <1>2, <2>1 DEF Repartition
    <3>2. disk'[1] = disk[1]
      BY <1>2, <2>1, TrackAssumption DEF Repartition
    <3>3. IsGrldr(disk'[0]) => IsGrldr(disk[0])
      BY <3>1, Kinds DEF IsGrldr
    <3> QED
      BY <1>1, <3>2, <3>3 DEF Keeps
  <2>2. ASSUME NEW m \in DOMAIN Managers, InstallManager(m) PROVE Keeps(disk'[0], disk'[1])
    <3>1. Managers[m] \in Nat /\ Managers[m] > 0 /\ m \notin Versions
      BY TrackAssumption
    <3>2. disk'[0] = Mbr(m, disk[0].table)
      BY <1>2, <2>2, <3>1, TrackStart DEF InstallManager
    <3> QED
      BY <3>1, <3>2, Kinds DEF IsGrldr, Keeps
  <2> QED
    BY <2>1, <2>2 DEF Others
<1> QED
  BY <1>1, <1>3 DEF BackupIInv, BackupHeld, InstallNew, Keeps

\* grubinst stores what it replaces before anything can ask for it.
LEMMA BackupGrubinst == TrackIInv /\ ProgressInv /\ BackupIInv /\ Grubinst => BackupIInv'
<1>. SUFFICES ASSUME TrackIInv, ProgressInv, BackupIInv, Grubinst PROVE BackupIInv'
  OBVIOUS
<1>1. wpc = "idle" /\ wpc' = "idle" /\ GrubStep /\ BackupHeld /\ InstallNew
  BY DEF Grubinst, Overwritten, BackupIInv
<1>2. CASE \E r \in Runs : Start(r)
  BY <1>1, <1>2 DEF Start, BackupIInv, BackupHeld, InstallNew, Keeps
<1>3. CASE SaveFile \/ NothingToSave \/ Refuse
  BY <1>1, <1>3 DEF SaveFile, NothingToSave, Refuse, Leave, ghosts, BackupIInv, BackupHeld,
                    InstallNew, Keeps
<1>4. CASE Build
  <2>1. n' = 0 /\ pc = "build" /\ pc' = "write" /\ UNCHANGED <<cmd, prev, disk, cut, manager>>
    BY <1>4 DEF Build, ghosts
  <2>2. BackupHeld'
    BY <1>1, <2>1 DEF BackupHeld, Keeps
  <2>3. ASSUME cmd.mode = "install"
        PROVE  IsGrldr(new'[0]) /\ (cmd.backup => new'[1] = Backup)
    <3>1. new' = Patch(Installed)
      BY <1>4, <2>3 DEF Build
    <3>2. cmd.ver \in Versions /\ 0 \in 0 .. Size[cmd.ver] - 1 /\ 1 \in 0 .. Size[cmd.ver] - 1
      BY <2>1, GrubTrack DEF TrackIInv, GrubRun, Runs
    <3>3. Installed[0] = Mbr(cmd.ver, prev[0].table)
      BY <3>2, Kinds DEF Installed, Track
    <3>4. cmd.backup => Installed[1] = Backup
      BY <3>2 DEF Installed, Track
    <3>5. DOMAIN Installed = 0 .. Size[cmd.ver] - 1
      BY DEF Installed, Track
    <3>6. new'[0] = Mbr(cmd.ver, prev[0].table) /\ new'[1] = Installed[1]
      BY <3>1, <3>2, <3>3, <3>5, Kinds DEF Patch
    <3> QED
      BY <3>2, <3>4, <3>6, Kinds DEF IsGrldr
  <2>4. InstallNew'
    BY <2>1, <2>3 DEF InstallNew, Backup
  <2> QED
    BY <2>2, <2>4 DEF BackupIInv
<1>5. CASE Write
  <2>1. /\ pc = "write" /\ n \in Nat /\ Sectors' = Sectors /\ {0, 1} \subseteq Sectors
        /\ n < Size[cmd.ver] /\ Size[cmd.ver] > 1 /\ Size[cmd.ver] \in Nat
    BY <1>5, GrubTrack DEF Write, Sectors, TrackIInv, DiskOK
  <2>2. disk'[0] = new[0] /\ disk'[1] = IF n > 0 THEN new[1] ELSE prev[1]
    <3>1. \A k \in Sectors : disk[k] = IF k < n THEN new[k] ELSE prev[k]
      BY <2>1 DEF ProgressInv, GrubWritten
    <3>2. \A k \in {0, 1} : disk'[k] = IF k < n + 1 THEN new[k] ELSE prev[k]
      BY <1>5, <2>1, <3>1 DEF Write, Sectors
    <3> QED
      BY <2>1, <3>2
  <2>3. /\ cut' = CASE cmd.mode = "install" -> (cut /\ IsGrldr(prev[0])) \/ ~cmd.backup
                    [] cmd.mode = "prev"    -> TRUE
                    [] cmd.mode = "file"    -> TRUE
        /\ manager' = IF IsGrldr(prev[0]) THEN manager ELSE prev[0].code
        /\ cmd.mode \in {"install", "prev", "file"}
    BY <1>5, <2>1, SaveAssumption DEF Write, TrackIInv, GrubRun, Runs
  <2>4. \/ pc' = "write" /\ n' = n + 1 /\ UNCHANGED <<cmd, prev, new>>
        \/ pc' = "idle" /\ n + 1 = Size[cmd.ver]
    BY <1>5 DEF Write, Leave
  <2>5. CASE cmd.mode # "install"
    <3>1. cut'
      BY <2>3, <2>5
    <3> QED
      BY <1>1, <2>4, <2>5, <3>1 DEF BackupIInv, BackupHeld, InstallNew, Keeps
  <2>6. CASE cmd.mode = "install" /\ IsGrldr(prev[0])
    <3>1. /\ cut' = (cut \/ ~cmd.backup) /\ manager' = manager
          /\ ~cut /\ cmd.backup => new[1] = prev[1] /\ IsSigned(prev[1]) /\ prev[1].code = manager
      BY <1>1, <2>1, <2>3, <2>6 DEF BackupHeld, InstallNew, Backup, Keeps
    <3>2. Keeps(disk[0], disk[1])'
      BY <1>1, <2>1, <2>2, <3>1 DEF Keeps
    <3>3. pc' = "write" => Keeps(prev[0], prev[1])'
      BY <1>1, <2>1, <2>4, <3>1 DEF Keeps, BackupHeld
    <3> QED
      BY <1>1, <2>1, <2>4, <2>6, <3>2, <3>3 DEF BackupIInv, BackupHeld, InstallNew, Backup
  <2>7. CASE cmd.mode = "install" /\ ~IsGrldr(prev[0])
    <3>1. IsSigned(prev[0])
      BY <2>1 DEF TrackIInv, GrubRun
    <3>2. cut' = (~cmd.backup) /\ manager' = prev[0].code /\ (cmd.backup => new[1] = prev[0])
      BY <1>1, <2>1, <2>3, <2>7 DEF InstallNew, Backup
    <3>3. n > 0 => Keeps(disk[0], disk[1])'
      BY <2>2, <3>1, <3>2 DEF Keeps
    <3>4. pc' = "write" => Keeps(prev[0], prev[1])'
      BY <2>4, <2>7, <2>1 DEF Keeps
    <3> QED
      BY <1>1, <2>1, <2>4, <2>7, <3>3, <3>4 DEF BackupIInv, BackupHeld, InstallNew, Backup
  <2> QED
    BY <2>5, <2>6, <2>7
<1>6. CASE Interrupt
  <2>1. /\ UNCHANGED <<disk, manager>> /\ pc' = "idle"
        /\ cut' = (cut \/ (pc = "write" /\ n = 1 /\ IsGrldr(new[0]) /\ ~IsGrldr(prev[0])))
    BY <1>6 DEF Interrupt, Leave
  <2>2. Keeps(disk[0], disk[1])'
    <3>1. CASE pc # "write"
      BY <1>1, <1>6, <2>1, <3>1 DEF Interrupt, BackupHeld, Keeps
    <3>2. CASE pc = "write" /\ (n # 1 \/ IsGrldr(prev[0]))
      BY <1>1, <2>1, <3>2 DEF BackupHeld, Keeps
    <3>3. CASE pc = "write" /\ n = 1 /\ ~IsGrldr(prev[0])
      <4>1. cut \/ IsGrldr(new[0])
        BY <1>1, <3>3 DEF BackupHeld, InstallNew
      <4>2. cut'
        BY <2>1, <3>3, <4>1
      <4> QED
        BY <4>2 DEF Keeps
    <3> QED
      BY <3>1, <3>2, <3>3
  <2> QED
    BY <1>1, <2>1, <2>2 DEF BackupIInv, BackupHeld, InstallNew
<1> QED
  BY <1>1, <1>2, <1>3, <1>4, <1>5, <1>6 DEF GrubStep

\* weesetup replaces GRLDR, or puts both of its sectors back.
LEMMA BackupWeesetup == TrackIInv /\ ProgressInv /\ BackupIInv /\ Weesetup => BackupIInv'
<1>. SUFFICES ASSUME TrackIInv, ProgressInv, BackupIInv, Weesetup PROVE BackupIInv'
  OBVIOUS
<1>1. pc = "idle" /\ pc' = "idle" /\ WeeStep /\ BackupHeld /\ WeeWritten
  BY DEF Weesetup, gvars, BackupIInv, ProgressInv
<1>2. InstallNew'
  BY <1>1 DEF InstallNew
<1>3. wpc # "idle" => ~IsGrldr(Image[0]) /\ {0, 1} \subseteq 0 .. LastSector /\ {0, 1} \subseteq Sectors
                      /\ i \in Nat /\ bad \in Nat
  <2>1. wpc # "idle" => Image[0] = Mbr("wee", table)
    BY ImageStart DEF TrackIInv
  <2> QED
    BY <2>1, WeeTrack, Kinds, WeeSizeAssumption DEF IsGrldr
<1>4. BackupHeld'
  <2>1. CASE \E w \in WeeRuns : Install(w)
    BY <1>1, <2>1 DEF Install, BackupHeld, Keeps
  <2>2. CASE WriteWee \/ SkipSame \/ Rewind
    <3>1. /\ wpc # "idle" /\ wpc' # "idle"
          /\ UNCHANGED <<read, manager, cut>>
      BY <2>2 DEF WriteWee, SkipSame, Rewind, Advance, ghosts
    <3> QED
      BY <1>1, <3>1 DEF BackupHeld, Keeps
  <2>3. CASE Reread
    <3>1. CASE Holds(Image)
      <4>1. wpc = "reread" /\ disk' = disk /\ wpc' = "idle"
        BY <2>3, <3>1 DEF Reread, Quit
      <4>2. ~IsGrldr(disk'[0])
        BY <1>3, <3>1, <4>1 DEF Holds
      <4> QED
        BY <1>1, <4>1, <4>2 DEF BackupHeld, Keeps
    <3>2. CASE ~Holds(Image)
      BY <1>1, <2>3, <3>2 DEF Reread, BackupHeld, Keeps
    <3> QED
      BY <3>1, <3>2
  <2>4. CASE Recheck
    <3>1. wpc = "recheck" /\ wpc' = "idle" /\ UNCHANGED <<disk, manager>>
          /\ cut' = (cut \/ ~Holds(read))
      BY <2>4 DEF Recheck, Quit
    <3>2. CASE Holds(read)
      <4>1. disk'[0] = read[0] /\ disk'[1] = read[1] /\ (~cut' => ~cut) /\ manager' = manager
        BY <1>3, <3>1, <3>2 DEF Holds
      <4>2. Keeps(read[0], read[1])
        BY <1>1, <3>1 DEF BackupHeld
      <4>3. Keeps(disk[0], disk[1])'
        BY <4>1, <4>2 DEF Keeps
      <4> QED
        BY <1>1, <3>1, <4>3 DEF BackupHeld
    <3>3. CASE ~Holds(read)
      BY <1>1, <3>1, <3>3 DEF BackupHeld, Keeps
    <3> QED
      BY <3>2, <3>3
  <2>5. CASE Exit
    <3>1. wpc # "idle" /\ wpc' = "idle" /\ UNCHANGED <<disk, manager>>
          /\ cut' = (cut \/ wpc = "rewind" \/ bad > 0)
      BY <2>5 DEF Exit, Quit
    <3>2. Keeps(disk[0], disk[1])'
      <4>1. CASE wpc = "rewind" \/ bad > 0
        <5>1. cut'
          BY <3>1, <4>1
        <5> QED
          BY <5>1 DEF Keeps
      <4>2. CASE wpc = "write" /\ bad = 0 /\ i = 0
        <5>1. disk[0] = read[0] /\ disk[1] = read[1]
          BY <1>1, <1>3, <4>2 DEF WeeWritten
        <5>2. (~cut' => ~cut) /\ Keeps(read[0], read[1])
          BY <1>1, <3>1, <4>2 DEF BackupHeld
        <5> QED
          BY <3>1, <5>1, <5>2 DEF Keeps
      <4>3. CASE wpc = "write" /\ bad = 0 /\ i > 0
        BY <1>1, <1>3, <3>1, <4>3 DEF WeeWritten, Keeps
      <4>4. CASE wpc = "reread" /\ bad = 0
        BY <1>1, <1>3, <3>1, <4>4 DEF WeeWritten, Holds, Keeps
      <4>5. wpc \in {"write", "reread", "rewind", "recheck"} /\ (wpc = "recheck" => bad > 0)
        BY <1>1, <3>1 DEF TrackIInv, TrackInv, WeeTypeOK, WeeWritten
      <4> QED
        BY <1>3, <3>1, <4>1, <4>2, <4>3, <4>4, <4>5
    <3> QED
      BY <1>1, <3>1, <3>2 DEF BackupHeld
  <2>6. CASE \E force \in BOOLEAN : Restore(force)
    <3>1. cut' /\ wpc' = "idle"
      BY <2>6 DEF Restore, wvars
    <3> QED
      BY <1>1, <3>1 DEF BackupHeld, Keeps
  <2> QED
    BY <1>1, <2>1, <2>2, <2>3, <2>4, <2>5, <2>6 DEF WeeStep
<1> QED
  BY <1>2, <1>4 DEF BackupIInv

\* A step that changes nothing.
LEMMA BackupStutters == BackupIInv /\ UNCHANGED vars => BackupIInv'
  BY DEF BackupIInv, BackupHeld, InstallNew, Keeps, Backup, vars, tvars, gvars, wvars, ghosts

\* The inductive invariant behind BackupKept.
THEOREM BackupInvariant == Spec => []BackupIInv
<1>1. TrackIInv /\ ProgressInv /\ BackupIInv /\ [Next]_vars => BackupIInv'
  BY BackupOthers, BackupGrubinst, BackupWeesetup, BackupStutters DEF Next
<1> QED
  BY <1>1, BackupInitially, TrackInvariant, ProgressInvariant, PTL DEF Spec

\* The boot record that GRLDR replaced is in the second sector whenever no installer
\* runs (BackupKept), after every sequence of runs and interruptions.
THEOREM BackupNeverLost == Spec => []BackupKept
<1>1. BackupIInv => BackupKept
  BY DEF BackupIInv, BackupHeld, Keeps, BackupKept, Quiet
<1> QED
  BY <1>1, BackupInvariant, PTL

-----------------------------------------------------------------------------
(***************************************************************************)
(* The save file.                                                          *)
(***************************************************************************)

\* What sector k of the track is once the file is restored.
Saved(k) == IF k = 0 THEN Mbr(file[1].code, table) ELSE file[k + 1]

\* A restoration writes the file, and when it has ended the track holds the file.
FileHeld ==
    /\ pc = "write" /\ cmd.mode = "file" =>
           file # <<>> /\ \A k \in 0 .. Len(file) - 1 : new[k] = Saved(k)
    /\ last = "file" => \A k \in 0 .. Len(file) - 1 : disk[k] = Saved(k)

\* No file is longer than a track.
LEMMA FileLength ==
    ASSUME TrackIInv, pc # "idle"
    PROVE  /\ Len(file) \in Nat /\ Len(file) =< SaveSize /\ SaveSize \in Nat
           /\ Len(file) < Size[cmd.ver]
           /\ \A v \in Versions : Len(file) < Size[v]
<1>1. Len(file) \in {0, 1, SaveSize} /\ cmd.ver \in Versions
  BY DEF TrackIInv, TrackInv, GrubTypeOK, GrubRun, Runs
<1>2. SaveSize \in Nat /\ 1 =< SaveSize /\ Len(file) \in Nat /\ Len(file) =< SaveSize
  <2>1. \A l : l \in {0, 1, SaveSize} => l \in Nat /\ l =< SaveSize
    BY SaveAssumption
  <2>2. SaveSize \in Nat /\ 1 =< SaveSize
    BY SaveAssumption
  <2> QED
    BY <1>1, <2>1, <2>2
<1>3. \A v \in Versions : Size[v] \in Nat /\ SaveSize < Size[v]
  BY SaveAssumption, TrackAssumption
<1> QED
  BY <1>1, <1>2, <1>3

\* What grubinst builds from the file begins with the file.
LEMMA FileBuilt ==
    ASSUME TrackIInv, Build, cmd.mode = "file", NEW k \in 0 .. Len(file) - 1
    PROVE  new'[k] = Saved(k)
<1>1. /\ new' = Patch(FileTrack) /\ prev[0].table = table /\ pc # "idle"
  BY DEF Build, TrackIInv, GrubRun
<1>2. k \in 0 .. Size[cmd.ver] - 1 /\ k < Len(file) /\ 0 \in 0 .. Size[cmd.ver] - 1
  BY <1>1, FileLength, GrubTrack
<1>3. Expected \in Nat /\ Len(file) =< Expected
  BY <1>1, FileLength, SaveAssumption, TrackAssumption DEF Expected, IsGrldr
<1>4. 0 < Len(file) /\ 0 < Expected
  BY <1>1, <1>2, <1>3, FileLength
<1>5. FileTrack[k] = file[k + 1] /\ FileTrack[0] = file[1]
  BY <1>1, <1>2, <1>3, <1>4, FileLength DEF FileTrack
<1>6. DOMAIN FileTrack = 0 .. Size[cmd.ver] - 1
  BY DEF FileTrack
<1> QED
  BY <1>1, <1>2, <1>5, <1>6 DEF Patch, Saved

\* Every step keeps what was restored, until another run begins.
LEMMA FileStep == TrackIInv /\ ProgressInv /\ FileHeld /\ [Next]_vars => FileHeld'
<1>. SUFFICES ASSUME TrackIInv, ProgressInv, FileHeld, [Next]_vars PROVE FileHeld'
  OBVIOUS
<1>1. CASE Others
  BY <1>1 DEF Others, Quiet, Repartition, InstallManager, gvars, FileHeld
<1>2. CASE Weesetup
  <2>1. pc' = "idle" /\ last' # "file"
    <3>1. CASE wpc = "idle"
      BY <1>2, <3>1 DEF Weesetup, WeeStep, Install, WriteWee, SkipSame, Reread, Rewind,
                         Recheck, Exit, Restore, gvars
    <3>2. CASE wpc # "idle"
      <4>1. last = "none"
        BY <3>2 DEF ProgressInv, Silent
      <4> QED
        BY <1>2, <3>2, <4>1 DEF Weesetup, WeeStep, Install, WriteWee, SkipSame, Reread, Rewind,
                         Recheck, Exit, Restore, gvars, ghosts
    <3> QED
      BY <3>1, <3>2
  <2> QED
    BY <2>1 DEF FileHeld
<1>3. CASE Grubinst
  <2>1. GrubStep
    BY <1>3 DEF Grubinst
  <2>2. pc # "idle" => last = "none"
    BY DEF ProgressInv, Silent
  <2>3. CASE (\E r \in Runs : Start(r)) \/ SaveFile \/ NothingToSave \/ Refuse \/ Interrupt
    <3>1. pc' # "write" /\ last' # "file"
      BY <2>2, <2>3 DEF Start, SaveFile, NothingToSave, Refuse, Interrupt, Leave, ghosts
    <3> QED
      BY <3>1 DEF FileHeld
  <2>4. CASE Build
    <3>1. pc' = "write" /\ last' = "none" /\ UNCHANGED <<cmd, file, table>>
      BY <2>2, <2>4 DEF Build, ghosts
    <3>2. cmd.mode = "file" => file # <<>> /\ \A k \in 0 .. Len(file) - 1 : new'[k] = Saved(k)
      BY <2>4, FileBuilt DEF Build, CanBuild
    <3> QED
      BY <3>1, <3>2 DEF FileHeld, Saved
  <2>5. CASE Write
    <3>1. /\ pc = "write" /\ n \in Nat /\ n < Size[cmd.ver] /\ Sectors' = Sectors
          /\ UNCHANGED <<file, table>>
          /\ \A k \in 0 .. Size[cmd.ver] - 1 : k \in Sectors
      BY <2>5, GrubTrack DEF Write, Sectors, TrackIInv, DiskOK
    <3>2. CASE n + 1 = Size[cmd.ver]
      <4>1. pc' = "idle" /\ last' = cmd.mode
        BY <2>5, <3>2 DEF Write, Leave
      <4>2. ASSUME cmd.mode = "file", NEW k \in 0 .. Len(file) - 1
            PROVE  disk'[k] = Saved(k)
        <5>1. k \in Sectors /\ k < n + 1 /\ k \in Nat
          BY <3>1, <3>2, FileLength
        <5>2. disk'[k] = IF k = n THEN new[n] ELSE disk[k]
          BY <2>5, <5>1 DEF Write, Sectors
        <5>3. disk[k] = IF k < n THEN new[k] ELSE prev[k]
          BY <3>1, <5>1 DEF ProgressInv, GrubWritten
        <5>4. new[k] = Saved(k)
          BY <3>1, <4>2 DEF FileHeld
        <5> QED
          BY <3>1, <5>1, <5>2, <5>3, <5>4
      <4> QED
        BY <3>1, <4>1, <4>2 DEF FileHeld, Saved
    <3>3. CASE n + 1 # Size[cmd.ver]
      <4>1. pc' = "write" /\ UNCHANGED <<cmd, new, last>> /\ last = "none"
        BY <2>2, <2>5, <3>1, <3>3 DEF Write
      <4> QED
        BY <3>1, <4>1 DEF FileHeld, Saved
    <3> QED
      BY <3>2, <3>3
  <2> QED
    BY <2>1, <2>3, <2>4, <2>5 DEF GrubStep
<1>4. CASE UNCHANGED vars
  BY <1>4 DEF FileHeld, Saved, vars, tvars, gvars, ghosts
<1> QED
  BY <1>1, <1>2, <1>3, <1>4 DEF Next

\* After a run that restores a saved file the track holds what the file holds, under
\* the partition table of the disk (FileRestored).
THEOREM FileComesBack == Spec => []FileRestored
<1>1. Init => FileHeld
  BY DEF Init, TrackInit, GrubInit, FileHeld
<1>2. FileHeld => FileRestored
  BY DEF FileHeld, Saved, FileRestored
<1>3. Spec => []FileHeld
  BY <1>1, FileStep, TrackInvariant, ProgressInvariant, PTL DEF Spec
<1> QED
  BY <1>2, <1>3, PTL
=============================================================================
