-------------------------------- MODULE BootTrack --------------------------------
(***************************************************************************)
(* The boot track of a disk: the boot record with the partition table, the *)
(* code behind it, and the partitions.  Installers share it; between their *)
(* runs other programs partition the disk and install boot managers.       *)
(***************************************************************************)
EXTENDS Integers, Sequences

CONSTANTS Size,        \* version of GRLDR |-> sectors of its track (mbr_size)
          Tables,      \* partition tables: the sector of the first partition, by name
          Managers,    \* boot managers: how many sectors each has
          DiskSize,    \* sectors of the disk
          MaxRuns      \* runs and changes by other programs

Versions == DOMAIN Size

ASSUME TrackAssumption ==
    /\ \A v \in Versions : Size[v] \in Nat /\ Size[v] > 1
    /\ \A t \in DOMAIN Tables : Tables[t] \in 2 .. DiskSize
    /\ \A m \in DOMAIN Managers : Managers[m] \in Nat \ {0}
    /\ DOMAIN Managers \cap Versions = {}
    /\ DiskSize \in Nat /\ MaxRuns \in Nat

VARIABLES disk,      \* sectors
          runs,
          \* What the properties speak of: the partition table the disk should have,
          \* the boot record GRLDR replaced last and whether a backup of it was not
          \* asked for or was cut off, and how the last run ended if it did.
          table, manager, cut, last

ghosts == <<table, manager, cut, last>>
tvars == <<disk, runs, ghosts>>

Zero == [kind |-> "zero"]
Mbr(code, t) == [kind |-> "mbr", code |-> code, table |-> t]
Code(owner, k) == [kind |-> "code", owner |-> owner, k |-> k]
Data(s) == [kind |-> "data", at |-> s]

Sectors == DOMAIN disk
First(d) == Tables[d[0].table]
IsSigned(sector) == sector.kind = "mbr"
IsGrldr(sector) == IsSigned(sector) /\ sector.code \in Versions

\* The track of a boot manager or of GRLDR; the second sector of GRLDR is spare.
Track(owner, size, t) ==
    [k \in 0 .. size - 1 |-> IF k = 0 THEN Mbr(owner, t)
                             ELSE IF k = 1 /\ owner \in Versions THEN Zero ELSE Code(owner, k)]

-----------------------------------------------------------------------------
Repartition(t) ==
    /\ runs < MaxRuns /\ IsSigned(disk[0]) /\ t # disk[0].table
    /\ disk' = [s \in Sectors |-> IF s = 0 THEN Mbr(disk[0].code, t)
                                  ELSE IF s >= Tables[t] THEN Data(s) ELSE disk[s]]
    /\ runs' = runs + 1
    /\ table' = t /\ last' = "none"
    /\ UNCHANGED <<manager, cut>>

InstallManager(m) ==
    /\ runs < MaxRuns /\ IsSigned(disk[0]) /\ Managers[m] =< First(disk)
    /\ disk' = [s \in Sectors |-> IF s < Managers[m]
                                  THEN Track(m, Managers[m], disk[0].table)[s] ELSE disk[s]]
    /\ last' = "none" /\ runs' = runs + 1
    /\ UNCHANGED <<table, manager, cut>>

TrackInit ==
    /\ table \in DOMAIN Tables /\ manager \in DOMAIN Managers
    /\ Managers[manager] =< Tables[table]
    /\ cut = FALSE /\ last = "none" /\ runs = 0
    /\ disk = [s \in 0 .. DiskSize - 1 |->
                  IF s < Managers[manager] THEN Track(manager, Managers[manager], table)[s]
                  ELSE IF s >= Tables[table] THEN Data(s) ELSE Zero]

-----------------------------------------------------------------------------
(***************************************************************************)
(* Properties.                                                             *)
(***************************************************************************)

\* Whatever is installed or restored, from a file or a sector of another day too,
\* the disk keeps its partition table, at every step of a run that may end there,
\* unless the disk itself stored something else.
TableKept == IsSigned(disk[0]) => disk[0].table = table

\* No installer writes into the first partition.
PartitionsSafe == \A s \in Sectors : s >= Tables[table] => disk[s] = Data(s)
=============================================================================
