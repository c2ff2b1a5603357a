-------------------------------- MODULE GrubInst --------------------------------
(***************************************************************************)
(* The runs of grubinst that install, save and restore the boot track of a *)
(* disk (grubutils/grubinst/grubinst.c, install).                          *)
(*                                                                         *)
(* A run reads the track, saves the boot record to a file, builds the new  *)
(* track in memory and writes it sector by sector; a run may end between   *)
(* any two of its steps.                                                   *)
(***************************************************************************)
EXTENDS BootTrack

CONSTANTS SaveSize,    \* sectors saved of another boot record, 4 in the code
          Modes        \* "install", "prev" (--restore-prevmbr), "file" (--restore)

ASSUME SaveAssumption ==
    /\ SaveSize \in Nat \ {0}
    /\ \A v \in Versions : Size[v] > SaveSize
    /\ Modes \subseteq {"install", "prev", "file"}

VARIABLES file,      \* the save file: a sequence of sectors
          cmd,       \* the options of the run
          prev,      \* prev_mbr: the track as the run read it
          new,       \* grub_mbr: the track the run writes
          n,         \* sectors written
          pc         \* "idle", "save", "build", "write"

gvars == <<file, cmd, prev, new, n, pc>>

-----------------------------------------------------------------------------
(***************************************************************************)
(* A run of grubinst.                                                      *)
(***************************************************************************)

NoRun == [mode |-> "none"]
Leave == cmd' = NoRun /\ prev' = <<>> /\ new' = <<>> /\ n' = 0 /\ pc' = "idle"
Runs == [mode : Modes, ver : Versions, save : BOOLEAN, backup : BOOLEAN]

HasRoom(ver) == First(disk) >= Size[ver]

Start(r) ==
    /\ pc = "idle" /\ runs < MaxRuns /\ IsSigned(disk[0]) /\ HasRoom(r.ver)
    /\ cmd' = r /\ prev' = disk
    /\ pc' = IF r.save THEN "save" ELSE "build"
    /\ runs' = runs + 1 /\ last' = "none"
    /\ UNCHANGED <<disk, file, new, n, table, manager, cut>>

\* Of GRLDR the boot record it stored is saved, of any other the whole track.
\* The file is truncated before it is written, and the run may end in between.
ToSave == IF IsGrldr(prev[0]) THEN <<prev[1]>> ELSE [k \in 1 .. SaveSize |-> prev[k - 1]]

SaveFile ==
    /\ pc = "save" /\ IsSigned(ToSave[1])
    /\ \/ file' = ToSave /\ pc' = "build" /\ UNCHANGED <<cmd, prev, new, n>>
       \/ file' = <<>> /\ Leave
    /\ UNCHANGED <<disk, runs, ghosts>>

NothingToSave ==
    /\ pc = "save" /\ ~IsSigned(ToSave[1])
    /\ Leave
    /\ UNCHANGED <<disk, file, runs, ghosts>>

\* Mutated: GRLDR over GRLDR stores the GRLDR it replaces.
Backup_Again == prev[0]

\* What an installation puts in the second sector.
Backup == IF IsGrldr(prev[0]) THEN prev[1] ELSE prev[0]

Installed == [Track(cmd.ver, Size[cmd.ver], prev[0].table)
                  EXCEPT ![1] = IF cmd.backup THEN Backup ELSE Zero]

PrevTrack == [k \in 0 .. Size[cmd.ver] - 1 |-> IF k = 0 THEN prev[1] ELSE Zero]

\* Mutated: GRLDR is taken to have stored one sector.
Expected_Stored == IF IsGrldr(prev[0]) THEN 1 ELSE SaveSize

\* The file is read for as many sectors as a save of what is on the disk now has
\* (sv_res_len); a shorter file is followed by zeros, a longer part of the track
\* keeps the code of GRLDR.
Expected == IF IsGrldr(prev[0]) THEN Size[prev[0].code] ELSE SaveSize
FileTrack ==
    [k \in 0 .. Size[cmd.ver] - 1 |->
        IF k < Expected /\ k < Len(file) THEN file[k + 1]
        ELSE IF Len(file) < Expected THEN Zero
        ELSE Track(cmd.ver, Size[cmd.ver], prev[0].table)[k]]

\* Mutated: the table comes with the boot record.
Patch_OldTable(track) == track

\* The partition table of the disk goes into every new boot record.
Patch(track) == [track EXCEPT ![0] = Mbr(track[0].code, prev[0].table)]

CanBuild == CASE cmd.mode = "install" -> TRUE
              [] cmd.mode = "prev"    -> IsGrldr(prev[0]) /\ IsSigned(prev[1])
              [] cmd.mode = "file"    -> file # <<>> /\ IsSigned(file[1])

Build ==
    /\ pc = "build" /\ CanBuild
    /\ new' = Patch(CASE cmd.mode = "install" -> Installed
                      [] cmd.mode = "prev"    -> PrevTrack
                      [] cmd.mode = "file"    -> FileTrack)
    /\ n' = 0 /\ pc' = "write"
    /\ UNCHANGED <<disk, file, cmd, prev, runs, ghosts>>

Refuse ==
    /\ pc = "build" /\ ~CanBuild
    /\ Leave
    /\ UNCHANGED <<disk, file, runs, ghosts>>

Write ==
    /\ pc = "write"
    /\ disk' = [disk EXCEPT ![n] = new[n]]
    /\ IF n + 1 = Size[cmd.ver] THEN Leave /\ last' = cmd.mode
       ELSE n' = n + 1 /\ UNCHANGED <<cmd, prev, new, pc, last>>
    /\ manager' = IF IsGrldr(prev[0]) THEN manager ELSE prev[0].code
    /\ cut' = CASE cmd.mode = "install" -> (cut /\ IsGrldr(prev[0])) \/ ~cmd.backup
                 [] cmd.mode = "prev"    -> TRUE
                 [] cmd.mode = "file"    -> TRUE
    /\ UNCHANGED <<file, runs, table>>

\* The run ends, or a write fails.  Between the first two sectors of GRLDR the
\* boot record it replaces is on the disk no more.
Interrupt ==
    /\ pc \in {"save", "build", "write"}
    /\ cut' = (cut \/ (pc = "write" /\ n = 1 /\ IsGrldr(new[0]) /\ ~IsGrldr(prev[0])))
    /\ Leave
    /\ UNCHANGED <<disk, file, runs, table, manager, last>>

-----------------------------------------------------------------------------
GrubInit ==
    /\ file = <<>> /\ cmd = NoRun
    /\ prev = <<>> /\ new = <<>>
    /\ n = 0 /\ pc = "idle"

GrubStep ==
    \/ \E r \in Runs : Start(r)
    \/ SaveFile \/ NothingToSave \/ Build \/ Refuse \/ Write \/ Interrupt

-----------------------------------------------------------------------------
(***************************************************************************)
(* Properties, and in Installers.                                          *)
(***************************************************************************)

\* The type invariant.
GrubTypeOK ==
    /\ Len(file) \in {0, 1, SaveSize}
    /\ cmd \in Runs \union {NoRun}
    /\ pc \in {"idle", "save", "build", "write"}
    /\ n \in Nat /\ (pc = "write" => n < Size[cmd.ver])
=============================================================================
