-------------------------------- MODULE WeeSetup --------------------------------
(***************************************************************************)
(* The runs of weesetup that install wee and take it away again            *)
(* (grubutils/weesetup/weesetup.c).                                        *)
(*                                                                         *)
(* A run reads the track, writes the sectors of wee that differ from it,   *)
(* reads everything back and, when that is not what it wrote, writes the   *)
(* old track again.  It may end between any two sectors.  The disk may     *)
(* take a sector without an error and store something else, which is what  *)
(* the reading back is for.                                                *)
(***************************************************************************)
EXTENDS BootTrack

CONSTANTS WeeSize,     \* what is installed |-> its sectors: 63, and more with --grldr
          MaxFaults    \* sectors stored wrong

ASSUME WeeSizeAssumption ==
    /\ \A k \in DOMAIN WeeSize : WeeSize[k] \in Nat /\ WeeSize[k] > 1
    /\ {"wee", "nt6", "none"} \cap Versions = {}
    /\ MaxFaults \in Nat

VARIABLES wcmd,      \* the options of the run
          read,      \* read_data
          i,         \* the next sector
          wpc,       \* "idle", "write", "reread", "rewind", "recheck"
          \* History: the boot record the second sector stands for, or "none"; sectors
          \* this run stored wrong, and all such sectors.
          previous, bad, faults

wvars == <<wcmd, read, i, wpc, previous, bad, faults>>

-----------------------------------------------------------------------------
Junk == [kind |-> "junk"]
NoWee == [install |-> "none", update |-> FALSE, backup |-> FALSE]
WeeRuns == [install : DOMAIN WeeSize, update : BOOLEAN, backup : BOOLEAN]

Quit == wcmd' = NoWee /\ read' = <<>> /\ i' = 0 /\ wpc' = "idle"

IsWee(sector) == IsSigned(sector) /\ sector.code = "wee"
LastSector == WeeSize[wcmd.install] - 1

\* The second sector of wee is nt6mbr, with the partition table, or the old boot
\* record.
Image ==
    [k \in 0 .. LastSector |->
        CASE k = 0 -> Mbr("wee", read[0].table)
          [] k = 1 -> IF wcmd.backup THEN read[0] ELSE Mbr("nt6", read[0].table)
          [] OTHER -> Code(wcmd.install, k)]

-----------------------------------------------------------------------------
(***************************************************************************)
(* Installation.                                                           *)
(***************************************************************************)

CanInstall(w) ==
    /\ IsSigned(disk[0]) /\ (IsWee(disk[0]) => w.update)
    /\ First(disk) >= WeeSize[w.install]

Install(w) ==
    /\ wpc = "idle" /\ runs < MaxRuns /\ CanInstall(w)
    /\ wcmd' = w /\ read' = disk
    /\ i' = 0 /\ wpc' = "write" /\ bad' = 0
    /\ runs' = runs + 1 /\ last' = "none"
    /\ UNCHANGED <<disk, table, manager, cut, previous, faults>>

\* The disk takes a sector, or stores something else: nothing, or what nobody wrote.
Store(k, sector) ==
    \/ disk' = [disk EXCEPT ![k] = sector] /\ UNCHANGED <<bad, faults>>
    \/ /\ faults < MaxFaults
       /\ disk' \in {disk, [disk EXCEPT ![k] = Junk]} /\ disk'[k] # sector
       /\ bad' = bad + 1 /\ faults' = faults + 1

Advance(next) ==
    IF i = LastSector THEN i' = 0 /\ wpc' = next ELSE i' = i + 1 /\ wpc' = wpc

WriteWee ==
    /\ wpc = "write" /\ Image[i] # read[i]
    /\ Store(i, Image[i])
    /\ Advance("reread")
    /\ previous' = "none"
    /\ UNCHANGED <<wcmd, read, runs, ghosts>>

\* A sector that is as it should be is not written.
SkipSame ==
    /\ wpc = "write" /\ Image[i] = read[i]
    /\ Advance("reread")
    /\ UNCHANGED <<wcmd, read, disk, runs, ghosts, previous, bad, faults>>

Holds(track) == \A k \in 0 .. LastSector : disk[k] = track[k]

\* What was read back is compared with what was written.
Reread ==
    /\ wpc = "reread"
    /\ IF Holds(Image)
       THEN /\ Quit /\ last' = "wee"
            /\ previous' = IF wcmd.backup THEN read[0].code ELSE "nt6"
       ELSE wpc' = "rewind" /\ UNCHANGED <<wcmd, read, i, last, previous>>
    /\ UNCHANGED <<disk, runs, table, manager, cut, bad, faults>>

\* Mutated: rewinds up to the sector that was read back wrong.
Rewind_ToFirst ==
    /\ wpc = "rewind"
    /\ Store(i, read[i])
    /\ IF disk[i] # Image[i] THEN i' = 0 /\ wpc' = "recheck" ELSE Advance("recheck")
    /\ UNCHANGED <<wcmd, read, runs, ghosts, previous>>

\* The old track is written whole.
Rewind ==
    /\ wpc = "rewind"
    /\ Store(i, read[i])
    /\ Advance("recheck")
    /\ UNCHANGED <<wcmd, read, runs, ghosts, previous>>

\* "success." or "fail!"
Recheck ==
    /\ wpc = "recheck"
    /\ Quit
    /\ last' = IF Holds(read) THEN "rewound" ELSE "failed"
    /\ cut' = (cut \/ ~Holds(read))
    /\ UNCHANGED <<disk, runs, table, manager, previous, bad, faults>>

\* The run ends, or a sector is refused: the program exits without rewinding.
Exit ==
    /\ wpc # "idle"
    /\ Quit
    /\ cut' = (cut \/ wpc = "rewind" \/ bad > 0)
    /\ UNCHANGED <<disk, runs, table, manager, last, previous, bad, faults>>

-----------------------------------------------------------------------------
(***************************************************************************)
(* --restorembr.                                                           *)
(***************************************************************************)

\* The code of a sector that is written into a boot record.
CodeOf(sector) == IF IsSigned(sector) THEN sector.code ELSE "none"

TablesAgree == IsSigned(disk[1]) /\ disk[1].table = disk[0].table

\* "partition tables differ, using primary"
Restored == Mbr(CodeOf(disk[1]), disk[0].table)

Restore(force) ==
    /\ wpc = "idle" /\ runs < MaxRuns /\ IsWee(disk[0])
    /\ TablesAgree \/ force
    /\ disk' = [disk EXCEPT ![0] = Restored]
    /\ runs' = runs + 1 /\ last' = "restored"
    /\ cut' = TRUE
    /\ UNCHANGED <<table, manager, wvars>>

-----------------------------------------------------------------------------
WeeInit ==
    /\ wcmd = NoWee /\ read = <<>> /\ i = 0 /\ wpc = "idle"
    /\ previous = "none" /\ bad = 0 /\ faults = 0

WeeStep ==
    \/ \E w \in WeeRuns : Install(w)
    \/ WriteWee \/ SkipSame \/ Reread \/ Rewind \/ Recheck \/ Exit
    \/ \E force \in BOOLEAN : Restore(force)

-----------------------------------------------------------------------------
(***************************************************************************)
(* Properties.                                                             *)
(***************************************************************************)

\* The type invariant.
WeeTypeOK ==
    /\ wcmd \in WeeRuns \union {NoWee}
    /\ wpc \in {"idle", "write", "reread", "rewind", "recheck"}
    /\ i \in Nat /\ (wpc # "idle" => i =< LastSector)
    /\ bad \in Nat /\ faults \in Nat /\ bad =< faults /\ faults =< MaxFaults

\* A run gives wee up only when the disk stored a sector wrong, and fails to put the
\* old track back only when it stored another one wrong while it was rewinding.
Healed ==
    /\ last = "rewound" => bad > 0
    /\ last = "failed" => bad > 1
=============================================================================
