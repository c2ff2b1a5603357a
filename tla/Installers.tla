------------------------------- MODULE Installers -------------------------------
(***************************************************************************)
(* The boot track under all who write it: grubinst, weesetup, partition    *)
(* tools and the installers of boot managers, one after the other.  Each   *)
(* reads what the others left there.                                       *)
(***************************************************************************)
EXTENDS GrubInst, WeeSetup

vars == <<tvars, gvars, wvars>>

Init == TrackInit /\ GrubInit /\ WeeInit

\* One runs at a time; the second sector stands for nothing any more when one that
\* knows nothing of wee has written it.
Quiet == pc = "idle" /\ wpc = "idle"
Overwritten ==
    /\ previous' = IF disk'[1] # disk[1] THEN "none" ELSE previous
    /\ UNCHANGED <<wcmd, read, i, wpc, bad, faults>>

Others ==
    /\ Quiet
    /\ \/ \E t \in DOMAIN Tables : Repartition(t)
       \/ \E m \in DOMAIN Managers : InstallManager(m)
    /\ Overwritten
    /\ UNCHANGED gvars

Grubinst == wpc = "idle" /\ GrubStep /\ Overwritten
Weesetup == pc = "idle" /\ WeeStep /\ UNCHANGED gvars

Next == Others \/ Grubinst \/ Weesetup

Spec == Init /\ [][Next]_vars

-----------------------------------------------------------------------------
(***************************************************************************)
(* Properties.                                                             *)
(***************************************************************************)

\* The invariant of the track: the types, the partition table, and the partitions.
TrackInv == GrubTypeOK /\ WeeTypeOK /\ TableKept /\ PartitionsSafe

\* The boot record that GRLDR replaced is in the second sector, whatever was
\* installed over what and wherever a run ended, unless no backup was asked
\* for or the run ended between the first two sectors.
BackupKept ==
    Quiet /\ ~cut /\ IsGrldr(disk[0]) => IsSigned(disk[1]) /\ disk[1].code = manager

\* After a run that restores it, the track holds what the file holds, over GRLDR
\* of either version, over wee and over another boot manager.
FileRestored ==
    Quiet /\ last = "file" =>
        \A k \in 0 .. Len(file) - 1 :
            disk[k] = IF k = 0 THEN Mbr(file[1].code, table) ELSE file[k + 1]

\* Once weesetup has ended well the second sector holds the boot record it promised,
\* the one that was there or nt6mbr, until it is written again.
PreviousKept == Quiet /\ previous # "none" => IsSigned(disk[1]) /\ disk[1].code = previous

\* The invariant of weesetup: what its runs report, and what they leave to go back to.
WeeInv == Healed /\ PreviousKept
=============================================================================
