------------------------------- MODULE MCFbBoot -------------------------------
(***************************************************************************)
(* Instances of FbBoot for TLC: partition tables with one partition, with  *)
(* two, and with two that are not in the order of the disk; BIOSes that    *)
(* read by number or not, with tracks of two and three sectors, and with   *)
(* one head; words of other programs that are a right number, a wrong one, *)
(* and such that no geometry comes of them.                                *)
(***************************************************************************)
EXTENDS FbBoot

SomeTables == {<<8>>, <<5, 9>>, <<9, 8>>}
TwoVersions == {"v1", "v2"}

Bios(lba, s, h, most) == [lba |-> lba, spt |-> s, heads |-> h, most |-> most]
SomeBioses ==
    {Bios(TRUE, 2, 2, 4), Bios(TRUE, 3, 2, 1), Bios(FALSE, 2, 2, 3), Bios(FALSE, 3, 2, 2),
     Bios(FALSE, 2, 1, 2)}
SomeFiles == {[at |-> 7, size |-> 1], [at |-> 10, size |-> 11]}
SomeWords == {0, 3, 5, 40}
=============================================================================
