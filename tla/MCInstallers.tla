----------------------------- MODULE MCInstallers -----------------------------
(***************************************************************************)
(* Instances of Installers for TLC.  The tracks of GRLDR 0.4.5c and 0.4.6a *)
(* are scaled from 18 and 16 sectors, that of wee from 63, and the saved   *)
(* part of another from 4.                                                 *)
(***************************************************************************)
EXTENDS Installers

Tracks == [v45 |-> 4, v46 |-> 3]
WeeTracks == [wee63 |-> 3, grldr |-> 4]
TwoTables == [near |-> 3, far |-> 5]
ShortManagers == [xp |-> 1, grub |-> 3]
=============================================================================
