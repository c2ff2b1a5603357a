------------------------------ MODULE MCFbList ------------------------------
(***************************************************************************)
(* Instances of FbList for TLC.                                            *)
(***************************************************************************)
EXTENDS FbList, TLC

CONSTANTS fa, fb, fc, fd

\* Three of them fill the sectors but for no byte, or but for one.
FourNames == {fa, fb, fc, fd}
Lengths == (fa :> 3) @@ (fb :> 4) @@ (fc :> 4) @@ (fd :> 5)
=============================================================================
