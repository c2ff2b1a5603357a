------------------------------ MODULE MCPartWalks ------------------------------
(***************************************************************************)
(* An instance of PartWalks for TLC.                                       *)
(***************************************************************************)
EXTENDS PartWalks, SampleDisks

\* A GUID partition table with n entries; the protective table is in sector 0.
GptTable == [k \in Slots |-> IF k = 0 THEN [type |-> "gpt", at |-> 1, len |-> 20] ELSE Free]
GptDisks == {[s \in {0, 1} |-> IF s = 0 THEN GptTable
                               ELSE [k \in 1 .. n |-> [first |-> 2 * k, last |-> (2 * k) + 1]]] :
                n \in 0 .. 6} \union
            {[s \in {0} |-> GptTable]}

AllDisks == Straight \union Cyclic \union GptDisks
=============================================================================
