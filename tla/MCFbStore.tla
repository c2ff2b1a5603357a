----------------------------- MODULE MCFbStore ------------------------------
(***************************************************************************)
(* Instances of FbStore for TLC: the sets of names, inputs and archives of *)
(* the .cfg files, which fix the geometry.                                 *)
(***************************************************************************)
EXTENDS FbStore

CONSTANTS fa, fb, fc,   \* file names
          dx, dy        \* input files

TwoNames == {fa, fb}
ThreeNames == {fa, fb, fc}

\* The names are interchangeable where no archive mentions them.
NameSymmetry == Permutations(Names)

Input(id, size) == [i \in 1 .. size |-> <<id, i>>]

AllBytes == {dx, dy} \X (1 .. 8)
OneSize == [n \in Names |-> 2]

\* Any two of three items fit in a list of 7 bytes with a terminator; without
\* it, all three would.
MixedSizes == [n \in Names |-> IF n = fc THEN 3 ELSE 2]

\* Inputs and sizes below, at and above a buffer of GlobBuf = 2 sectors of
\* 1 (primary) or 2 (extended) bytes.
SmallInputs == {Input(dx, 3), Input(dy, 1)}
SmallSizes == {1, 4}

\* With blocks of 2 and 3 bytes: dx has the three extended sectors a syslinux
\* file needs, dy ends inside a sector.
PatchInputs == {Input(dx, 7), Input(dy, 3)}
PatchSizes == {10}

NoArchives == {}

Entry(name, data, ext, sys) == [name |-> name, data |-> data, ext |-> ext, sys |-> sys]

\* A syslinux file and a primary file; a list in which one file follows another.
SomeArchives ==
    { <<Entry(fa, Input(dx, 7), TRUE, TRUE), Entry(fb, Input(dy, 3), FALSE, FALSE)>>,
      <<Entry(fb, Input(dx, 2), TRUE, FALSE), Entry(fa, Input(dy, 1), FALSE, FALSE)>> }
=============================================================================
