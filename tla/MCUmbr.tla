-------------------------------- MODULE MCUmbr --------------------------------
(***************************************************************************)
(* An instance of Umbr for TLC.  Bounds of 127 sectors are scaled to 2 and *)
(* the largest file from 1024 to 5.                                        *)
(***************************************************************************)
EXTENDS Umbr

\* Sectors with and without bits in common; a sector that adds nothing.
SomeDisks == {<< {1}, {2}, {1}, {1, 2}, {2}, {1}, {2} >>,
              << {2}, {1}, {}, {2}, {1, 2}, {1}, {} >>}

File(secs, whole) == [secs |-> secs, whole |-> whole]
Long == File(<<2, 3, 4, 5, 6>>, TRUE)
Three == File(<<3, 4, 5>>, TRUE)
Short == File(<<5>>, TRUE)
Partial == File(<<2, 3>>, FALSE)
Holed == File(<<4, 6>>, TRUE)
Backwards == File(<<4, 3>>, TRUE)

SomeArguments == {<<Long>>, <<Partial, Three>>, <<Holed, Short>>, <<Backwards, Three, Short>>,
                  <<Three, Short, Long>>}
=============================================================================
