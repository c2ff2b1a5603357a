------------------------------ MODULE MCWeeDisk ------------------------------
(***************************************************************************)
(* Instances of WeeDisk for TLC.  Every byte of every disk has a value of  *)
(* its own, so that a byte read from or written to the wrong place shows.  *)
(***************************************************************************)
EXTENDS WeeDisk

SomeDisks == [m \in Media |-> [a \in 0 .. Bytes - 1 |-> <<m, a>>]]
CONSTANTS hd0, hd1, m1, m2
TwoDrives == [d \in Drives |-> IF d = hd0 THEN m1 ELSE m2]
SomeData == [k \in 0 .. 8 |-> <<"new", k>>]
NoByte == <<"garbage", 0>>
SomeParts == {[start |-> 0, length |-> 0], [start |-> 1, length |-> 1],
              [start |-> 1, length |-> 3]}
=============================================================================
