------------------------------- MODULE MCWeeFind -------------------------------
(***************************************************************************)
(* An instance of WeeFind for TLC: two hard disks and a floppy.            *)
(***************************************************************************)
EXTENDS WeeFind, TLC

TwoHard == <<"hd0", "hd1">>
OneFloppy == <<"fd0">>

Part(num, at, active) == [num |-> num, type |-> "data", active |-> active, at |-> at]
Extended(num) == [num |-> num, type |-> "ext", active |-> FALSE, at |-> 8]

\* A disk with an active and a logical partition, and one without a table.
Parted(files) == [entries |-> <<Part(0, 1, TRUE), Extended(1), Part(4, 9, FALSE)>>,
                  fs |-> {1, 9}, files |-> files]
Plain(files) == [entries |-> <<>>, fs |-> {0}, files |-> files]
Unformatted == [entries |-> <<Part(1, 5, FALSE)>>, fs |-> {}, files |-> {}]

\* A file system on the whole drive and a partition beside it.
Hybrid == [entries |-> <<Part(0, 1, FALSE)>>, fs |-> {0, 1}, files |-> {0}]

SomeMedia == "hd0" :> {Parted({9}), Hybrid} @@
             "hd1" :> {Parted({1}), Unformatted} @@
             "fd0" :> {Plain({0})}

SomeCommands == {[kind |-> "yes"], [kind |-> "no"],
                 [kind |-> "root", drive |-> "hd1", num |-> 0], [kind |-> "hook"]}

\* The hard disks exchanged, and the floppy shown as the first hard disk.
SomeMaps == {[d \in Drives |-> CASE d = "hd0" -> "hd1" [] d = "hd1" -> "hd0" [] OTHER -> d],
             [d \in Drives |-> IF d = "hd0" THEN "fd0" ELSE d]}
=============================================================================
