------------------------------ MODULE PartTable ------------------------------
(***************************************************************************)
(* Partition tables as grubutils/common/xdio.c and grubutils/wee/asm.S     *)
(* find them on a disk, and the numbers the partitions have by convention. *)
(*                                                                         *)
(* Sector 0 holds a table of four entries.  An entry of an extended type   *)
(* leads to a sector with another such table: a logical partition, and a   *)
(* link to the next table.  A link counts sectors from the start of the    *)
(* extended partition, a logical partition from the table it is in.        *)
(***************************************************************************)
EXTENDS Integers, SequencesExt

CONSTANTS Disks      \* the disks: sectors with a partition table |-> the table

VARIABLES disk

Slots == 0 .. 3

Free == [type |-> "none", at |-> 0, len |-> 0]
Entries == {Free} \union [type : {"data", "ext", "foreign", "gpt"}, at : Nat, len : Nat]

\* An extended partition or a link to the next table: of the types 5 and 0xF, which
\* both programs know, or of one that only wee does, 0x85 and the hidden 0x15, 0x1F
\* and 0x95.
IsExt(entry) == entry.type \in {"ext", "foreign"}

ExtSlots(table) == {k \in Slots : IsExt(table[k])}
FirstExt(table) == CHOOSE k \in ExtSlots(table) : \A j \in ExtSlots(table) : k =< j

-----------------------------------------------------------------------------
(***************************************************************************)
(* The disks as partition tools leave them.  There is one extended         *)
(* partition at most; a table of its chain has a partition and a link, one *)
(* of them, or none, and the link has a type both programs know.  A GUID   *)
(* partition table is announced in sector 0; its array of entries is       *)
(* disk[1].                                                                *)
(***************************************************************************)

IsChainTable(table) ==
    /\ table \in [Slots -> Entries] /\ table[0].type # "gpt"
    /\ table[1] = Free \/ (IsExt(table[1]) /\ ~IsExt(table[0]))
    /\ table[2] = Free /\ table[3] = Free
    /\ \A k \in Slots : table[k].type # "foreign"

IsMbrDisk(d) ==
    /\ d[0] \in [Slots -> Entries] /\ d[0][0].type # "gpt"
    /\ \A j, k \in ExtSlots(d[0]) : j = k
    /\ \A s \in DOMAIN d \ {0} : IsChainTable(d[s])

IsGptDisk(d) ==
    /\ d[0] \in [Slots -> Entries] /\ d[0][0].type = "gpt" /\ ExtSlots(d[0]) = {}
    /\ DOMAIN d \subseteq {0, 1}
    /\ 1 \in DOMAIN d => d[1] \in Seq([first : Nat, last : Nat])

ASSUME DisksAssumption ==
    \A d \in Disks :
        /\ DOMAIN d \subseteq Nat /\ IsFiniteSet(DOMAIN d) /\ 0 \in DOMAIN d
        /\ IsMbrDisk(d) \/ IsGptDisk(d)

-----------------------------------------------------------------------------
(***************************************************************************)
(* The numbers by convention.                                              *)
(***************************************************************************)

\* A partition in slot k of sector 0 has number k, whatever is in the slots before it.
Primaries == {[num |-> k, start |-> disk[0][k].at] :
                       k \in {j \in Slots : disk[0][j].type # "none"}}

\* The table after the one in sector s of the extended partition at first.
NextTable(first, s) ==
    IF s \in DOMAIN disk /\ ExtSlots(disk[s]) # {}
    THEN <<first + disk[s][FirstExt(disk[s])].at>> ELSE <<>>

\* The first n sectors of the chain that starts at sector first.
Chain(first, n) ==
    LET c[k \in 1 .. n] == IF k = 1 THEN <<first>>
                           ELSE c[k - 1] \o NextTable(first, Last(c[k - 1]))
    IN  c[n]

\* The sectors of the chain.  The last one may have no table.
ExtStart == disk[0][FirstExt(disk[0])].at
Path == IF ExtSlots(disk[0]) = {} THEN <<>> ELSE Chain(ExtStart, Cardinality(DOMAIN disk))

\* A chain that comes back to a table it was at before: no table of it is the last.
IsCyclic ==
    /\ ExtSlots(disk[0]) # {}
    /\ \E tables \in SUBSET (DOMAIN disk \ {0}) :
          /\ ExtStart \in tables
          /\ \A s \in tables : ToSet(NextTable(ExtStart, s)) \cap tables # {}

UpTo(S, k) == Cardinality({j \in S : j =< k})

\* Logical partitions have the numbers from 4 on, in the order of the chain.
LogicalAt == {i \in DOMAIN Path : Path[i] \in DOMAIN disk /\ disk[Path[i]][0].type = "data"}
Logicals == {[num |-> 3 + UpTo(LogicalAt, i), start |-> Path[i] + disk[Path[i]][0].at] :
                       i \in LogicalAt}

Numbered == Primaries \union Logicals
=============================================================================
