------------------------------ MODULE SampleDisks ------------------------------
(***************************************************************************)
(* Disks for the models of XdEnum and WeeParts.  Sector 0 has partitions   *)
(* and at most one extended partition; the chain has up to three tables,   *)
(* with and without a partition, linked in any order.                      *)
(***************************************************************************)
EXTENDS PartTable

Data(at) == [type |-> "data", at |-> at, len |-> 1]
Link(at) == [type |-> "ext", at |-> at, len |-> 6]
Foreign(at) == [type |-> "foreign", at |-> at, len |-> 6]

\* Sector 0: partitions in order and out of order, gaps before and between them,
\* the extended partition in each slot and in none, or of a type only wee knows; a
\* table that overlaps itself.
FirstTables ==
    {[k \in Slots |-> <<a, b, c, d>>[k + 1]] : <<a, b, c, d>> \in
        { <<Data(2), Link(8), Free, Free>>,    <<Link(8), Data(3), Data(2), Free>>,
          <<Free, Data(3), Free, Link(8)>>,    <<Data(5), Data(2), Link(8), Data(3)>>,
          <<Free, Free, Free, Link(8)>>,       <<Data(4), Free, Data(2), Free>>,
          <<Data(2), Data(2), Link(8), Free>>,
          <<Data(2), Foreign(8), Data(3), Free>> }}

\* A table of the chain: a partition or none, and a link to one of the places,
\* in the second entry or, without a partition, in the first.
Table2(a, b) == [k \in Slots |-> CASE k = 0 -> a [] k = 1 -> b [] OTHER -> Free]
ChainTables(places) ==
    {Table2(a, Free) : a \in {Free, Data(1)} \union {Link(p) : p \in places}} \union
    {Table2(a, Link(p)) : a \in {Free, Data(1)}, p \in places}

\* The tables of the chain are in the sectors 8, 10 and 12.
DisksWith(as, bs, cs) ==
    {[s \in {0, 8, 10, 12} |->
        CASE s = 0 -> t [] s = 8 -> a [] s = 10 -> b [] s = 12 -> c] :
        t \in FirstTables, a \in as, b \in bs, c \in cs}

\* 8 leads to 10 and 10 to 12, or 8 to 12 and 12 to 10; either may stop early or
\* lead to a sector without a table.
Straight == DisksWith(ChainTables({2}), ChainTables({4}), ChainTables({6})) \union
            DisksWith(ChainTables({4}), ChainTables({6}), ChainTables({2}))

\* The table in sector 12 leads back, to itself or to one before it.
Cyclic == DisksWith(ChainTables({2}), ChainTables({4}), ChainTables({0, 2, 4}))
=============================================================================
