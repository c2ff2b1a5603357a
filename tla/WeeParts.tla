------------------------------- MODULE WeeParts -------------------------------
(***************************************************************************)
(* The list of partitions of a drive in grubutils/wee (list_partitions,    *)
(* asm.S).                                                                 *)
(*                                                                         *)
(* The list starts with one entry for the whole drive.  The table in the   *)
(* first sector of the drive, and then the one in the first sector of each *)
(* extended entry of the list, is appended to it; a step here reads one    *)
(* table or copies one entry.  The number of an entry has two bytes: lo    *)
(* counts partitions, hi the links behind the last one.                    *)
(***************************************************************************)
EXTENDS PartTable

CONSTANTS Capacity,  \* entries PART_TABLE_BUF has room for, 254 in the code
          MaxNum     \* the last number before incb overflows, 127 in the code

\* The entries of a GUID partition table, 128, have numbers and room in the list.
ASSUME BoundsAssumption ==
    /\ Capacity \in 2 .. 256 /\ MaxNum \in 5 .. 127
    /\ \A d \in Disks : IsGptDisk(d) /\ 1 \in DOMAIN d =>
          Len(d[1]) =< MaxNum + 1 /\ Len(d[1]) < Capacity

VARIABLES list,      \* PART_TABLE_BUF
          at,        \* the entry whose table is read or copied
          partnum,       \* current_partnum
          slot,      \* the entry of the table that is copied next
          lpc         \* "read", "copy", "gpt", "next", "done"

lvars == <<list, at, partnum, slot, lpc>>

DriveEntry == [lo |-> 255, hi |-> 0, type |-> "data", start |-> 0, len |-> 0, base |-> 0]

Where(entry) == entry.base + entry.start
Sector == Where(list[at])
ListTable == disk[Sector]

Done == lpc' = "done" /\ UNCHANGED <<disk, list, at, partnum, slot>>

-----------------------------------------------------------------------------
(***************************************************************************)
(* Reading a table.                                                        *)
(***************************************************************************)

\* Boot indicator, CHS and LBA fields; at = 0 or len = 0 stands for all of them.
IsValid(table) ==
    /\ \A k \in Slots : table[k] # Free => table[k].at # 0 /\ table[k].len # 0
    /\ \E k \in Slots : table[k] # Free

IsGpt(table) == table[0].type = "gpt"

\* An unreadable or invalid table ends the whole list.
EndAtBadTable ==
    /\ lpc = "read"
    /\ Sector \in DOMAIN disk => ~IsGpt(ListTable) /\ ~IsValid(ListTable)
    /\ Done

ReadTable ==
    /\ lpc = "read" /\ Sector \in DOMAIN disk
    /\ IsGpt(ListTable) \/ IsValid(ListTable)
    /\ lpc' = IF IsGpt(ListTable) THEN "gpt" ELSE "copy"
    /\ slot' = 0
    /\ UNCHANGED <<disk, list, at, partnum>>

-----------------------------------------------------------------------------
(***************************************************************************)
(* Copying the entries of a table.                                         *)
(***************************************************************************)

AfterEntry(full) == IF full THEN "done" ELSE IF slot = 3 THEN "next" ELSE "copy"

Append1(entry, n, base) ==
    /\ list' = Append(list, [lo |-> n.lo, hi |-> n.hi, type |-> entry.type,
                             start |-> entry.at, len |-> entry.len, base |-> base])
    /\ partnum' = n
    /\ slot' = slot + 1
    /\ lpc' = AfterEntry(Len(list) + 1 >= Capacity)
    /\ UNCHANGED <<disk, at>>

\* A link is an extended entry of a table behind the first one.
IsLink(entry) == IsExt(entry) /\ Sector # 0

\* Partitions, and the extended partition of the first table.
CopyPartition ==
    /\ lpc = "copy" /\ ListTable[slot] # Free /\ ~IsLink(ListTable[slot])
    /\ partnum.lo # MaxNum
    /\ Append1(ListTable[slot], [lo |-> (partnum.lo + 1) % 256, hi |-> 0], Sector)

EndAtMaxNum ==
    /\ lpc = "copy" /\ ListTable[slot] # Free /\ ~IsLink(ListTable[slot])
    /\ partnum.lo = MaxNum
    /\ Done

\* Mutated: counts from the table it is in.
LinkBase_FromHere == Sector

\* A link counts from the start of the extended partition.
LinkBase == IF list[at].base = 0 THEN Sector ELSE list[at].base

CopyLink ==
    /\ lpc = "copy" /\ IsLink(ListTable[slot])
    /\ Append1(ListTable[slot], [partnum EXCEPT !.hi = partnum.hi + 1], LinkBase)

\* Mutated: a free entry is never counted.
SkipFree_Uncounted ==
    /\ lpc = "copy" /\ ListTable[slot] = Free
    /\ partnum' = partnum
    /\ slot' = slot + 1
    /\ lpc' = AfterEntry(FALSE)
    /\ UNCHANGED <<disk, list, at>>

\* Mutated: ESI stays at the free entry.
SkipFree_Stay ==
    /\ lpc = "copy" /\ ListTable[slot] = Free
    /\ partnum' = IF partnum.lo > 3 THEN partnum ELSE [partnum EXCEPT !.lo = partnum.lo + 1]
    /\ UNCHANGED <<disk, list, at, slot, lpc>>

\* A free entry is counted while lo, an unsigned byte that starts at 255, is
\* not above 3.
SkipFree ==
    /\ lpc = "copy" /\ ListTable[slot] = Free
    /\ partnum' = IF partnum.lo > 3 THEN partnum ELSE [partnum EXCEPT !.lo = partnum.lo + 1]
    /\ slot' = slot + 1
    /\ lpc' = AfterEntry(FALSE)
    /\ UNCHANGED <<disk, list, at>>

-----------------------------------------------------------------------------
(***************************************************************************)
(* The next extended entry of the list.                                    *)
(***************************************************************************)

Unexpanded == {k \in DOMAIN list : k > at /\ IsExt(list[k])}

ExpandNext ==
    /\ lpc = "next" /\ Unexpanded # {}
    /\ at' = CHOOSE k \in Unexpanded : \A j \in Unexpanded : k =< j
    /\ lpc' = "read"
    /\ UNCHANGED <<disk, list, partnum, slot>>

EndOfEntries == lpc = "next" /\ Unexpanded = {} /\ Done

-----------------------------------------------------------------------------
(***************************************************************************)
(* A GUID partition table: its header is sector 1, and disk[1] is its      *)
(* array of entries.  Three of the four entries of a sector are copied, up *)
(* to the first that is empty, and the list ends with them.                *)
(***************************************************************************)

GptIndex == (slot \div 3) * 4 + (slot % 3) + 1

CopyGpt ==
    /\ lpc = "gpt" /\ 1 \in DOMAIN disk /\ GptIndex \in DOMAIN disk[1]
    /\ LET e == disk[1][GptIndex] IN
          list' = Append(list, [lo |-> (partnum.lo + 1) % 256, hi |-> partnum.hi, type |-> "data",
                                start |-> e.first, len |-> e.last - e.first, base |-> 0])
    /\ partnum' = [partnum EXCEPT !.lo = (partnum.lo + 1) % 256]
    /\ slot' = slot + 1
    /\ UNCHANGED <<disk, at, lpc>>

EndOfGpt ==
    /\ lpc = "gpt"
    /\ 1 \in DOMAIN disk => GptIndex \notin DOMAIN disk[1]
    /\ Done

-----------------------------------------------------------------------------
ListInit ==
    /\ list = <<DriveEntry>> /\ at = 1
    /\ partnum = [lo |-> 255, hi |-> 0]
    /\ slot = 0 /\ lpc = "read"

ListTurn ==
    \/ ReadTable \/ EndAtBadTable
    \/ CopyPartition \/ EndAtMaxNum \/ CopyLink \/ SkipFree
    \/ ExpandNext \/ EndOfEntries
    \/ CopyGpt \/ EndOfGpt

-----------------------------------------------------------------------------
(***************************************************************************)
(* Properties.                                                             *)
(***************************************************************************)

\* The type invariant; the list and its terminator fit the buffer.
ListTypeOK ==
    /\ Len(list) =< Capacity /\ at \in DOMAIN list
    /\ partnum.lo \in 0 .. 255 /\ partnum.hi \in 0 .. 255
    /\ slot \in Nat /\ lpc \in {"read", "copy", "gpt", "next", "done"}
    /\ \A k \in DOMAIN list : list[k].lo \in 0 .. MaxNum \union {255} /\ list[k].hi \in 0 .. 255

Found == lpc = "done" /\ ~IsGpt(disk[0]) /\ Len(list) < Capacity /\ partnum.lo # MaxNum

InList == {k \in DOMAIN list : k > 1 /\ ~IsExt(list[k])}

\* Every table of the chain can be listed.
IsOrderly == /\ ~IsCyclic /\ IsValid(disk[0])
             /\ \A s \in ToSet(Path) : s \in DOMAIN disk => IsValid(disk[s])

\* On a disk whose tables are in order the list has every partition once, those of
\* the first table in its order, then the logical ones in the order of the chain.
PrimaryAt == {k \in Slots : disk[0][k] # Free /\ ~IsExt(disk[0][k])}
ListsAll ==
    Found /\ IsOrderly =>
        {[rank |-> UpTo(InList, k), start |-> Where(list[k])] : k \in InList} =
        {[rank |-> UpTo(PrimaryAt, k), start |-> disk[0][k].at] : k \in PrimaryAt} \union
        {[rank |-> (Cardinality(PrimaryAt) + p.num) - 3, start |-> p.start] : p \in Logicals}

\* No two entries have the same number: open_partition looks an entry up by it.
NumbersDistinct ==
    \A j, k \in DOMAIN list : list[j].lo = list[k].lo /\ list[j].hi = list[k].hi => j = k

\* The invariant of list_partitions: the list fits its buffer, numbers are not given
\* twice, and no partition is missing.
ListInv == ListTypeOK /\ NumbersDistinct /\ ListsAll
=============================================================================
