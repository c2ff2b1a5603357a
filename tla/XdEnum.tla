-------------------------------- MODULE XdEnum --------------------------------
(***************************************************************************)
(* The partition enumerator of grubutils/common/xdio.c (xd_enum).          *)
(*                                                                         *)
(* A caller enumerates all partitions, one call each, or jumps to one by   *)
(* its number.  Between two calls only the number of the last partition    *)
(* and the last table read remain, in xe and in the static ebuf; a step    *)
(* here is a turn of xd_enum's loops, each of which reads a sector.        *)
(***************************************************************************)
EXTENDS PartTable

CONSTANTS All,        \* 0xFF: before the first partition, and as a target all of them
          Targets     \* numbers the caller jumps to

\* A number is a byte; the numbers of a disk are fewer than those a byte has.
ASSUME AllAssumption ==
    /\ All \in Nat /\ Targets \subseteq 0 .. All - 1
    /\ \A d \in Disks : Cardinality(DOMAIN d) + 3 < All

VARIABLES xe,         \* cur, nxt, bse, ebs
          ebuf,       \* the last table read
          epc,         \* "idle", "top" and "chain": outside a call and in its two loops
          cc, kk,     \* the number the call is at; whether the last table had a partition
          found,      \* partitions the enumeration returned
          jumped      \* the last jump: target and result

evars == <<xe, ebuf, epc, cc, kk, found, jumped>>

NoTable == [k \in Slots |-> Free]
NoJump == [num |-> All, result |-> "none", start |-> 0]

-----------------------------------------------------------------------------
(***************************************************************************)
(* Calls and their results.                                                *)
(***************************************************************************)

\* The caller starts with cur = 0xFF and calls again until there is no more.
Enumerate ==
    /\ epc = "idle" /\ xe.nxt = All
    /\ epc' = "top" /\ cc' = xe.cur /\ kk' = TRUE
    /\ UNCHANGED <<disk, xe, ebuf, found, jumped>>

JumpTo(n) ==
    /\ epc = "idle" /\ xe.nxt # All
    /\ epc' = "top" /\ cc' = All /\ kk' = TRUE
    /\ xe' = [xe EXCEPT !.cur = All, !.nxt = n]
    /\ UNCHANGED <<disk, ebuf, found, jumped>>

\* Returns 0 with partition num, or 1.  After the enumeration the caller jumps.
Return(num, start) ==
    /\ epc' = "idle"
    /\ IF xe.nxt = All
       THEN found' = found \union {[num |-> num, start |-> start]} /\ UNCHANGED jumped
       ELSE jumped' = [num |-> xe.nxt, result |-> "found", start |-> start] /\ UNCHANGED found

ReturnNone ==
    /\ epc' = "idle"
    /\ IF xe.nxt = All
       THEN xe' = [xe EXCEPT !.nxt = 0] /\ UNCHANGED jumped
       ELSE jumped' = [num |-> xe.nxt, result |-> "missing", start |-> 0] /\ UNCHANGED xe
    /\ UNCHANGED found

-----------------------------------------------------------------------------
(***************************************************************************)
(* The table of sector 0.                                                  *)
(***************************************************************************)

Used(table) == {k \in Slots : table[k].type # "none"}

EndOf(entry) == entry.at + entry.len

\* Sorted by their start, the partitions do not overlap and leave room for the MBR.
Sound(table) ==
    /\ Used(table) # {}
    /\ \A k \in Used(table) : table[k].len # 0 /\ table[k].at # 0
    /\ ~ \E j, k \in Used(table) :
          j # k /\ table[j].at =< table[k].at /\ table[k].at < EndOf(table[j])

\* The table the turn works with, and the number it is at.
EnumTable == IF cc = All THEN disk[0] ELSE ebuf
Number == IF cc = All THEN 0 ELSE IF kk THEN cc + 1 ELSE cc

NextUsed(table, c) == CHOOSE k \in Used(table) : k >= c /\ \A j \in Used(table) : j >= c => k =< j
HasUsed(table, c) == \E k \in Used(table) : k >= c

-----------------------------------------------------------------------------
(***************************************************************************)
(* A turn of the outer loop.                                               *)
(***************************************************************************)

Goes == epc = "top" /\ (cc = All => Sound(disk[0])) /\ Number =< xe.nxt

Stops ==
    /\ epc = "top"
    /\ \/ cc = All /\ ~Sound(disk[0])
       \/ Number > xe.nxt
    /\ ReturnNone
    /\ ebuf' = EnumTable
    /\ UNCHANGED <<disk, cc, kk>>

JumpPrimary ==
    /\ Goes /\ Number < 4 /\ xe.nxt < 4
    /\ ebuf' = EnumTable /\ cc' = Number
    /\ IF EnumTable[xe.nxt].type = "none" THEN ReturnNone
       ELSE /\ xe' = [xe EXCEPT !.cur = xe.nxt, !.bse = EnumTable[xe.nxt].at]
            /\ Return(xe.nxt, EnumTable[xe.nxt].at)
    /\ UNCHANGED <<disk, kk>>

NextPrimary ==
    /\ Goes /\ Number < 4 /\ xe.nxt = All /\ HasUsed(EnumTable, Number)
    /\ LET k == NextUsed(EnumTable, Number) IN
          /\ xe' = [xe EXCEPT !.cur = k, !.bse = EnumTable[k].at]
          /\ cc' = k
          /\ Return(k, EnumTable[k].at)
    /\ ebuf' = EnumTable
    /\ UNCHANGED <<disk, kk>>

\* The types 5 and 0xF.
XdExt(entry) == entry.type = "ext"
XdSlots(table) == {k \in Slots : XdExt(table[k])}
FirstXd(table) == CHOOSE k \in XdSlots(table) : \A j \in XdSlots(table) : k =< j

\* Behind the primary partitions.
PastPrimaries ==
    /\ Goes
    /\ Number < 4 => xe.nxt >= 4 /\ (xe.nxt = All => ~HasUsed(EnumTable, Number))

Logical == IF Number < 4 THEN 4 ELSE Number

\* To the first table of the chain.
EnterChain ==
    /\ PastPrimaries /\ Logical = 4 /\ kk
    /\ ebuf' = EnumTable /\ cc' = 4
    /\ IF XdSlots(EnumTable) = {} THEN ReturnNone
       ELSE /\ xe' = [xe EXCEPT !.ebs = EnumTable[FirstXd(EnumTable)].at,
                                !.bse = EnumTable[FirstXd(EnumTable)].at]
            /\ epc' = "chain"
            /\ UNCHANGED <<found, jumped>>
    /\ UNCHANGED <<disk, kk>>

\* Mutated: the link counts from the table it is in.
NextInChain_FromHere ==
    /\ PastPrimaries /\ ~(Logical = 4 /\ kk)
    /\ ebuf' = EnumTable /\ cc' = Logical
    /\ IF ~XdExt(EnumTable[1]) \/ EnumTable[1].at = 0 THEN ReturnNone
       ELSE /\ xe' = [xe EXCEPT !.bse = xe.bse + EnumTable[1].at]
            /\ epc' = "chain"
            /\ UNCHANGED <<found, jumped>>
    /\ UNCHANGED <<disk, kk>>

\* To the table the second entry links to.
NextInChain ==
    /\ PastPrimaries /\ ~(Logical = 4 /\ kk)
    /\ ebuf' = EnumTable /\ cc' = Logical
    /\ IF ~XdExt(EnumTable[1]) \/ EnumTable[1].at = 0 THEN ReturnNone
       ELSE /\ xe' = [xe EXCEPT !.bse = xe.ebs + EnumTable[1].at]
            /\ epc' = "chain"
            /\ UNCHANGED <<found, jumped>>
    /\ UNCHANGED <<disk, kk>>

-----------------------------------------------------------------------------
(***************************************************************************)
(* A turn of the inner loop: the table in sector xe.bse.                   *)
(***************************************************************************)

NoChainTable ==
    /\ epc = "chain" /\ xe.bse \notin DOMAIN disk
    /\ ReturnNone
    /\ UNCHANGED <<disk, ebuf, cc, kk>>

Read == epc = "chain" /\ xe.bse \in DOMAIN disk /\ ebuf' = disk[xe.bse]

\* The first entry is a link itself.
FollowFirst ==
    /\ Read /\ XdExt(disk[xe.bse][0])
    /\ IF disk[xe.bse][0].at = 0 THEN ReturnNone
       ELSE /\ xe' = [xe EXCEPT !.bse = xe.ebs + disk[xe.bse][0].at]
            /\ UNCHANGED <<epc, found, jumped>>
    /\ UNCHANGED <<disk, cc, kk>>

\* A table without a partition, or without the one that is looked for.
SkipTable ==
    /\ Read /\ ~XdExt(disk[xe.bse][0])
    /\ kk' = (disk[xe.bse][0].type # "none")
    /\ ~(kk' /\ xe.nxt \in {All, cc})
    /\ epc' = "top"
    /\ UNCHANGED <<disk, xe, cc, found, jumped>>

TakeLogical ==
    /\ Read /\ ~XdExt(disk[xe.bse][0]) /\ disk[xe.bse][0].type # "none"
    /\ xe.nxt \in {All, cc}
    /\ kk' = TRUE
    /\ xe' = [xe EXCEPT !.cur = cc, !.bse = xe.bse + disk[xe.bse][0].at]
    /\ Return(cc, xe.bse + disk[xe.bse][0].at)
    /\ UNCHANGED <<disk, cc>>

-----------------------------------------------------------------------------
EnumInit ==
    /\ xe = [cur |-> All, nxt |-> All, bse |-> 0, ebs |-> 0]
    /\ ebuf = NoTable
    /\ epc = "idle" /\ cc = 0 /\ kk = TRUE
    /\ found = {} /\ jumped = NoJump

Turn ==
    \/ Stops \/ JumpPrimary \/ NextPrimary \/ EnterChain \/ NextInChain
    \/ NoChainTable \/ FollowFirst \/ SkipTable \/ TakeLogical

\* "it means enumerate all partitions" (grubutils/common/xdio.c:308): there is
\* no more to return, and the caller turns to jumps.
Enumerated == xe.nxt # All

-----------------------------------------------------------------------------
(***************************************************************************)
(* Properties.                                                             *)
(***************************************************************************)

\* The type invariant.  Each table behind sector 0 takes at most one number.
Numbers == 0 .. Cardinality(DOMAIN disk) + 2

EnumTypeOK ==
    /\ xe.cur \in Numbers \union {All} /\ xe.nxt \in 0 .. All
    /\ xe.bse \in Nat /\ xe.ebs \in Nat
    /\ epc \in {"idle", "top", "chain"}
    /\ cc \in 0 .. All /\ kk \in BOOLEAN
    /\ \A p \in found : p.num \in Numbers /\ p.start \in Nat
    /\ jumped.num \in 0 .. All /\ jumped.result \in {"none", "found", "missing"}

\* The partitions xd_enum can reach: of an extended partition it does not know as
\* one, those in the chain stay hidden.
IsForeign == \E k \in Slots : disk[0][k].type = "foreign"
Reachable == Primaries \union (IF IsForeign THEN {} ELSE Logicals)

\* The enumeration finds every partition xd_enum can reach under its number, and
\* nothing else, although it keeps only the last number and the last table
\* from one call to the next.
EnumeratesAll == Enumerated /\ Sound(disk[0]) => found = Reachable

\* A jump to a number finds the partition the enumeration gave that number.
JumpMatches ==
    jumped.result # "none" =>
        LET hits == {p \in found : p.num = jumped.num}
        IN  IF jumped.result = "found"
            THEN hits = {[num |-> jumped.num, start |-> jumped.start]}
            ELSE hits = {}

\* The invariant of xd_enum: its state has its types, and what it returned are the
\* partitions of the disk, by enumeration and by number.
EnumInv == EnumTypeOK /\ EnumeratesAll /\ JumpMatches
=============================================================================
