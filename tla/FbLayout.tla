------------------------------ MODULE FbLayout ------------------------------
(***************************************************************************)
(* The data areas of an fbinst disk and the arithmetic that places files   *)
(* in them (grubutils/fbinst/fbinst.c: check_space, find_space, del_file). *)
(*                                                                         *)
(* A disk has two data areas.  Sectors DataBegin .. PriSize-1 are the      *)
(* primary area: the boot code reads them with any BIOS, and each sector   *)
(* gives its last two bytes to a mark, so a block holds PriBlock bytes.    *)
(* Sectors PriSize .. TotalSize-1 are the extended area, whose blocks hold *)
(* ExtBlock bytes.  The area of a file is decided by the sector it starts  *)
(* in.  An archive is a disk whose primary area is empty: DataBegin is     *)
(* PriSize.                                                                *)
(*                                                                         *)
(* A file list is the sequence of file items of fb_list, in list order.    *)
(***************************************************************************)
EXTENDS Integers, SequencesExt

CONSTANTS Names,      \* file names, equal up to case and leading slashes
          DataBegin,  \* fb_list_start + fb_list_sectors
          PriSize,    \* fb_pri_size
          TotalSize,  \* fb_total_size
          PriBlock,   \* bytes of a file in a primary sector (510)
          ExtBlock    \* bytes of a file in an extended sector (512)

ASSUME AreaAssumption ==
    /\ DataBegin \in Nat /\ PriSize \in Nat /\ TotalSize \in Nat
    /\ DataBegin =< PriSize
    /\ PriSize =< TotalSize

ASSUME BlockAssumption ==
    /\ PriBlock \in Nat \ {0} /\ ExtBlock \in Nat \ {0}
    /\ PriBlock < ExtBlock

-----------------------------------------------------------------------------
(***************************************************************************)
(* Sizes in blocks.                                                        *)
(***************************************************************************)

CeilDiv(size, block) == (size + block - 1) \div block

InPrimary(sector) == sector < PriSize

\* Bytes per sector of a file that starts in the given sector.
BlockOf(start) == IF InPrimary(start) THEN PriBlock ELSE ExtBlock

Blocks(f) == CeilDiv(f.size, BlockOf(f.start))

\* The first sector after file item f.
FileEnd(f) == f.start + Blocks(f)

-----------------------------------------------------------------------------
(***************************************************************************)
(* The file list as a sequence of items (struct fbm_file).                 *)
(***************************************************************************)

ItemType == [name : Names, start : Nat, size : Nat \ {0}, ext : BOOLEAN, sys : BOOLEAN]

NamesOf(list) == {list[i].name : i \in 1 .. Len(list)}

Position(list, name) == CHOOSE i \in 1 .. Len(list) : list[i].name = name

Item(list, name) == list[Position(list, name)]

Without(list, name) ==
    IF name \in NamesOf(list) THEN RemoveAt(list, Position(list, name)) ELSE list

-----------------------------------------------------------------------------
(***************************************************************************)
(* Gap i of a list lies before its i-th item; the last gap ends the disk.  *)
(***************************************************************************)

Gaps(list) == 1 .. Len(list) + 1

GapBegin(list, i) == IF i = 1 THEN DataBegin ELSE FileEnd(list[i - 1])

GapEnd(list, i) == IF i = Len(list) + 1 THEN TotalSize ELSE list[i].start

\* The gap has sectors of both areas.
Straddles(list, i) == GapBegin(list, i) < PriSize /\ PriSize < GapEnd(list, i)

(***************************************************************************)
(* The number of blocks find_space asks for when it looks at gap i.  It    *)
(* counts in primary blocks, even in the extended area, until a straddling *)
(* gap has been seen.                                                      *)
(***************************************************************************)
CountAt(list, i, size) ==
    CeilDiv(size, IF \E j \in 1 .. i - 1 : Straddles(list, j) THEN ExtBlock ELSE PriBlock)

FitsBefore(list, i, size, ext) ==
    /\ Straddles(list, i)
    /\ ~ext
    /\ PriSize - GapBegin(list, i) >= CountAt(list, i, size)

FitsAfter(list, i, size) ==
    /\ Straddles(list, i)
    /\ GapEnd(list, i) - PriSize >= CeilDiv(size, ExtBlock)

\* Mutated: counts the blocks of a primary file as if they were extended.
FitsWhole_ExtCount(list, i, size, ext) ==
    /\ ~Straddles(list, i)
    /\ ~InPrimary(GapBegin(list, i)) \/ ~ext
    /\ GapEnd(list, i) - GapBegin(list, i) >= CeilDiv(size, ExtBlock)

FitsWhole(list, i, size, ext) ==
    /\ ~Straddles(list, i)
    /\ ~InPrimary(GapBegin(list, i)) \/ ~ext
    /\ GapEnd(list, i) - GapBegin(list, i) >= CountAt(list, i, size)

Fits(list, i, size, ext) ==
    \/ FitsBefore(list, i, size, ext)
    \/ FitsAfter(list, i, size)
    \/ FitsWhole(list, i, size, ext)

\* The sector where check_space puts the file in a gap it fits in.
StartIn(list, i, size, ext) ==
    IF FitsBefore(list, i, size, ext) \/ FitsWhole(list, i, size, ext)
    THEN GapBegin(list, i) ELSE PriSize

\* find_space takes the first gap that fits.
FirstFit(list, i, size, ext) ==
    /\ i \in Gaps(list)
    /\ Fits(list, i, size, ext)
    /\ \A j \in 1 .. i - 1 : ~Fits(list, j, size, ext)

-----------------------------------------------------------------------------
(***************************************************************************)
(* What a well-formed list is: items in disk order, inside the data areas, *)
(* none of them across the area boundary, no two with one name.            *)
(***************************************************************************)

InOrder(list) ==
    \A i, j \in 1 .. Len(list) : i < j => FileEnd(list[i]) =< list[j].start

InAreas(list) ==
    \A i \in 1 .. Len(list) :
        /\ DataBegin =< list[i].start
        /\ FileEnd(list[i]) =< TotalSize
        /\ InPrimary(list[i].start) => FileEnd(list[i]) =< PriSize

UniqueNames(list) ==
    \A i, j \in 1 .. Len(list) : list[i].name = list[j].name => i = j

LayoutOK(list) == InOrder(list) /\ InAreas(list) /\ UniqueNames(list)
=============================================================================
