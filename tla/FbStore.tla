------------------------------ MODULE FbStore -------------------------------
(***************************************************************************)
(* The file commands of fbinst on one disk or archive                      *)
(* (grubutils/fbinst/fbinst.c).                                            *)
(*                                                                         *)
(* Every command is one run of the program: read_header loads the file     *)
(* list, the command changes the list in memory and writes data blocks in  *)
(* place, and write_header commits the list.  Between two writes the run   *)
(* may end early: a crash, an I/O error, an unreadable input file.  What a *)
(* write call had transferred by then stays on the disk, the list in       *)
(* memory is lost.                                                         *)
(*                                                                         *)
(* Only the sectors of the data areas are modelled here, and the committed *)
(* list is written as one unit.  A byte is a value that says which byte of *)
(* which input it is.  Commands that give up before they change anything   *)
(* (a name that is not there) are not behaviour of the disk and left out.  *)
(***************************************************************************)
EXTENDS FbLayout

CONSTANTS Bytes,      \* the bytes of input files
          Datas,      \* the contents of input files
          Sizes,      \* the sizes resize can ask for
          Archives,   \* archives: sequences of [name, data, ext, sys] records
          Filler, Term, Lba, Blank,   \* bytes that come from no input file
          ItemBytes,  \* bytes of the file item of each name
          ListCap,    \* fb_list_size: bytes of the file list
          GlobBuf,    \* GLOB_BUF_SIZE: sectors of one disk transfer
          MaxCmds     \* bound on the commands of a behaviour

ASSUME StoreAssumption ==
    /\ Datas \subseteq Seq(Bytes) \ {<<>>}
    /\ Sizes \subseteq Nat \ {0}
    /\ ItemBytes \in [Names -> Nat \ {0}]
    /\ ListCap \in Nat \ {0}
    /\ GlobBuf \in Nat \ {0}
    /\ MaxCmds \in Nat

ASSUME ArchiveAssumption ==
    \A archive \in Archives :
        archive \in Seq([name : Names, data : Seq(Bytes) \ {<<>>},
                         ext : BOOLEAN, sys : BOOLEAN]) \ {<<>>}

VARIABLES disk,     \* the sectors of the data areas
          dlist,    \* the committed file list
          fb_list,  \* the file list in memory
          pc,       \* what the running command does next
          req,      \* the file the command is to store or copy
          queue,    \* load: the archive items after req
          at,       \* the sector the next transfer writes
          from,     \* the sector the next transfer reads
          left,     \* what a transfer loop has left: bytes (save) or sectors
          idx,      \* pack: the item it looks at
          ncmd,     \* commands run, to bound behaviours
          goal      \* history: what the command is to do (see FileStore)

work == <<fb_list, pc, req, queue, at, from, left, idx, goal>>
vars == <<disk, dlist, work, ncmd>>

-----------------------------------------------------------------------------
(***************************************************************************)
(* Sectors.  A primary sector s holds the mark of s in the cells past its  *)
(* block.                                                                  *)
(***************************************************************************)

Area == DataBegin .. TotalSize - 1
Mark(s) == <<"mark", s>>
LbaOf(s) == <<"lba", s>>

\* What says where a syslinux file lies is no byte of another file.
ASSUME ByteAssumption == {LbaOf(s) : s \in Area} \cap (Bytes \union {Filler, Term}) = {}

Stamp(sector, s) == [k \in 1 .. ExtBlock |-> IF k > PriBlock THEN Mark(s) ELSE sector[k]]

\* Byte i of file f as load_file_data and load_buff read it.
ByteOf(f, i) ==
    LET b == BlockOf(f.start)
    IN  disk[f.start + ((i - 1) \div b)][((i - 1) % b) + 1]

Content(f) == [i \in 1 .. f.size |-> ByteOf(f, i)]

\* The committed files; where a syslinux file was patched to lie is not part of it.
Store ==
    [n \in NamesOf(dlist) |->
        LET f == Item(dlist, n)
        IN  [i \in 1 .. f.size |->
                IF ByteOf(f, i) \in {LbaOf(s) : s \in Area} THEN Lba ELSE ByteOf(f, i)]]

FS == INSTANCE FileStore WITH store <- Store

-----------------------------------------------------------------------------
(***************************************************************************)
(* The list in memory.                                                     *)
(***************************************************************************)

ListBytes(list) ==
    MapThenSumSet(LAMBDA i : ItemBytes[list[i].name], 1 .. Len(list))

\* Mutated: leaves no byte for the terminator.
RoomFor_Full(list, name) == ListBytes(list) + ItemBytes[name] =< ListCap

\* alloc_file and move_file keep one byte for the terminator.
RoomFor(list, name) == ListBytes(list) + ItemBytes[name] < ListCap

NoReq == [kind |-> "none"]

SaveReq(name, data, ext, sys) ==
    [kind |-> "save", name |-> name, data |-> data, size |-> Len(data),
     ext |-> ext, sys |-> sys, oldStart |-> 0, oldSize |-> 0]

CpyReq(name, size, ext, oldStart, oldSize) ==
    [kind |-> "cpy", name |-> name, data |-> <<>>, size |-> size,
     ext |-> ext, sys |-> FALSE, oldStart |-> oldStart, oldSize |-> oldSize]

ItemReq(item) == SaveReq(item.name, item.data, item.ext, item.sys)

NewItem(start) ==
    [name |-> req.name, start |-> start, size |-> req.size, ext |-> req.ext, sys |-> FALSE]

\* The item the command has allocated.
Target == Item(fb_list, req.name)

-----------------------------------------------------------------------------
(***************************************************************************)
(* The beginning of a command, up to its first allocation or transfer.     *)
(***************************************************************************)

\* What read_header leaves a command that goes on at next with the given list.
Begin(next, list) ==
    /\ pc = "idle"
    /\ ncmd < MaxCmds
    /\ ncmd' = ncmd + 1
    /\ pc' = next
    /\ fb_list' = list
    /\ UNCHANGED <<disk, dlist>>

NoTransfer == UNCHANGED <<at, from, left, idx>>

\* add NAME FILE; from standard input (save_buff) the file is never asked
\* to be in the extended area.
AddFile(name, data, ext, sys, stdin) ==
    /\ Begin("alloc", dlist)
    /\ req' = SaveReq(name, data, ~stdin /\ (ext \/ sys), sys)
    /\ goal' = FS!Goal({name}, FS!Put(Store, name, FS!Patched(data, sys)))
    /\ NoTransfer /\ UNCHANGED queue

\* add-menu NAME; appending keeps the items of the file and drops its terminator.
AddMenu(name, items, append) ==
    LET old  == append /\ name \in NamesOf(dlist)
        file == Item(dlist, name)
        data == Append(IF old THEN Front(Content(file)) \o items ELSE items, Term)
    IN  /\ Begin("alloc", dlist)
        /\ old => file.size =< GlobBuf * ExtBlock
        /\ Len(data) =< GlobBuf * ExtBlock
        /\ req' = SaveReq(name, data, FALSE, FALSE)
        /\ goal' = FS!Goal({name}, IF append THEN FS!Appended(Store, name, Append(items, Term))
                                   ELSE FS!Put(Store, name, data))
        /\ NoTransfer /\ UNCHANGED queue

\* resize NAME SIZE of a file that is large enough: only its item changes.
Shrink(name, size) ==
    /\ name \in NamesOf(dlist)
    /\ Item(dlist, name).size >= size
    /\ Begin("commit", [dlist EXCEPT ![Position(dlist, name)].size = size])
    /\ goal' = FS!Goal({}, FS!Resized(Store, name, size))
    /\ NoTransfer /\ UNCHANGED <<req, queue>>

\* resize NAME SIZE of a smaller file, or of none.
Grow(name, size, ext) ==
    /\ name \in NamesOf(dlist) => Item(dlist, name).size < size
    /\ Begin("alloc", Without(dlist, name))
    /\ req' = IF name \in NamesOf(dlist)
              THEN LET f == Item(dlist, name)
                   IN  CpyReq(name, size, ~InPrimary(f.start), f.start, f.size)
              ELSE CpyReq(name, size, ext, 0, 0)
    /\ goal' = FS!Goal({name}, FS!Resized(Store, name, size))
    /\ NoTransfer /\ UNCHANGED queue

CopyFile(old, new) ==
    /\ old \in NamesOf(dlist) /\ old # new
    /\ Begin("alloc", Without(dlist, new))
    /\ req' = LET f == Item(dlist, old)
              IN  CpyReq(new, f.size, ~InPrimary(f.start), f.start, f.size)
    /\ goal' = FS!Goal({new}, FS!Put(Store, new, Store[old]))
    /\ NoTransfer /\ UNCHANGED queue

MoveFile(old, new) ==
    LET kept == Without(dlist, new)
    IN  /\ old \in NamesOf(dlist) /\ old # new
        /\ RoomFor(Without(kept, old), new)
        /\ Begin("commit", [kept EXCEPT ![Position(kept, old)].name = new])
        /\ goal' = FS!Goal({}, FS!Moved(Store, old, new))
        /\ NoTransfer /\ UNCHANGED <<req, queue>>

RemoveFile(name) ==
    /\ name \in NamesOf(dlist)
    /\ Begin("commit", Without(dlist, name))
    /\ goal' = FS!Goal({}, FS!Drop(Store, name))
    /\ NoTransfer /\ UNCHANGED <<req, queue>>

ClearMenu ==
    /\ Begin("commit", <<>>)
    /\ goal' = FS!Goal({}, <<>>)
    /\ NoTransfer /\ UNCHANGED <<req, queue>>

PackDisk ==
    /\ Begin("pack", dlist)
    /\ at' = DataBegin
    /\ idx' = 1
    /\ goal' = FS!Goal(NamesOf(dlist), Store)
    /\ UNCHANGED <<req, queue, from, left>>

LoadArchive(archive) ==
    /\ Begin("alloc", dlist)
    /\ req' = ItemReq(Head(archive))
    /\ queue' = Tail(archive)
    /\ goal' = FS!Goal({archive[i].name : i \in 1 .. Len(archive)},
                       FS!Loaded(Store, archive))
    /\ NoTransfer

Command ==
    \/ \E name \in Names, data \in Datas, ext, sys, stdin \in BOOLEAN :
          AddFile(name, data, ext, sys, stdin)
    \/ \E name \in Names, items \in Datas, append \in BOOLEAN : AddMenu(name, items, append)
    \/ \E name \in Names, size \in Sizes : Shrink(name, size)
    \/ \E name \in Names, size \in Sizes, ext \in BOOLEAN : Grow(name, size, ext)
    \/ \E old, new \in Names : CopyFile(old, new) \/ MoveFile(old, new)
    \/ \E name \in Names : RemoveFile(name)
    \/ ClearMenu
    \/ PackDisk
    \/ \E archive \in Archives : LoadArchive(archive)

-----------------------------------------------------------------------------
(***************************************************************************)
(* Data transfers.  Pending is the write call the command makes next: the  *)
(* sector it starts at and the images of the sectors it writes.            *)
(***************************************************************************)

Least(a, b) == IF a < b THEN a ELSE b


\* save_file_data, save_buff: the next bytes of the input, at most a buffer of them.
SaveBytes == Least(left, GlobBuf * BlockOf(Target.start))

SaveImage ==
    LET b == BlockOf(Target.start)
    IN  [j \in 1 .. CeilDiv(SaveBytes, b) |->
            [k \in 1 .. ExtBlock |->
                IF k > b THEN Mark(at + j - 1)
                ELSE IF (j - 1) * b + k =< SaveBytes
                     THEN req.data[req.size - left + (j - 1) * b + k]
                     ELSE Blank]]

\* Mutated: keeps the marks of the old place.
CopyImage_OldMark == [j \in 1 .. Least(left, GlobBuf) |-> disk[from + j - 1]]

\* copy_disk: the next sectors of the old place, marked anew in the primary area.
CopyImage ==
    [j \in 1 .. Least(left, GlobBuf) |->
        IF InPrimary(at) THEN Stamp(disk[from + j - 1], at + j - 1) ELSE disk[from + j - 1]]

\* cpy_file: the last, partly used sector of the old file.
OldRest == req.oldSize % BlockOf(Target.start)

\* Mutated: keeps the bytes after the old end of the file.
TailImage_Stale ==
    LET b == BlockOf(Target.start)
    IN  [j \in 1 .. (IF OldRest = 0 THEN 0 ELSE 1) |->
            [k \in 1 .. ExtBlock |-> IF k > b THEN Mark(at) ELSE disk[from][k]]]

TailImage ==
    LET b == BlockOf(Target.start)
    IN  [j \in 1 .. (IF OldRest = 0 THEN 0 ELSE 1) |->
            [k \in 1 .. ExtBlock |->
                IF k > b THEN Mark(at) ELSE IF k =< OldRest THEN disk[from][k] ELSE Filler]]

\* cpy_file: the sectors after it.
FillImage ==
    [j \in 1 .. Least(left, GlobBuf) |->
        [k \in 1 .. ExtBlock |->
            IF k > BlockOf(Target.start) THEN Mark(at + j - 1) ELSE Filler]]

\* syslinux_patch: the first two sectors, the first now naming the second.
PatchImage ==
    LET s == Target.start
    IN  [j \in 1 .. 2 |-> IF j = 1 THEN [disk[s] EXCEPT ![1] = LbaOf(s + 1)] ELSE disk[s + 1]]

Patchable ==
    /\ CeilDiv(Target.size, ExtBlock) > 2
    /\ CeilDiv(Target.size, ExtBlock) =< GlobBuf
    /\ ~InPrimary(Target.start)

NoWrite == [start |-> DataBegin, image |-> <<>>]

Pending ==
    CASE pc = "save" -> [start |-> at, image |-> SaveImage]
      [] pc \in {"copy", "packcopy"} -> [start |-> at, image |-> CopyImage]
      [] pc = "tail" -> [start |-> at, image |-> TailImage]
      [] pc = "fill" -> [start |-> at, image |-> FillImage]
      [] pc = "patch" /\ Patchable -> [start |-> Target.start, image |-> PatchImage]
      [] OTHER -> NoWrite

\* The disk after the first n sectors of the pending write.
Written(n) ==
    [s \in Area |-> IF s \in Pending.start .. Pending.start + n - 1
                    THEN Pending.image[s - Pending.start + 1] ELSE disk[s]]

Transfer(next) ==
    /\ disk' = Written(Len(Pending.image))
    /\ pc' = next
    /\ UNCHANGED <<dlist, ncmd, goal>>

-----------------------------------------------------------------------------
(***************************************************************************)
(* The steps of a command.                                                 *)
(***************************************************************************)

Forget(outcome) ==
    /\ pc' = "idle" /\ fb_list' = <<>> /\ req' = NoReq /\ queue' = <<>>
    /\ at' = 0 /\ from' = 0 /\ left' = 0 /\ idx' = 0
    /\ goal' = outcome

\* quit: the list in memory is dropped.
Quit == Forget(FS!NoGoal) /\ UNCHANGED <<disk, dlist, ncmd>>

\* alloc_file deletes the item of that name first.
Kept == Without(fb_list, req.name)

\* cpy_file copies within an area only.
SameArea(start) == req.oldSize > 0 => req.ext = ~InPrimary(start)

AllocFile ==
    /\ pc = "alloc"
    /\ RoomFor(Kept, req.name)
    /\ \E i \in Gaps(Kept) :
        LET start == StartIn(Kept, i, req.size, req.ext)
        IN  /\ FirstFit(Kept, i, req.size, req.ext)
            /\ SameArea(start)
            /\ fb_list' = InsertAt(Kept, i, NewItem(start))
            /\ at' = start
            /\ from' = req.oldStart
            /\ pc' = IF req.kind = "save" THEN "save" ELSE "copy"
            /\ left' = IF req.kind = "save" THEN req.size
                       ELSE IF start = req.oldStart THEN 0
                       ELSE req.oldSize \div BlockOf(start)
    /\ UNCHANGED <<disk, dlist, req, queue, idx, ncmd, goal>>

\* "file item too long", "not enough space"
AllocQuit ==
    /\ pc = "alloc"
    /\ \/ ~RoomFor(Kept, req.name)
       \/ \A i \in Gaps(Kept) : ~Fits(Kept, i, req.size, req.ext)
       \/ \E i \in Gaps(Kept) :
            /\ FirstFit(Kept, i, req.size, req.ext)
            /\ ~SameArea(StartIn(Kept, i, req.size, req.ext))
    /\ Quit

\* Mutated: stops before the last item of the archive.
NextItem_DropLast(next) ==
    /\ next = IF Len(queue) =< 1 THEN "commit" ELSE "alloc"
    /\ req' = IF Len(queue) =< 1 THEN req ELSE ItemReq(Head(queue))
    /\ queue' = IF Len(queue) =< 1 THEN queue ELSE Tail(queue)

\* load_archive goes on with its next item.
NextItem(next) ==
    /\ next = IF queue = <<>> THEN "commit" ELSE "alloc"
    /\ req' = IF queue = <<>> THEN req ELSE ItemReq(Head(queue))
    /\ queue' = IF queue = <<>> THEN queue ELSE Tail(queue)

SaveChunk ==
    /\ pc = "save"
    /\ left' = left - SaveBytes
    /\ at' = at + Len(SaveImage)
    /\ \E next \in {"save", "patch", "alloc", "commit"} :
        /\ Transfer(next)
        /\ IF left' > 0 THEN next = "save" /\ UNCHANGED <<req, queue>>
           ELSE IF req.sys THEN next = "patch" /\ UNCHANGED <<req, queue>>
           ELSE NextItem(next)
    /\ UNCHANGED <<fb_list, from, idx>>

SyslinuxPatch ==
    /\ pc = "patch"
    /\ Patchable
    /\ fb_list' = [fb_list EXCEPT ![Position(fb_list, req.name)].sys = TRUE]
    /\ \E next \in {"alloc", "commit"} : Transfer(next) /\ NextItem(next)
    /\ UNCHANGED <<at, from, left, idx>>

PatchQuit == pc = "patch" /\ ~Patchable /\ Quit

\* copy_disk; pack and cpy_file call it.
CopyChunk ==
    /\ pc \in {"copy", "packcopy"}
    /\ left > 0
    /\ Transfer(pc)
    /\ at' = at + Len(CopyImage)
    /\ from' = from + Len(CopyImage)
    /\ left' = left - Len(CopyImage)
    /\ UNCHANGED <<fb_list, req, queue, idx>>

\* Mutated: counts the partly used sector of the old file as copied.
OldWhole_RoundUp == CeilDiv(req.oldSize, BlockOf(Target.start))

OldWhole == req.oldSize \div BlockOf(Target.start)

CopyDone ==
    /\ pc = "copy"
    /\ left = 0
    /\ at' = Target.start + OldWhole
    /\ from' = req.oldStart + OldWhole
    /\ pc' = "tail"
    /\ UNCHANGED <<disk, dlist, fb_list, req, queue, left, idx, ncmd, goal>>

CopyTail ==
    /\ pc = "tail"
    /\ Transfer("fill")
    /\ at' = at + Len(TailImage)
    /\ left' = Blocks(Target) - OldWhole - Len(TailImage)
    /\ UNCHANGED <<fb_list, req, queue, from, idx>>

FillChunk ==
    /\ pc = "fill"
    /\ left' = left - Len(FillImage)
    /\ at' = at + Len(FillImage)
    /\ Transfer(IF left' > 0 THEN "fill" ELSE "commit")
    /\ UNCHANGED <<fb_list, req, queue, from, idx>>

\* Mutated: leaves the first extended file where it is.
PackStart_Keep(b, f) == IF InPrimary(b) /\ ~InPrimary(f.start) THEN f.start ELSE b

\* Where pack puts item f: b, or the extended area if f must stay there.
PackStart(b, f) == IF InPrimary(b) /\ ~InPrimary(f.start) THEN PriSize ELSE b

\* Mutated: looks at the same item again when there is nothing to move.
PackItem_Again ==
    /\ pc = "pack"
    /\ idx =< Len(fb_list)
    /\ LET f == fb_list[idx]
           b == PackStart(at, f)
       IN  /\ f.start # b
           /\ pc' = "packcopy"
           /\ at' = b
           /\ from' = f.start
           /\ left' = Blocks(f)
           /\ UNCHANGED idx
    /\ UNCHANGED <<disk, dlist, fb_list, req, queue, ncmd, goal>>

PackItem ==
    /\ pc = "pack"
    /\ idx =< Len(fb_list)
    /\ LET f == fb_list[idx]
           b == PackStart(at, f)
       IN  IF f.start = b
           THEN /\ at' = b + Blocks(f)
                /\ idx' = idx + 1
                /\ UNCHANGED <<pc, from, left>>
           ELSE /\ pc' = "packcopy"
                /\ at' = b
                /\ from' = f.start
                /\ left' = Blocks(f)
                /\ UNCHANGED idx
    /\ UNCHANGED <<disk, dlist, fb_list, req, queue, ncmd, goal>>

PackMoved ==
    /\ pc = "packcopy"
    /\ left = 0
    /\ fb_list' = [fb_list EXCEPT ![idx].start = at - Blocks(fb_list[idx])]
    /\ pc' = "pack"
    /\ idx' = idx + 1
    /\ UNCHANGED <<disk, dlist, req, queue, at, from, left, ncmd, goal>>

PackDone ==
    /\ pc = "pack"
    /\ idx > Len(fb_list)
    /\ pc' = "commit"
    /\ UNCHANGED <<disk, dlist, fb_list, req, queue, at, from, left, idx, ncmd, goal>>

WriteHeader ==
    /\ pc = "commit"
    /\ dlist' = fb_list
    /\ Forget(FS!Achieved)
    /\ UNCHANGED <<disk, ncmd>>

Step ==
    \/ AllocFile \/ AllocQuit \/ SaveChunk \/ SyslinuxPatch \/ PatchQuit
    \/ CopyChunk \/ CopyDone \/ CopyTail \/ FillChunk
    \/ PackItem \/ PackMoved \/ PackDone \/ WriteHeader

\* The run ends in the middle of a write call, or between two.
Interrupt ==
    /\ pc # "idle"
    /\ \E n \in 0 .. Len(Pending.image) : disk' = Written(n)
    /\ Forget(FS!NoGoal)
    /\ UNCHANGED <<dlist, ncmd>>

\* No further command is run.
Stop == pc = "idle" /\ ncmd = MaxCmds /\ UNCHANGED vars

\* A formatted disk: every primary sector has its mark, no files.
Init ==
    /\ disk = [s \in Area |-> [k \in 1 .. ExtBlock |->
                  IF InPrimary(s) /\ k > PriBlock THEN Mark(s) ELSE Blank]]
    /\ dlist = <<>> /\ ncmd = 0
    /\ pc = "idle" /\ fb_list = <<>> /\ req = NoReq /\ queue = <<>>
    /\ at = 0 /\ from = 0 /\ left = 0 /\ idx = 0
    /\ goal = FS!NoGoal

Next == Command \/ Step \/ Interrupt \/ Stop

\* A started run is scheduled to its end.
Fairness == WF_vars(Step)

Spec == Init /\ [][Next]_vars /\ Fairness
-----------------------------------------------------------------------------
(***************************************************************************)
(* Properties.                                                             *)
(***************************************************************************)

Cell == Bytes \cup {Filler, Term, Blank}
              \cup {Mark(s) : s \in Area} \cup {LbaOf(s) : s \in Area}

ReqType ==
    [kind : {"save", "cpy"}, name : Names, data : Seq(Cell), size : Nat \ {0},
     ext : BOOLEAN, sys : BOOLEAN, oldStart : Nat, oldSize : Nat]

\* Every variable has its type; the lists are lists of file items.
TypeOK ==
    /\ disk \in [Area -> [1 .. ExtBlock -> Cell]]
    /\ dlist \in Seq(ItemType) /\ fb_list \in Seq(ItemType)
    /\ pc \in {"idle", "alloc", "save", "patch", "copy", "tail", "fill",
               "pack", "packcopy", "commit"}
    /\ req \in ReqType \cup {NoReq}
    /\ at \in Nat /\ from \in Nat /\ left \in Nat /\ idx \in Nat /\ ncmd \in Nat

\* The committed list and the list in memory (of alloc_file, resize_file,
\* move_file, pack_disk) always describe files in disk order that do not
\* overlap, lie inside their areas and have different names.
LayoutInv == LayoutOK(dlist) /\ LayoutOK(fb_list)

\* What "check" verifies: each sector of the primary area carries its own
\* number, also between the writes of a command and after an interruption.
MarksOK ==
    \A s \in Area, k \in PriBlock + 1 .. ExtBlock :
        InPrimary(s) => disk[s][k] = Mark(s)

\* The list and its terminator fit in the sectors of the list, so that the
\* read_header of the next command never says "invalid file list".
ListFits == ListBytes(dlist) < ListCap /\ ListBytes(fb_list) < ListCap

\* pack_disk leaves no free sector before an item it has handled, except
\* those at the end of the primary area.
PackTight ==
    pc = "pack" =>
        \A i \in 1 .. idx - 1 :
            \/ fb_list[i].start = GapBegin(fb_list, i)
            \/ fb_list[i].start = PriSize /\ InPrimary(GapBegin(fb_list, i))

\* The invariant of the blocks beside the layout: types and packing.
BlocksInv == TypeOK /\ PackTight

\* The sectors of file item f, and those of the pending write.
Extent(f) == f.start .. FileEnd(f) - 1
PendingExtent == Pending.start .. Pending.start + Len(Pending.image) - 1

\* No write of a command touches a sector of a committed file that the command
\* does not name: the allocator never hands such a sector out, and no transfer
\* runs past the blocks it was given.
WritesAside ==
    \A i \in 1 .. Len(dlist) :
        dlist[i].name \notin goal.writes => Extent(dlist[i]) \cap PendingExtent = {}

\* Every command does what FileStore says: it commits exactly the files it
\* is to make, and an interruption at any point damages no file but those
\* the command writes.
RefinesFileStore == FS!Spec

\* Every run of the program ends: no transfer loop goes on for ever.
CommandEnds == pc # "idle" ~> pc = "idle"

\* The help of add: "--syslinux,-s  Patch syslinux boot file": where the first
\* sector of a committed syslinux file is patched, it names the file's second
\* sector.
SyslinuxLocated ==
    \A i \in 1 .. Len(dlist) :
        LET s == dlist[i].start
        IN  dlist[i].sys /\ disk[s][1] \in {LbaOf(t) : t \in Area} =>
                disk[s][1] = LbaOf(s + 1)

-----------------------------------------------------------------------------
(***************************************************************************)
(* An inductive invariant that implies LayoutInv.                          *)
(***************************************************************************)

\* From alloc_file on, the command stores a file in the list.
Storing == pc \in {"save", "patch", "copy", "tail", "fill"}

ReqOK ==
    pc = "alloc" \/ Storing =>
        req.name \in Names /\ req.size \in Nat \ {0} /\ req.ext \in BOOLEAN

QueueType == Seq([name : Names, data : Seq(Bytes) \ {<<>>}, ext : BOOLEAN, sys : BOOLEAN])

\* pack_disk between two items: those before idx end at b or before, the
\* others start at b or after it.
PackedUpTo(b) ==
    /\ b \in Nat /\ DataBegin =< b
    /\ \A j \in 1 .. Len(fb_list) : j < idx => FileEnd(fb_list[j]) =< b
    /\ \A j \in 1 .. Len(fb_list) : idx =< j => b =< fb_list[j].start

\* The place pack_disk moves the item at idx to.
PackBase == at + left - Blocks(fb_list[idx])

PackInv ==
    /\ pc = "pack" => idx \in Nat \ {0} /\ PackedUpTo(at)
    /\ pc = "packcopy" =>
          /\ idx \in 1 .. Len(fb_list)
          /\ at \in Nat /\ left \in Nat
          /\ PackedUpTo(PackBase)
          /\ InPrimary(PackBase) <=> InPrimary(fb_list[idx].start)

LayoutIInv ==
    /\ dlist \in Seq(ItemType) /\ fb_list \in Seq(ItemType)
    /\ queue \in QueueType
    /\ LayoutInv
    /\ ReqOK
    /\ Storing => req.name \in NamesOf(fb_list)
    /\ PackInv

-----------------------------------------------------------------------------
(***************************************************************************)
(* An inductive invariant that implies WritesAside and MarksOK.            *)
(***************************************************************************)

\* The files a command does not name stand in its list as they are committed.
BystandersListed ==
    pc = "alloc" \/ Storing =>
        /\ req.name \in goal.writes
        /\ \A k \in 1 .. Len(queue) : queue[k].name \in goal.writes
        /\ \A i \in 1 .. Len(dlist) :
              dlist[i].name \notin goal.writes =>
                  \E j \in 1 .. Len(fb_list) : fb_list[j] = dlist[i]

\* The old file fits in the new one it is copied to.
CopyFits ==
    pc \in {"alloc", "copy", "tail"} => req.oldSize \in Nat /\ req.oldSize =< req.size

\* A transfer has not left the blocks of its file, nor will the rest of it.
TransferInside ==
    /\ at \in Nat /\ left \in Nat
    /\ Storing => Target.size = req.size
    /\ pc = "save" => /\ Target.start =< at
                      /\ at + CeilDiv(left, BlockOf(Target.start)) =< FileEnd(Target)
    /\ pc \in {"copy", "fill"} => Target.start =< at /\ at + left =< FileEnd(Target)
    /\ pc = "tail" => at = Target.start + OldWhole

TransferIInv ==
    /\ LayoutIInv /\ MarksOK
    /\ BystandersListed /\ CopyFits /\ TransferInside
    /\ pc = "idle" => queue = <<>>
    /\ pc \in {"pack", "packcopy"} => NamesOf(dlist) \subseteq goal.writes

=============================================================================
