------------------------------- MODULE FbList -------------------------------
(***************************************************************************)
(* The bytes of the file list of an fbinst disk (grubutils/fbinst/         *)
(* fbinst.c: read_header, del_file, alloc_file, move_file, write_header).  *)
(*                                                                         *)
(* The list is a chain of items of different lengths in a fixed number of  *)
(* sectors.  The first byte of an item says where the next one begins, a   *)
(* zero ends the chain.  A command edits the chain in memory by moving the *)
(* bytes behind an item up or down, then write_header writes list_used,    *)
(* the number of sectors the boot code is to load, and after it the list,  *)
(* sector by sector; a run may end between any two of these writes.        *)
(*                                                                         *)
(* FbStore has the same edits on a sequence of items, commits it in one    *)
(* step and decides in which gap an item goes; here it may go in any gap.  *)
(***************************************************************************)
EXTENDS Integers, SequencesExt

CONSTANTS Names,        \* file names
          ItemBytes,    \* bytes of the item of each name
          Sectors,      \* fb_list_sectors
          SectorBytes,  \* bytes of the list in one sector (510)
          Copying,      \* what memcpy may do with regions that overlap
          MaxCmds       \* bound on the commands of a behaviour

ASSUME ListAssumption ==
    /\ ItemBytes \in [Names -> Nat \ 0 .. 2]
    /\ Sectors \in Nat \ {0} /\ SectorBytes \in Nat \ {0}
    /\ Copying # {} /\ Copying \subseteq {"whole", "up", "down"}
    /\ MaxCmds \in Nat

VARIABLES disk,     \* the sectors of the list, without their marks
          used,     \* list_used, in the header
          fb_list,  \* the list in memory
          tail,     \* fb_list_tail: where its terminator is
          pc,       \* what the running command does next
          cur,      \* the list sector it writes next
          ncmd,
          list,     \* history: the names of the committed list
          mem,      \* history: those of the list in memory, or last in memory
          done,     \* history: whether the last command has committed its list
          torn      \* history: whether the last one committed a part of it

memory == <<fb_list, tail, pc, cur>>
vars == <<disk, used, memory, ncmd, list, mem, done, torn>>

-----------------------------------------------------------------------------
(***************************************************************************)
(* Bytes.  A byte has the number a walk along the list reads, and says     *)
(* which byte of which item it is.                                         *)
(***************************************************************************)

Size == Sectors * SectorBytes
Zero == [number |-> 0, of |-> "none", at |-> 0]

ItemOf(name) ==
    [k \in 1 .. ItemBytes[name] |->
        [number |-> IF k = 1 THEN ItemBytes[name] - 2 ELSE 1, of |-> name, at |-> k]]

\* The bytes of a list of names, with zeros to the end of its last sector.
Bytes(names) == FlattenSeq([i \in 1 .. Len(names) |-> ItemOf(names[i])])
Encoded(names) ==
    [k \in 0 .. Size - 1 |-> IF k < Len(Bytes(names)) THEN Bytes(names)[k + 1] ELSE Zero]

\* The list as remove_mark joins it.
OnDisk == [k \in 0 .. Size - 1 |-> disk[k \div SectorBytes][k % SectorBytes]]

\* Where the items of list b begin, and where a walk along it ends.
Walk(b) ==
    LET from[ofs \in Nat] ==
            IF ofs < Size /\ b[ofs].number # 0
            THEN <<ofs>> \o from[ofs + b[ofs].number + 2] ELSE <<>>
    IN  from[0]

WalkEnd(b) ==
    IF Walk(b) = <<>> THEN 0 ELSE Last(Walk(b)) + b[Last(Walk(b))].number + 2

\* find_file compares the name, which starts at a fixed place of the item.
Offsets(b, name) == {ofs \in ToSet(Walk(b)) : b[ofs + 1] = ItemOf(name)[2]}

-----------------------------------------------------------------------------
(***************************************************************************)
(* memcpy of n bytes from src to dst in buffer b.  Regions that overlap    *)
(* are copied as a whole, upwards or downwards.                            *)
(***************************************************************************)

Memcpy(b, dst, src, n, how) ==
    [k \in DOMAIN b |->
        IF k \notin dst .. dst + n - 1 THEN b[k]
        ELSE IF how = "up" /\ src < dst THEN b[src + ((k - dst) % (dst - src))]
        ELSE IF how = "down" /\ dst < src
             THEN b[src + n - 1 - ((dst + n - 1 - k) % (src - dst))]
        ELSE b[src + k - dst]]

Put(b, ofs, bytes) ==
    [k \in DOMAIN b |-> IF k \in ofs .. ofs + Len(bytes) - 1 THEN bytes[k - ofs + 1] ELSE b[k]]

-----------------------------------------------------------------------------
(***************************************************************************)
(* The edits.  Each yields the buffer and its tail.                        *)
(***************************************************************************)

\* Mutated: leaves the old bytes behind the new tail.
Deleted_NoZero(b, t, name, how) ==
    IF Offsets(b, name) = {} THEN <<b, t>>
    ELSE LET p == CHOOSE ofs \in Offsets(b, name) : TRUE
             len == b[p].number + 2
         IN  <<Memcpy(b, p, p + len, t - (p + len), how), t - len>>

\* del_file
Deleted(b, t, name, how) ==
    IF Offsets(b, name) = {} THEN <<b, t>>
    ELSE LET p == CHOOSE ofs \in Offsets(b, name) : TRUE
             len == b[p].number + 2
         IN  <<[Memcpy(b, p, p + len, t - (p + len), how) EXCEPT ![t - len] = Zero], t - len>>

\* alloc_file after del_file; the byte at the new tail is not written.
Inserted(b, t, ofs, name, how) ==
    <<Put(Memcpy(b, ofs + ItemBytes[name], ofs, t - ofs, how), ofs, ItemOf(name)),
      t + ItemBytes[name]>>

\* move_file after del_file: the item at p takes another name.
Renamed(b, t, p, name, how) ==
    LET old == b[p].number + 2
        new == ItemBytes[name]
        moved == Memcpy(b, p + new, p + old, t - (p + old), how)
        end == t + new - old
    IN  <<Put(IF new = old THEN b ELSE [moved EXCEPT ![end] = Zero], p, ItemOf(name)), end>>

Room(t, name) == t + ItemBytes[name] < Size

NamesWithout(names, name) == RemoveFirst(names, name)

-----------------------------------------------------------------------------
(***************************************************************************)
(* The steps of a command.                                                 *)
(***************************************************************************)

\* read_header; a list that was committed in part is followed no further.
ReadHeader ==
    /\ pc = "idle" /\ ~torn
    /\ ncmd < MaxCmds
    /\ WalkEnd(OnDisk) < Size
    /\ fb_list' = OnDisk /\ tail' = WalkEnd(OnDisk)
    /\ mem' = list
    /\ pc' = "ready" /\ ncmd' = ncmd + 1 /\ done' = FALSE
    /\ UNCHANGED <<disk, used, cur, list, torn>>

Edited(result, names, next) ==
    /\ fb_list' = result[1] /\ tail' = result[2]
    /\ mem' = names
    /\ pc' = next
    /\ UNCHANGED <<disk, used, cur, ncmd, list, done, torn>>

\* add, copy and resize allocate one file, load one after the other.
AllocFile(name, how) ==
    /\ pc \in {"ready", "adding"}
    /\ LET deleted == Deleted(fb_list, tail, name, how)
           names == NamesWithout(mem, name)
           gaps == Append(Walk(deleted[1]), deleted[2])
       IN  /\ Room(deleted[2], name)
           /\ \E i \in 1 .. IF Len(names) < Len(gaps) THEN Len(names) + 1 ELSE Len(gaps) :
                 Edited(Inserted(deleted[1], deleted[2], gaps[i], name, how),
                        InsertAt(names, i, name), "adding")

RemoveFile(name, how) ==
    /\ pc = "ready"
    /\ Offsets(fb_list, name) # {}
    /\ Edited(Deleted(fb_list, tail, name, how), NamesWithout(mem, name), "commit")

MoveFile(old, new, how) ==
    LET deleted == Deleted(fb_list, tail, new, how)
        found == Offsets(deleted[1], old)
        p == CHOOSE ofs \in found : TRUE
        names == NamesWithout(mem, new)
    IN  /\ pc = "ready"
        /\ old # new /\ found # {}
        /\ Room(deleted[2] - (deleted[1][p].number + 2), new)
        /\ Edited(Renamed(deleted[1], deleted[2], p, new, how),
                  ReplaceAll(names, old, new), "commit")

ClearMenu ==
    /\ pc = "ready"
    /\ Edited(<<[fb_list EXCEPT ![0] = Zero], 0>>, <<>>, "commit")

\* add_mark; commands that keep the chain as it is come here at once.
AddMark ==
    /\ pc \in {"ready", "adding", "commit"}
    /\ fb_list' = [k \in 0 .. Size - 1 |-> IF k < tail THEN fb_list[k] ELSE Zero]
    /\ pc' = "used"
    /\ UNCHANGED <<disk, used, tail, cur, ncmd, list, mem, done, torn>>

\* Mutated: leaves out the sector the terminator is in.
ListUsed_NoTerm == (tail + SectorBytes - 1) \div SectorBytes

ListUsed == tail \div SectorBytes + 1

WriteUsed ==
    /\ pc = "used"
    /\ used' = ListUsed
    /\ cur' = 0 /\ pc' = "list"
    /\ UNCHANGED <<disk, fb_list, tail, ncmd, list, mem, done, torn>>

\* Mutated: writes each sector one place too far.
SectorAt_Next(sector) == (sector + 1) % Sectors

SectorAt(sector) == sector

\* Mutated: stops before the last sector.
LastSector_Short == Sectors - 2

LastSector == Sectors - 1

WriteList ==
    /\ pc = "list"
    /\ disk' = [disk EXCEPT ![SectorAt(cur)] =
                  [k \in 0 .. SectorBytes - 1 |-> fb_list[cur * SectorBytes + k]]]
    /\ cur' = cur + 1
    /\ IF cur < LastSector THEN UNCHANGED <<pc, list, done>>
       ELSE pc' = "idle" /\ list' = mem /\ done' = TRUE
    /\ UNCHANGED <<used, fb_list, tail, ncmd, mem, torn>>

Step ==
    \/ \E how \in Copying :
        \/ \E name \in Names : AllocFile(name, how) \/ RemoveFile(name, how)
        \/ \E old, new \in Names : MoveFile(old, new, how)
    \/ ClearMenu \/ AddMark \/ WriteUsed \/ WriteList

\* The run ends: an error or a crash.  What is on the disk then is the old list,
\* the new one, or a part of each.
Interrupt ==
    /\ pc # "idle"
    /\ pc' = "idle"
    /\ list' = IF pc = "list" /\ OnDisk = Encoded(mem) THEN mem ELSE list
    /\ torn' = (OnDisk \notin {Encoded(list), Encoded(mem)})
    /\ UNCHANGED <<disk, used, fb_list, tail, cur, ncmd, mem, done>>

Stop ==
    /\ pc = "idle"
    /\ ncmd = MaxCmds \/ torn \/ ~(WalkEnd(OnDisk) < Size)
    /\ UNCHANGED vars

\* A formatted disk.
Init ==
    /\ disk = [s \in 0 .. Sectors - 1 |-> [k \in 0 .. SectorBytes - 1 |-> Zero]]
    /\ used = 1
    /\ fb_list = Encoded(<<>>) /\ tail = 0 /\ pc = "idle" /\ cur = 0 /\ ncmd = 0
    /\ list = <<>> /\ mem = <<>> /\ done = FALSE /\ torn = FALSE

Next == ReadHeader \/ Step \/ Interrupt \/ Stop

Spec == Init /\ [][Next]_vars
-----------------------------------------------------------------------------
(***************************************************************************)
(* Properties.                                                             *)
(***************************************************************************)

\* Every variable has its type; the tail leaves a byte for the terminator.
TypeOK ==
    /\ DOMAIN disk = 0 .. Sectors - 1
    /\ used \in 1 .. Sectors
    /\ DOMAIN fb_list = 0 .. Size - 1 /\ tail \in 0 .. Size - 1
    /\ pc \in {"idle", "ready", "adding", "commit", "used", "list"}
    /\ cur \in 0 .. Sectors /\ ncmd \in 0 .. MaxCmds
    /\ list \in Seq(Names) /\ mem \in Seq(Names)

\* After every edit the buffer is the chain of the items it should hold, with a
\* terminator, although del_file leaves old bytes behind it and alloc_file writes
\* no terminator of its own.
BufferIsList ==
    pc # "idle" =>
        /\ tail = Len(Bytes(mem))
        /\ \A k \in 0 .. tail : fb_list[k] = Encoded(mem)[k]

\* The invariant of the buffer: the variables have their types, and what alloc_file,
\* del_file and move_file leave in the buffer is the list.
BufferInv == TypeOK /\ BufferIsList

\* What is committed is what was in memory: read_header finds the list of the
\* last command that reached the end, or of an interrupted one all of whose
\* changes had reached the disk.
ListCommitted == pc # "list" /\ ~torn => OnDisk = Encoded(list)

\* The sectors the boot code loads hold the whole list a command has committed,
\* with its terminator (fbmbr.S: load_data of list_used sectors).
BootSeesList == done => Len(Bytes(list)) < used * SectorBytes

\* An interrupted write_header loses no item before the first one that changed:
\* up to there the list is the same in every mixture of old and new sectors, and
\* the boot code loads it, although list_used is written before a list that shrinks:
\* a run that ends between two of these writes hides no item but those.
PrefixSurvives ==
    \A n \in 0 .. Len(list) :
        n =< Len(mem) /\ SubSeq(list, 1, n) = SubSeq(mem, 1, n) =>
            /\ pc = "list" => Len(Bytes(SubSeq(list, 1, n))) < used * SectorBytes
            /\ \A k \in 0 .. Len(Bytes(SubSeq(list, 1, n))) - 1 : OnDisk[k] = Encoded(list)[k]

\* The check of read_header, "invalid file list", never meets a list fbinst has
\* committed.
ListReadable == pc = "idle" /\ ~torn => WalkEnd(OnDisk) < Size
=============================================================================
