----------------------------- MODULE FileStore ------------------------------
(***************************************************************************)
(* What fbinst promises about the files of a disk, whatever their layout.  *)
(*                                                                         *)
(* The disk is a map from names to contents.  A command fixes, when it     *)
(* starts, the map it will commit.  Until then an interruption (a crash,   *)
(* an I/O error, a command that gives up) leaves the old map, except that  *)
(* the contents of the files the command was writing may be lost.          *)
(***************************************************************************)
EXTENDS Integers, SequencesExt

CONSTANTS Names,    \* file names
          Datas,    \* contents a file can be given: non-empty sequences of bytes
          Sizes,    \* sizes a resize can ask for
          Archives, \* archives: sequences of [name, data, ext, sys] records
          Filler,   \* the fill byte of resize
          Term,     \* the byte that ends a menu file
          Lba       \* the bytes of a syslinux file that say where it lies

VARIABLES store,    \* the committed files: a function from some names to contents
          goal      \* the command under way, or how the last one ended

vars == <<store, goal>>

\* The phase "done" says that the last command committed its map.
NoGoal == [phase |-> "none", writes |-> {}, want |-> <<>>]
Achieved == [NoGoal EXCEPT !.phase = "done"]

\* A command that may damage the files it writes, and ends with the map want.
Goal(writes, want) == [phase |-> "busy", writes |-> writes, want |-> want]

Busy == goal.phase = "busy"

-----------------------------------------------------------------------------
(***************************************************************************)
(* The maps the commands commit, given the map f they start from.          *)
(***************************************************************************)

Put(f, name, data) ==
    [n \in DOMAIN f \union {name} |-> IF n = name THEN data ELSE f[n]]

Drop(f, name) == [n \in DOMAIN f \ {name} |-> f[n]]

\* A menu file keeps its items and loses its terminator when items are appended.
Appended(f, name, items) ==
    Put(f, name, IF name \in DOMAIN f THEN Front(f[name]) \o items ELSE items)

Padding(n) == [i \in 1 .. n |-> Filler]

Resized(f, name, size) ==
    LET old == IF name \in DOMAIN f THEN f[name] ELSE <<>>
    IN  Put(f, name, IF size =< Len(old) THEN SubSeq(old, 1, size)
                     ELSE old \o Padding(size - Len(old)))

Moved(f, old, new) == Put(Drop(f, old), new, f[old])

\* A syslinux file is told where it lies, in its first block.
Patched(data, sys) == IF sys THEN [data EXCEPT ![1] = Lba] ELSE data

(* Of two items of one name an archive loads the second over the first. *)
Loaded(f, archive) ==
    LET entries(n) == {i \in DOMAIN archive : archive[i].name = n}
        last(n) == archive[CHOOSE i \in entries(n) : \A j \in entries(n) : j =< i]
    IN  [n \in DOMAIN f \union {archive[i].name : i \in DOMAIN archive} |->
            IF entries(n) = {} THEN f[n] ELSE Patched(last(n).data, last(n).sys)]

-----------------------------------------------------------------------------
Init == store = <<>> /\ goal = NoGoal

Start(writes, want) ==
    /\ ~Busy
    /\ goal' = Goal(writes, want)
    /\ UNCHANGED store

AddFile ==
    \E name \in Names, data \in Datas, sys \in BOOLEAN :
        Start({name}, Put(store, name, Patched(data, sys)))

AddMenu ==
    \E name \in Names, data \in Datas :
        Start({name}, Appended(store, name, Append(data, Term)))

NewMenu ==
    \E name \in Names, data \in Datas :
        Start({name}, Put(store, name, Append(data, Term)))

\* A file that shrinks keeps its blocks: nothing of it is written.
ResizeFile ==
    \E name \in Names, size \in Sizes :
        Start(IF name \in DOMAIN store /\ size =< Len(store[name]) THEN {} ELSE {name},
              Resized(store, name, size))

CopyFile ==
    \E old \in DOMAIN store : \E new \in Names \ {old} :
        Start({new}, Put(store, new, store[old]))

MoveFile ==
    \E old \in DOMAIN store : \E new \in Names \ {old} :
        Start({}, Moved(store, old, new))

RemoveFile == \E name \in DOMAIN store : Start({}, Drop(store, name))

ClearFiles == Start({}, <<>>)

\* Packing moves every file: all of them are at risk until it commits.
PackDisk == Start(DOMAIN store, store)

LoadArchive ==
    \E archive \in Archives :
        Start({archive[i].name : i \in DOMAIN archive}, Loaded(store, archive))

\* The files a command writes may change, the others may not.
Damaged ==
    /\ DOMAIN store' = DOMAIN store
    /\ \A n \in DOMAIN store \ goal.writes : store'[n] = store[n]

Write == Busy /\ Damaged /\ UNCHANGED goal

Commit == Busy /\ store' = goal.want /\ goal' = Achieved

Abort == Busy /\ Damaged /\ goal' = NoGoal

Next ==
    \/ AddFile \/ AddMenu \/ NewMenu \/ ResizeFile \/ CopyFile \/ MoveFile
    \/ RemoveFile \/ ClearFiles \/ PackDisk \/ LoadArchive
    \/ Write \/ Commit \/ Abort

Spec == Init /\ [][Next]_vars
=============================================================================
