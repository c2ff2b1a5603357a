-------------------------------- MODULE WeeFind --------------------------------
(***************************************************************************)
(* The find command of grubutils/wee and the buffer of partition lists it  *)
(* shares with root and map (builtins.c, asm.S).                           *)
(*                                                                         *)
(* find walks over PART_TABLE_BUF, the one list of partitions that is      *)
(* buffered, while it opens partitions, tries the file and runs a nested   *)
(* command.  A step is a turn of its loops; between two commands the user  *)
(* sets the root, maps drives, or changes the medium of a removable drive. *)
(***************************************************************************)
EXTENDS Integers, Sequences

CONSTANTS Hard, Floppy,  \* the drives the BIOS has, in their order
          Removable,     \* drives whose medium the user changes
          Media,         \* media each drive may have
          Commands,      \* nested commands
          RootParts,     \* numbers the root command is given
          DriveMaps,     \* what drives show which disks once a map is hooked
          Build127,      \* wee127: map leaves PART_TABLE_BUF alone
          MaxChanges, MaxFaults

\* A medium has the entries of its partition list, the places that have a file
\* system, and those whose file system has the file.
Whole == 255
WholeDrive == [num |-> Whole, type |-> "data", active |-> FALSE, at |-> 0]
ListOf(medium) == <<WholeDrive>> \o medium.entries

\* The number 0xFFFF ends a list.
End == [num |-> 65535, type |-> "empty", active |-> FALSE, at |-> 0]

EntryType == [num : Nat, type : {"data", "ext", "empty"}, active : BOOLEAN, at : Nat]

Drives == {Hard[k] : k \in DOMAIN Hard} \union {Floppy[k] : k \in DOMAIN Floppy}
IsFloppy(d) == \E k \in DOMAIN Floppy : Floppy[k] = d

NoDrive == "none"

\* Without a hooked map each drive shows its own disk.
NoMap == [d \in Drives |-> d]

ASSUME WeeFindAssumption ==
    /\ Hard \in Seq(Drives) \ {<<>>} /\ Floppy \in Seq(Drives) /\ NoDrive \notin Drives
    /\ Removable \subseteq Drives /\ Build127 \in BOOLEAN
    /\ DriveMaps \subseteq [Drives -> Drives]
    /\ \A c \in Commands : c.kind = "root" => c.drive \in Drives
    /\ \A d \in Drives : \A m \in Media[d] : m.files \subseteq m.fs
    /\ MaxChanges \in Nat /\ MaxFaults \in Nat

\* list_partitions gives no number twice, partitions count from 0 to 127 with those of
\* the first table before the others, and neither Whole nor End is among them.
IsList(entries) ==
    /\ \A j, k \in DOMAIN entries : entries[j].num = entries[k].num => j = k
    /\ \A k \in DOMAIN entries : entries[k].type = "data" => entries[k].num \in 0 .. 127
    /\ \A j, k \in DOMAIN entries : j < k /\ entries[j].num \in 4 .. 127 => entries[k].num \notin 0 .. 3
    /\ \A k \in DOMAIN entries : entries[k].num \notin {Whole, End.num}

ASSUME MediaAssumption ==
    \A d \in Drives : \A m \in Media[d] : m.entries \in Seq(EntryType) /\ IsList(m.entries)

VARIABLES medium,        \* the medium each drive has
          hooked,        \* hooked_drive_map: the drive whose disk each drive shows
          table,         \* PART_TABLE_BUF: the drive, and the memory of the lists; and
                         \* (history) whether a failed read, a new medium or a map that
                         \* keeps it spoiled it
          current,       \* current_drive, current_partition
          saved,         \* saved_drive, saved_partition: the root
          opt,           \* options of find
          tmp,           \* saved before find
          drive, i,      \* the loops: place in the order of drives, and pi[i]
          got,           \* got_file
          shown,         \* what find printed
          pc,            \* "idle", "drive", "entry", "command", "found"
          changes, faults,
          trusted        \* history: the buffered list was not spoiled when find began, no
                         \* read failed since and no nested command used the buffer

vars == <<medium, hooked, table, current, saved, opt, tmp, drive, i, got, shown, pc, changes,
          faults, trusted>>
disks == <<medium, hooked>>
loop == <<opt, tmp, drive, i, got, shown, trusted>>

NoOptions == [setroot |-> FALSE, active |-> FALSE, name |-> FALSE, floppies |-> FALSE,
              command |-> [kind |-> "yes"]]
Options == [setroot : BOOLEAN, active : BOOLEAN, name : BOOLEAN, floppies : BOOLEAN,
            command : Commands]

-----------------------------------------------------------------------------
(***************************************************************************)
(* list_partitions and open_partition.                                     *)
(***************************************************************************)

\* A list is written over the one before it and does not erase the rest of it.
Over(list, memory) == list \o <<End>> \o SubSeq(memory, Len(list) + 2, Len(memory))

\* What a drive shows.
Disk(d) == medium[hooked[d]]

\* The list of a drive, or with a read that fails what comes before the table.
Readable(d) ==
    {ListOf(Disk(d))} \union (IF faults < MaxFaults THEN {<<WholeDrive>>} ELSE {})

\* A list that a failed read ended counts as buffered all the same.
ListPartitions(d) ==
    IF table.drive = d THEN UNCHANGED <<table, faults>>
    ELSE \E list \in Readable(d) :
            /\ table' = [drive |-> d, list |-> Over(list, table.list),
                         spoiled |-> list # ListOf(Disk(d))]
            /\ faults' = faults + (IF list = ListOf(Disk(d)) THEN 0 ELSE 1)

\* The first entry of the list with a number.
Ends(list) == {k \in DOMAIN list : list[k] = End}
Length(list) == (CHOOSE k \in Ends(list) : \A j \in Ends(list) : k =< j) - 1
LastOf(list) == list[Length(list)]
With(list, num) == {k \in 1 .. Length(list) : list[k].num = num}
EntryWith(list, num) == list[CHOOSE k \in With(list, num) : \A j \in With(list, num) : k =< j]

-----------------------------------------------------------------------------
(***************************************************************************)
(* Commands between two finds.                                             *)
(***************************************************************************)

\* root (d,num): a partition without a known file system is accepted.  A search
\* that fails leaves current_partition at the last entry it looked at.
SetRoot(d, num) ==
    /\ ListPartitions(d)
    /\ IF With(table'.list, num) # {}
       THEN current' = [drive |-> d, part |-> num] /\ saved' = current'
       ELSE /\ current' = [drive |-> d, part |-> LastOf(table'.list).num]
            /\ UNCHANGED saved

Root(d, num) ==
    /\ pc = "idle" /\ SetRoot(d, num)
    /\ UNCHANGED <<loop, disks, pc, changes>>

\* A list that is kept while its drive comes to show another disk.
Kept(map) ==
    [table EXCEPT !.spoiled = @ \/ (table.drive # NoDrive /\ map[table.drive] # hooked[table.drive])]

\* Mutated: the partition list stays.
Hook_KeepTable(map) == hooked' = map /\ table' = table

\* map --hook: what was hooked is replaced by the table of maps the user has made.
Hook(map) ==
    /\ hooked' = map
    /\ table' = IF Build127 THEN Kept(map) ELSE [table EXCEPT !.drive = NoDrive, !.spoiled = FALSE]

\* With an empty table what was hooked is taken away all the same; map returns an error
\* and forgets nothing.
HookNothing ==
    /\ hooked' = NoMap
    /\ table' = Kept(NoMap)

\* map for some drives, then map --hook; or map --unhook.
Map(map) ==
    /\ pc = "idle" /\ changes < MaxChanges
    /\ Hook(map)
    /\ changes' = changes + 1
    /\ UNCHANGED <<loop, medium, current, saved, pc, faults>>

MapFails ==
    /\ pc = "idle" /\ HookNothing
    /\ UNCHANGED <<loop, medium, current, saved, pc, changes, faults>>

\* The user changes the medium while the prompt waits.  The completion clears
\* buf_drive then, and nothing clears PART_TABLE_BUF.
ChangeMedium(d) ==
    /\ pc = "idle" /\ changes < MaxChanges
    /\ \E m \in Media[d] : medium' = [medium EXCEPT ![d] = m]
    /\ table' = [table EXCEPT !.spoiled = @ \/ (table.drive # NoDrive /\ hooked[table.drive] = d)]
    /\ changes' = changes + 1
    /\ UNCHANGED <<loop, hooked, current, saved, pc, faults>>

-----------------------------------------------------------------------------
(***************************************************************************)
(* find: the loop over the drives.                                         *)
(***************************************************************************)

\* Hard disks come first, since floppies are slow.
Order == IF opt.floppies THEN Hard \o Floppy ELSE Hard
Drive == Order[drive]

StartFind(o) ==
    /\ pc = "idle"
    /\ opt' = o /\ tmp' = saved
    /\ current' = [drive |-> saved.drive, part |-> Whole]
    /\ drive' = 1 /\ i' = 1 /\ got' = FALSE /\ shown' = {}
    /\ pc' = "drive"
    /\ trusted' = ~table.spoiled
    /\ UNCHANGED <<disks, table, saved, changes, faults>>

OpenDrive ==
    /\ pc = "drive" /\ drive =< Len(Order)
    /\ ListPartitions(Drive)
    /\ current' = [current EXCEPT !.drive = Drive]
    /\ i' = 1 /\ pc' = "entry"
    /\ trusted' = (trusted /\ faults' = faults)
    /\ UNCHANGED <<disks, saved, opt, tmp, drive, got, shown, changes>>

\* After the last entry, or with --active after the last primary partition.
EndOfDrive ==
    table.list[i] # End => opt.active /\ table.list[i].num \in 4 .. 127

\* Mutated: the same drive again.
DriveDone_Again ==
    /\ pc = "entry" /\ EndOfDrive
    /\ pc' = IF got /\ opt.setroot THEN "found" ELSE "drive"
    /\ UNCHANGED <<disks, table, current, saved, opt, tmp, drive, i, got, shown, changes, faults, trusted>>

DriveDone ==
    /\ pc = "entry" /\ EndOfDrive
    /\ IF got /\ opt.setroot
       THEN pc' = "found" /\ UNCHANGED drive
       ELSE pc' = "drive" /\ drive' = drive + 1
    /\ UNCHANGED <<disks, table, current, saved, opt, tmp, i, got, shown, changes, faults, trusted>>

AllDrives ==
    /\ pc = "drive" /\ drive > Len(Order)
    /\ pc' = "found"
    /\ UNCHANGED <<loop, disks, table, current, saved, changes, faults>>

-----------------------------------------------------------------------------
(***************************************************************************)
(* find: the loop over the entries.                                        *)
(***************************************************************************)

Entry == table.list[i]
IsSearched == Entry.type = "data" /\ (opt.active => Entry.active)

SkipEntry ==
    /\ pc = "entry" /\ ~EndOfDrive /\ ~IsSearched
    /\ i' = i + 1
    /\ UNCHANGED <<disks, table, current, saved, opt, tmp, drive, got, shown, pc, changes, faults, trusted>>

\* open_device lists the partitions again if the buffer is not the drive's, looks the
\* number up in the list and then, as grub_open does, reads the medium the drive shows
\* now.  The root follows the partitions that open.
IsListed == With(table'.list, Entry.num) # {}
Place == EntryWith(table'.list, Entry.num).at
Opens == opt.name => IsListed /\ Place \in Disk(current.drive).fs
HasFile == opt.name => IsListed /\ Place \in Disk(current.drive).files

TryEntry ==
    /\ pc = "entry" /\ ~EndOfDrive /\ IsSearched
    /\ IF opt.name THEN ListPartitions(current.drive) ELSE UNCHANGED <<table, faults>>
    /\ current' = [current EXCEPT !.part = IF opt.name => IsListed THEN Entry.num
                                           ELSE LastOf(table'.list).num]
    /\ saved' = IF Opens THEN current' ELSE saved
    /\ IF HasFile THEN pc' = "command" /\ UNCHANGED i ELSE i' = i + 1 /\ UNCHANGED pc
    /\ UNCHANGED <<disks, opt, tmp, drive, got, shown, changes, trusted>>

\* With --set-root any match but a whole hard disk stops the search.
Stop(num) == opt.setroot /\ (IsFloppy(Drive) \/ num # Whole)

\* What is printed is read from the list again, after the command.
Report(num) ==
    /\ got' = TRUE
    /\ shown' = shown \union {[drive |-> Drive, num |-> num]}
    /\ IF Stop(num) THEN pc' = "found" /\ UNCHANGED i ELSE pc' = "entry" /\ i' = i + 1

Reject == pc' = "entry" /\ i' = i + 1 /\ UNCHANGED <<got, shown>>

RunCommand ==
    /\ pc = "command" /\ opt.command.kind \in {"yes", "no"}
    /\ IF opt.command.kind = "yes" THEN Report(Entry.num) ELSE Reject
    /\ UNCHANGED <<disks, table, current, saved, opt, tmp, drive, changes, faults, trusted>>

\* The nested command is root: it lists another drive into the same buffer.
RunRoot ==
    /\ pc = "command" /\ opt.command.kind = "root"
    /\ SetRoot(opt.command.drive, opt.command.num)
    /\ IF saved' = current' THEN Report(table'.list[i].num) ELSE Reject
    /\ trusted' = FALSE
    /\ UNCHANGED <<disks, opt, tmp, drive, changes>>

\* The nested command is map --hook, with maps in the table or none.
RunHook ==
    /\ pc = "command" /\ opt.command.kind = "hook"
    /\ \/ (\E map \in DriveMaps : Hook(map)) /\ Report(Entry.num)
       \/ HookNothing /\ Reject
    /\ trusted' = FALSE
    /\ UNCHANGED <<medium, current, saved, opt, tmp, drive, changes, faults>>

-----------------------------------------------------------------------------
\* The locals of find_func are gone.
Leave == /\ opt' = NoOptions /\ tmp' = saved' /\ drive' = 1 /\ i' = 1
          /\ got' = FALSE /\ shown' = {} /\ trusted' = TRUE

\* Mutated: the root is left where the search ended.
Finish_KeepRoot ==
    /\ pc = "found"
    /\ pc' = "idle" /\ saved' = saved /\ Leave
    /\ UNCHANGED <<disks, table, current, changes, faults>>

Finish ==
    /\ pc = "found"
    /\ saved' = IF got /\ opt.setroot THEN current ELSE tmp
    /\ pc' = "idle" /\ Leave
    /\ UNCHANGED <<disks, table, current, changes, faults>>

Init ==
    /\ medium \in {m \in [Drives -> UNION {Media[d] : d \in Drives}] :
                    \A d \in Drives : m[d] \in Media[d]}
    /\ hooked = NoMap
    /\ table = [drive |-> NoDrive, list |-> <<End>>, spoiled |-> FALSE]
    /\ current = [drive |-> Hard[1], part |-> Whole]
    /\ saved = current /\ tmp = current
    /\ opt = NoOptions
    /\ drive = 1 /\ i = 1 /\ got = FALSE /\ shown = {}
    /\ pc = "idle" /\ changes = 0 /\ faults = 0 /\ trusted = TRUE

FindStep ==
    \/ OpenDrive \/ DriveDone \/ AllDrives \/ SkipEntry \/ TryEntry
    \/ RunCommand \/ RunRoot \/ RunHook \/ Finish

Next ==
    \/ FindStep
    \/ \E o \in Options : StartFind(o)
    \/ \E d \in Drives, num \in RootParts : Root(d, num)
    \/ \E map \in DriveMaps \union {NoMap} : Map(map)
    \/ MapFails
    \/ \E d \in Removable : ChangeMedium(d)

\* One command runs at a time, to its end.
Spec == Init /\ [][Next]_vars /\ WF_vars(FindStep)

-----------------------------------------------------------------------------
(***************************************************************************)
(* Properties.                                                             *)
(***************************************************************************)

\* The type invariant.
TypeOK ==
    /\ hooked \in [Drives -> Drives]
    /\ table.drive \in Drives \union {NoDrive}
    /\ current.drive \in Drives /\ saved.drive \in Drives
    /\ opt \in Options \union {NoOptions}
    /\ drive \in 1 .. Len(Order) + 1
    /\ pc \in {"idle", "drive", "entry", "command", "found"}
    /\ i \in DOMAIN table.list
    /\ got <=> shown # {}

\* The partitions that have what find looks for, as the drives are now.
Wanted(d) ==
    {e \in {ListOf(Disk(d))[k] : k \in DOMAIN ListOf(Disk(d))} :
        /\ e.type = "data"
        /\ opt.active => e.active /\ e.num < 4
        /\ opt.name => e.at \in Disk(d).files}

SearchEnds == pc = "found"
Searched == {Order[k] : k \in DOMAIN Order}

\* "Search for the filename ARG in all of partitions" (grubutils/wee/builtins.c:4122):
\* at the end of a search find has printed the partitions with the file and no
\* others, whatever was mapped, searched or made root before; it must not have begun with
\* a spoiled list (of a failed read, of a medium that is gone, or kept by a map --hook
\* that failed), lost a read or run a root or map command.
FindsAll ==
    trusted /\ SearchEnds /\ ~opt.setroot /\ opt.command.kind # "no" =>
        shown = {[drive |-> d, num |-> n] : d \in Searched, n \in 0 .. Whole} \intersect
                UNION {{[drive |-> d, num |-> e.num] : e \in Wanted(d)} : d \in Searched}

\* "find the partition containing ntldr and boot the bootsector / find --set-root
\* /ntldr" (grubutils/wee/README.txt:89): the root find sets has the file, on the
\* first drive that has it, unless the file is on a hard disk as a whole that has
\* partitions too.
IsHybrid(d) == 0 \in Disk(d).files /\ Disk(d).entries # <<>>

RootHasFile ==
    trusted /\ (~ \E d \in Drives : IsHybrid(d)) /\ SearchEnds /\ opt.setroot /\ got =>
        /\ \E e \in Wanted(current.drive) : e.num = current.part
        /\ \A k \in DOMAIN Order : Wanted(Order[k]) # {} =>
              \E j \in 1 .. k : Order[j] = current.drive

\* The invariant of find: the types, and what a search has printed and made root.
FindInv == TypeOK /\ FindsAll /\ RootHasFile

\* A find that finds nothing, or does not set the root, leaves the root alone,
\* although each partition it opens was made the root for a while.
RootRestored ==
    [][pc = "found" /\ ~(got /\ opt.setroot) => saved' = tmp]_vars

\* find ends.
FindEnds == [](pc # "idle" => <>(pc = "idle"))
=============================================================================
