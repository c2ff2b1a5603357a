# A TLA+ model of grubutils

The repository holds the tools around grub4dos: disk tools that run under an
operating system and the boot loader wee (`grubutils/`), commands that run
inside grub4dos (`g4dext/` for BIOS, `g4eext/` for EFI), boot records (`umbr/`,
parts of `grubutils/`) and patches for wimboot. This directory models the parts
of it that keep state across steps: what lies on a disk between two runs of a
tool, what a boot loader buffers between two commands, and how lines of
commands are evaluated.

## The system

Everything here is one thread on one machine. What makes it hard is not threads
but the disk: programs that know nothing of each other write to the same
sectors one after the other, a run can end between any two sectors, a sector
can fail or store something else, and what was read once is used long after.

### fbinst

fbinst keeps a small file store in the sectors of a USB disk that lie outside
every partition, so that a boot record can find a menu and boot files without a
file system (`grubutils/fbinst/`). One run of `fbinst DEVICE COMMAND` is one
process that opens the disk (or an archive file with the same structure), reads
the header and the file list, runs one command and writes the list back. Two
runs at once are not supported by the program and not modelled. The disk, from
sector 0 on:

| sectors | content | written by |
| --- | --- | --- |
| 0 .. boot_base | copies of the fb MBR, each with its own number and a partition table shifted by it | format, sync, update, restore |
| boot_base + 1 .. | second stage of the boot code; its first sector holds `fb_data` (sizes, `list_used`) | format, update, write_header |
| fb_list_start .. | the file list, 510 bytes per sector and a mark | write_header |
| .. fb_pri_size - 1 | primary area: files in blocks of 510 bytes and a mark | file commands |
| fb_pri_size .. fb_total_size - 1 | extended area: files in blocks of 512 bytes | file commands |

Nothing is journalled. Data blocks are written in place before the list that
refers to them, and the only thing that keeps committed files safe is that the
allocator never hands out their sectors. The list must stay sorted by place,
because the allocator and `pack` look only at the gaps between neighbours. Two
block sizes meet at the end of the primary area. And every primary sector
carries its own number, which the boot code and `check` rely on, through every
copy.

### The parts, their state and what makes them correct

| part | state and operations | hard behaviour | it is correct when | module |
| --- | --- | --- | --- | --- |
| fbinst: placement | none; `check_space`, `find_space` | a gap across the area boundary, two block sizes | a new file lies in a gap of the list, in one area | `FbLayout` |
| fbinst: file commands | data sectors, the transfer under way; `add`, `add-menu`, `resize`, `copy`, `move`, `remove`, `clear`, `pack`, `load` | an end between any two writes | a finished command does what it says to the map from names to contents; an interrupted one loses at most the files it names, `pack` aside | `FbStore`, `FileStore` |
| fbinst: list buffer | `fb_list`, `fb_list_tail`, `list_used`, the list on disk; the edits and `write_header` | lists cut at sector boundaries, a torn list | the buffer is the chain of its items, and what is committed can be read back, by fbinst and by the boot code | `FbList` |
| fbinst: MBR copies | sectors 0 .. boot_base; `format`, `sync`, `update`, `restore` | interrupted loops, other programs on the same sectors | whichever copy the BIOS takes for sector 0 asks for the right second stage; nothing short of taking all the copies `restore` looks at leaves a disk it cannot repair | `FbMbr` |
| fbinst: boot code | the geometry it found, `max_sec`, the registers of a read; how it reads, loads the second stage, the list and a file | a geometry guessed from sectors other programs may have written, reads that fail and shrink | where the sectors that tell the geometry are as fbinst wrote them, it loads the right sectors from any copy, or stops; elsewhere it may go on with a wrong geometry | `FbBoot` |
| common/xdio.c | the handle; `xd_enum` with its static buffer; used by fbinst and grubinst | chains of extended partitions, state kept between calls | every partition of a type it knows is found, under the number it has by convention | `XdEnum` |
| wee: disk access | the track buffer with `buf_drive`, `buf_track`; `rawread`, `devread`, `biosdisk` | buffer against writes, failures, changed media | a reader of bytes cannot tell that there is a buffer, but where a failed map left it stale | `WeeDisk`, `BlockDev` |
| wee: partition list | `PART_TABLE_BUF`, `current_partnum`; `list_partitions` | numbers in bytes, expansion of the list while it is walked | it ends on every disk, keeps to its buffer and has every partition | `WeeParts` |
| wee: find, root, map | the root, the current partition, the buffered list | find walks over the list while nested commands replace it | find prints the partitions with the file and restores the root | `WeeFind` |
| grubinst | boot track, save file; install, `--restore`, `--restore-prevmbr` | repeated and interrupted installations over anything | the partition table stays the disk's, the old boot record is never lost | `GrubInst` |
| weesetup | boot track; install, update, `--restorembr` | a disk that stores something else, rewinding | a failed installation puts the old track back | `WeeSetup` |
| umbr | four records in an MBR; its installer, the boot code | partial reads, failing sectors, a shared packet | the first record that is good boots, with all its sectors in memory | `Umbr` |
| wenv | frames of nested evaluations, `errnum`, `wenv_flags` | break through groups and loops, operators that skip | only the statements run that the operators ask for; break leaves one loop | `Wenv` |

How they meet: `XdEnum` and `WeeParts` walk the same partition tables
(`PartTable`) and are composed in `PartWalks`; `GrubInst` and `WeeSetup` write
the same boot track (`BootTrack`) as partition tools and other boot managers and
are composed in `Installers`; `FbStore` writes the list whose bytes are
`FbList`'s, and `FbMbr` the sectors in front of it; `FbBoot` boots from what
`FbMbr`'s commands, their interruptions and other programs left. `WeeFind` uses the list of
`WeeParts` as data, `WeeParts` reads what `WeeDisk` promises.

The remaining components - formatting of FAT, archive files, GUIs, file
systems of wee, hardware and drawing commands, vendored
code - are listed in `PROJECT.json` with the reason they are left out, and below
under "Not modelled".

## The modules

| module | what it is |
| --- | --- |
| `FbLayout` | the areas of the disk, blocks and items, and the placement arithmetic, with what a well-formed list is |
| `FileStore` | abstract specification of the file commands: a map from names to contents, commands that commit a new map, and what an interruption may lose |
| `FbStore` | the file commands on sectors and lists; implements `FileStore` |
| `FbList` | the bytes of the list: the edits of the buffer and the writes of `write_header` |
| `FbMbr` | the copies of the boot sector under the commands that write them and under other programs |
| `FbBoot` | the boot code on those copies: how it learns to read the disk, and how it loads |
| `BlockDev` | abstract specification of a disk: reads, writes, failures, partitions; no tracks, no buffer |
| `WeeDisk` | wee's `rawread`, `devread` and what invalidates the track buffer; implements `BlockDev` |
| `PartTable`, `SampleDisks` | partition tables on disks and the numbers partitions have by convention; disks to check with |
| `XdEnum`, `WeeParts`, `PartWalks` | the two walks over partition tables, and both on one disk |
| `WeeFind` | find, root and map over the buffered list of partitions |
| `BootTrack` | the boot track, partition tools and other boot managers |
| `GrubInst`, `WeeSetup`, `Installers` | the two installers, and all who write the track together |
| `Umbr` | the universal MBR: installer and boot code |
| `Wenv` | the evaluation of a line of commands |
| `MC...` | the sets and sizes of the instances TLC checks |
| `FbFilesProofs` | proofs about the file commands: placement, lists and sectors; contents and the refinement |
| `FbListProofs` | proofs about the bytes of the list |
| `FbMbrProofs` | proofs about the copies of the boot sector and the boot code on them |
| `WeeDiskProofs` | proofs about wee's track buffer |
| `PartitionProofs` | proofs about find, and about the two walks over partition tables |
| `InstallersProofs` | proofs about the boot track |
| `UmbrProofs`, `WenvProofs` | proofs about the universal MBR and about wenv |

### How FbStore corresponds to the code

| FbStore | fbinst.c |
| --- | --- |
| `disk` | the sectors of the data areas; a cell stands for one byte, the cells past `PriBlock` of a primary sector for its mark |
| `dlist` | the file list on disk |
| `fb_list` | the list in memory; a sequence of items instead of a byte buffer |
| `pc` | how far the running command has come |
| `req`, `queue` | the arguments of `save_file`, `save_buff`, `cpy_file`; the items `load_archive` still has to store |
| `at`, `from`, `left` | the cursors of `save_file_data`, `copy_disk`, `cpy_file`, and `b` of `pack_disk` |
| `idx` | `ofs` of `pack_disk`, as an index |
| `goal` | history variable of the refinement: which map the command is to commit and which files it may damage |

A command is one action for everything up to its first allocation or transfer,
one action per allocation, one per write call (`GLOB_BUF_SIZE` sectors), and
one for `write_header`. `Interrupt` ends the run at any of these points; inside
a write call, any prefix of its sectors may have reached the disk. `quit` for
lack of space drops the list in memory exactly as a crash does.

Byte contents are symbolic: a byte is "byte i of input x", the fill byte, the
menu terminator, a mark or a patched address. So a byte in the wrong place is
always seen, and no two different bytes compare equal. `syslinux_patch` is
reduced to one byte that names the sector after the file's first one; its
search for the signature is the action `PatchQuit` when the size or the area
rules the patch out. Names that differ in case or leading slashes are one
name.

`goal` has three phases: no command, a command under way with the map it wants
and the names it writes, and a command that has committed. An abort and a
commit are told apart, so that a command that ends normally with the wrong
contents cannot pass for one that was interrupted.

`FbStore` commits the list in one step; the order inside `write_header` and the
bytes of the list are those of `FbList`.

### How FbList corresponds to the code

| FbList | fbinst.c |
| --- | --- |
| `disk`, `used` | the sectors of the list without their marks; `list_used` in `fb_data` |
| `fb_list`, `tail` | `fb_list` after `remove_mark`, `fb_list_tail` |
| `pc` | after `read_header`, between allocations, before `add_mark`, before and inside the writes of `write_header` |
| `Memcpy` | `memcpy` of the C library (external); `Copying` says what it does with regions that overlap |
| `list`, `mem`, `done`, `torn` | history variables: the names on disk and in memory, and how the last run ended |

A byte has the number the walk along the list reads and says which byte of
which item it is, so a byte in the wrong place is seen. An item may go into any
gap of the list: which one `find_space` takes is the matter of `FbLayout`. A
list that an interruption left part new, part old is followed no further.

### How FbMbr corresponds to the code

| FbMbr | fbinst.c |
| --- | --- |
| `mbr` | sectors 0 .. `boot_base`; of each the signature, `lba`, the first sectors of its partitions, and the version of its boot code |
| `head` | the second stage, by its version |
| `buf`, `cur`, `last` | `global_buffer`, `i` and the end of the loop in `sync_mbr` and `update_header` |
| `marked` | how far the sectors behind the copies have their numbers at the end (`add_mark`, and the loop at fbinst.c:1193) |
| `done`, `gone` | history variables: the last command, until something else happens; the copies other programs took and no command has written since |

Every sector of a copy is a step of its own, as are the write of the second stage
(`FormatStage`) and each write of marks behind it (`FormatMarks`), and `Interrupt`
ends a run between any two. `Repartition` and `Overwrite` are other programs: a
partition tool that writes the table of sector 0, and a boot manager that takes
sectors 0 .. n and keeps the table, be it all copies.

`--base` is not checked (fbinst.c:961). With more than 255 copies `lba`, a byte,
cannot count them (`Lba`), so `StageFound` is about copies that can be counted; and
`restore_disk` looks at sectors 0 to 63 only (`DefBase`), so `Restorable` asks for
a copy among these that other programs left alone, and promises that it is found.

### How FbBoot corresponds to the code

| FbBoot | fbmbr.S |
| --- | --- |
| `bpc` | how far the boot code is: the LBA test and the first track (`start_7c00`), the second cylinder (`try_chs`), loading (`start_2000`), and how it ended; `lost` is a machine of which nothing is known |
| `byNumber` | `dh` = 0xff |
| `spt`, `heads`, `maxsec` | the variables of these names |
| `place`, `togo` | `cx`, `dh`, `bp` and `si` of `read_sectors` |
| `job` | which call of `load_data` runs: first sector of the second stage, its rest, the list, a file |
| `mem` | the sectors the job has loaded, each by its number on the disk |
| `bios`, `copy` | what the BIOS can do and which copy it takes for sector 0 (external) |

The geometry is not asked for: the boot code reads the first sector of the second
track and that of the second cylinder, and the numbers fbinst wrote into them
tell it how many sectors a track and how many heads a cylinder has. So a boot
depends on every copy and every mark in the primary area, also on those an
interrupted command or another program left. `calc_lba` takes the word at the end of
such a sector for its number, whatever it is, unless it is the signature of a boot
sector, and then `check_mbr` stops at one that is not fbinst's (`NotOurs`). A sector fbinst did not
write has any word of `Foreign` there (`EndWords`), and the boot goes on with the
geometry that comes of it (fbmbr.S:168-176): `FindSpt` and `FindHeads` end in `load`
with a wrong one, and the boot may then end `booted` with other sectors in memory than those
of the file. `lost` is only where the processor divides by zero or the quotient
is no byte, where a track would be longer than 63 sectors, and where what is run or read as the second
stage or the list is not that. What is promised is promised where the two sectors were not overwritten and
the second has been marked (`Learnable`), or the BIOS reads by number (`Certain`).
A BIOS with one head refuses the first of them, as head 1 is not there
(`ProbeThere`). `FbBoot` starts a boot from every
state `FbMbr` reaches between two commands. A read that fails shortens
`max_sec`, first to 7 and then to 1 (scaled to 2 and 1).

Facts about the code met here that no property is about: a read by number that
fails during the LBA test jumps to `try_chs` with the packet of the read still on
the stack, so the drive number is lost (`TestFails`); the first sector of the
second cylinder of a disk with 255 heads and 63 sectors lies just behind the
smallest primary area when the BIOS starts from copy 63; cylinders wrap at
1024 (`Behind`); a file of 65536 sectors overflows the `divw` in `check_file`.

### How BlockDev and WeeDisk correspond to the code

| WeeDisk | asm.S |
| --- | --- |
| `disk`, `unit` | bytes of each disk, and which disk a drive shows (the drive map, a changed medium) |
| `bufDrive`, `bufTrack`, `buffer` | `buf_drive`, `buf_track`, the memory at `BUFFERADDR` |
| `mode` | the prompt, a command, inside `rawread` |
| `sector`, `offset`, `pos`, `out` | the registers and the buffer argument of `rawread` |
| `job`, `answer` | the request, and how it ended |
| `stale` | history: the track that was in the buffer when a failed map changed its drive |

One turn of `rawread`'s loop is one action for each way it can go: from the
buffer (`UseBuffer`), the whole track (`ReadTrack`), the end of the track
(`ReadRest`), the sectors it needs when that failed (`ReadNeeded`), and the
writes through the buffer (`WriteNothing`, `WriteSectors`, `WriteFault`).
`BlockDev` knows drives, partitions and requests only; `KeepsPromise` is its
specification under the mapping that shows the bytes of the disk the drive has.

Met here: `map --hook` with no drive mapped takes what was hooked away and returns its
error before it gives up the buffer (builtins.c:1213; in the build for grub4dos 127 at
:2209, where `--rehook` does the same and returns true, :2281). The command loop forgets the buffer before each command (asm.S:8853), but
`find` goes on after a nested command that failed, and reads the track in the buffer as
the drive showed it before (`HookNothing`). In `BlockDev` the addresses of that track
are then in doubt (`Unhook`): until the buffer holds another track or the command ends a
read may answer with other bytes there, and a write may leave them there. Everything
else is promised as without the error.

### How PartTable, XdEnum, WeeParts and PartWalks correspond to the code

`PartTable` is what a disk has: a table in sector 0 and tables in a chain, as
partition tools leave them (`DisksAssumption`: one extended partition at most; in a
table of the chain a partition, a link, both or neither; the announcement of a GUID
table in sector 0). The two programs do not know the same types: xd_enum takes 5 and
0xF for an extended partition (xdio.c:410), wee also 0x85 and the hidden forms
(asm.S:10344). `"ext"` stands for the types both know, `"foreign"` for those that only
wee does; a foreign extended partition may be in sector 0, while the links of a chain
have types both know. xd_enum returns a foreign extended partition like any other and
never sees the logical ones in it (`Reachable`), so an installer cannot be pointed at
a partition that wee boots from by number; `NumbersAgree` is about the partitions that
both programs see (`SeenByBoth`). `Path` is the sectors of the chain, of a recursive function
(`Chain`), and `Numbered` the partitions with their numbers by convention: those of
sector 0 by their slot, those along the path from 4 on. `XdEnum`: `xe` is the caller's `xde_t`, `ebuf` the
static buffer, `epc`, `cc`, `kk` the loops and locals of `xd_enum`; each read of a
sector is a step. `WeeParts`: `list` is `PART_TABLE_BUF`, `at` and `slot` the two
places `list_partitions` walks with, `partnum` the two bytes of
`current_partnum`, and a turn of its loop (`ListTurn`) reads a table or copies one
entry. `PartWalks` runs both on one disk; what passes from one to the
other is the number a user types.

xd_enum has no end on a chain that leads back to itself; `SampleDisks` leaves
those disks to wee, whose list ends at the end of its buffer. Three facts about
`list_partitions` that the models show and no property is about: entries before
the first partition are not counted (asm.S:10276; the comment a line above says
they are), a read that fails leaves the list it cut short marked as
buffered (asm.S:10305), and of the four entries in a sector of a GUID table it
takes three (asm.S:10170, `GptIndex`).

### How WeeFind corresponds to the code

| WeeFind | wee |
| --- | --- |
| `table` | `PART_TABLE_BUF` with the drive it was made for; the memory behind the list keeps what longer lists left, as `open_partition` walks from entry to entry |
| `current`, `saved` | `current_drive` and `current_partition`; `saved_drive` and `saved_partition`, the root |
| `opt`, `tmp`, `drive`, `i`, `got` | options and locals of `find_func` |
| `shown` | what was printed |
| `medium`, `hooked` | the disks, and which of them each drive shows: `hooked_drive_map`, as far as it shows one drive as another |
| `trusted` | history: the list was not spoiled when find began, nothing has spoiled it since, and no nested command touched it |

The nested command succeeds, fails, is a `root` that lists another drive into the
buffer find walks over, or is a `map --hook`. Met here: a nested
`root` leaves find with the other drive's list (builtins.c:4272), `find
--set-root` of a file on a hard disk as a whole goes on through that drive's
partitions and makes the last one it looked at the root (builtins.c:4414), a changed medium keeps the old list (asm.S:12350),
a `map --hook` with no drive mapped takes the hooked map away and returns its error
before it forgets the list (builtins.c:1213, `HookNothing`), so the next find walks
the list of the drive as it was mapped, and in the build for grub4dos 127 every `map`
keeps the list (`Build127`; builtins.c:2239). `FindsAll` and `RootHasFile` are stated for finds these do not
touch; `FindEnds` and `RootRestored` for all.

### How BootTrack, GrubInst, WeeSetup and Installers correspond to the code

| module | state | code |
| --- | --- | --- |
| `BootTrack` | `disk`: sectors, each a boot record (code, table), a sector of some code, data of a partition, zeros or junk | sector 0 up to the first partition |
| `GrubInst` | `cmd`, `prev`, `new`, `n`, `pc`, `file` | options, `prev_mbr`, `grub_mbr`, sectors written, the save file |
| `WeeSetup` | `wcmd`, `read`, `i`, `wpc` | options, `read_data`, the loops that write, read back and rewind |
| all | `table`, `manager`, `cut`, `last`, `previous`, `bad` | history: what the disk should have and how runs ended |

Runs follow each other in any order and end between any two sectors. In
`WeeSetup` the disk may also take a sector and store something else, as that is
what the reading back is for. Sizes are parameters: the tracks of GRLDR 0.4.5c and
0.4.6a (18 and 16 sectors), of wee (63), and the part grubinst saves (4).

What the properties leave out because the code does not promise it: a run
without `--save` or a second sector that is no boot record loses the old one;
`--save` stores four sectors, of a boot manager that has more the rest is lost
(grubinst.c:941); `--save` together with `--restore-prevmbr` saves the
previous MBR (grubinst.c:1051); the exit after a failed write is compiled for
Windows only (grubinst.c:1504); weesetup `-u` always loses the previous boot
record, with `-b` it stores wee's own; `--restorembr` writes sector 0 only, so a
boot manager of several sectors does not come back; weesetup ends with status 0
after "fail!", and a refused write or a read error ends it without rewinding.

### How Umbr corresponds to the code

| Umbr | code |
| --- | --- |
| `files`, `umbr`, `dap`, `part` | the arguments, the image and the record pointer of `main` in umbr.c |
| `mbr` | the four records in sector 0, at 0x10, 0x20, .. |
| `si`, `recs`, `cx`, `stack` | registers and stack of umbr.S; `recs` is the MBR in memory, whose packet `readdisk` advances and puts back |
| `mem`, `hidden` | what was loaded, and the hidden sectors it patches |
| `made`, `failed`, `changed` | history |

The BIOS may read fewer sectors than asked, or none. A sector is the exclusive or
of its words. Every record that is skipped or failed is announced by `print_next`,
which waits for a key (umbr.S:337-360): unattended, the boot stops at the first
empty or bad record. `PressKey` is the user's, without fairness. Met here: a file whose size is no multiple of 512 practically never
verifies, since the last byte is read into the buffer the checksum is made of;
fragmented files are installed by their first sector; a partition record takes
the third record's place; the checksum covers up to 127 sectors and not "the
first" (umbr.S:30); a checksum of 0 marks an empty record and never boots; an
error leaves the read hook set (umbr.c:105) and a failed read of the last byte
makes the first address the count.

### How Wenv corresponds to the code

| Wenv | wenv.c |
| --- | --- |
| `program` | the argument of `main`: items with the operator behind each |
| `stack` | nested calls of `wenv_func` and `for_func`; `left` and `cut` of a loop: the rounds it has left, and with how many left `replace` makes no text for one |
| `ret`, `errnum`, `flags` | the value returned, grub4dos's `errnum`, `wenv_flags` |
| `level`, `loose` | history: loops around the last break or continue; an error no operator has handled |

A command returns true or false and may set, clear or keep `errnum`. The body of a
loop is one command, a group for instance. `check` (wenv.c:776) and `read`
(wenv.c:2005) call `wenv_func` themselves, so both may leave `wenv_flags` set: the
command behind a `check` is a line of its own on the stack, the lines of a file
that is `read` leave any flag. Left out are `malloc` giving nothing, and operators
that come out of a variable when `check`'s argument is replaced. Met here: when
`replace` has no room for a round's value, `for_func` returns 0 before the round
(wenv.c:1043, 1088), sets no error and skips the reset of `wenv_flags` (wenv.c:1102): the
range is cut (`RoundsRun` says where), and after a `continue` in the round before,
the flag is still set and counts for the loop around, or drops the rest of the
line when there is none (`BreakContained` says so, with `level`). A `continue` behind a failing
command without an operator makes `for_func` return with `wenv_flags` still set
(wenv.c:1048), so the rest of the line around the loop is dropped, which is why
`LoopContained` speaks of loops no error has ended; an error number that is set
before a loop begins ends it after one round, which is why `RoundsRun` needs
`~loose`; `]]!` is not in wenv-readme.txt. The table of variables in wenv.c is
inside `#if 0` and is not modelled.

## What is checked

| run | bounds | properties, and what they show |
| --- | --- | --- |
| `files` | 3 primary and 4 extended sectors, blocks of 1 and 2 bytes, 3 names, inputs of 3 and 1 bytes, sizes 1 and 4, a list with room for 3 items, transfers of 2 sectors, 4 commands | all file commands but `load`, in every order with every interruption: `BlocksInv` (types; after `pack` no hole), `LayoutInv`, `MarksOK`, `WritesAside` (no write outside the files a command names), `RefinesFileStore` |
| `load` | 2 primary and 4 extended sectors, blocks of 2 and 3 bytes, items of two sizes, 2 archives, 3 commands | `load` and syslinux patching: `ListFits` (room for the terminator), `RefinesFileStore`, `CommandEnds` |
| `syslinux` | 4 commands | finding: `pack` moves a patched file without patching it again |
| `mbr` | 4 copies, 2 versions, 2 commands and 2 changes by other programs, `restore` looks at 3 copies; then a boot on 5 BIOSes, two by number, tracks of 2 and 3 sectors, 1 or 2 heads, 3 cylinders, 4 foreign words, one read that fails once | `FreshInv` (types; after a command the tables and boot codes agree), `StageFound`, `Restorable`, `IntactKept`, `PartitionsKept`; `LoadInv` (where the sectors that tell the geometry are fbinst's, it is the BIOS's and what is loaded is what lies there, and nothing but a failing read, a missing sector or a single head stops the boot of a copy with the second stage's boot code), `LoadEnds` |
| `list` | 4 names with items of 3, 4, 4 and 5 bytes, 3 sectors of 4 bytes, 3 commands | `BufferInv` (types; the buffer is the chain of its items), `ListCommitted`, `BootSeesList`, `PrefixSurvives` |
| `overlap` | as `list`, `memcpy` copies in any direction | finding: `alloc_file` relies on what C leaves undefined; copied upwards, the list becomes one `read_header` refuses |
| `weedisk` | 2 drives, 2 media of 5 sectors, tracks of 2 sectors, requests of 0, 1 and 5 bytes at 6 places, whole drive and 2 partitions; 2 requests, 1 fault, 1 change | `TrackInv` (types; the buffer holds what its mark says, unless a failed map left it; the request is where it should be), `KeepsPromise` (implements `BlockDev`), `Answered` |
| `parts` | all disks of `SampleDisks` and GUID tables of up to 6 entries, a list of 9 entries | `EnumInv` and `ListInv` (types; every partition the program can reach once; jump and enumeration agree; numbers given once), `NumbersAgree` (of the partitions both see), `WalksEnd` |
| `weefind` | 2 hard disks, a floppy, 2 maps of drives, changed media, 1 change, 1 fault | `FindInv` (types; prints the partitions with the file; the root it sets has it), `RootRestored`, `FindEnds` |
| `installers` | tracks of 4 and 3 sectors, wee of 3 and 4, 2 partition tables, 2 other managers, 3 runs, 2 sectors stored wrong | `TrackInv` (types; the partition table and the partitions are kept), `BackupKept`, `FileRestored`, `WeeInv` |
| `umbr` | 2 disks of 7 sectors, 5 lists of files (whole, partial, with holes, backwards, longer than a piece), pieces of 2 sectors, 2 failing reads, short reads or changes | `BootInv` (types; records in memory; the first good one runs), `FileBoots`, `BootEnds` |
| `wenv` | all lines of 4 commands with every operator, groups, checks, reads and loops in lines of 3, loops in loops, 2 rounds of which any may be without text | `LineInv` (types; which statements ran), `BreakContained`, `RoundsRun`, `LinesEnd` |

An invariant that is a conjunction is named for the state it is about; each part
has a name of its own and says in its comment which behaviour it is about.

Why the bounds are enough. In `FbStore` the commands are deterministic up to the
placement, and placement depends on one gap at a time. Seven sectors hold up to
three files with gaps before, between and behind them and a gap across the area
boundary; inputs lie below, at and above one transfer and end inside and at the
end of a sector; four commands are enough to fill, free, move into the hole and
pack. Lists that overflow, disks that are full and copies that would change
area all occur. In `FbList` items end before, at and after the end of a sector,
and three of the four items would fill the list to its last byte, which must be
refused. In `FbMbr` four copies give a first, a last and two in the middle; one
command can be cut short after another, and damage can end inside what it left or
take all copies; restore looks at three of the four, and a byte could count eight.
In `FbBoot` calls end inside, at and behind the end of a track, heads and
cylinders roll over, files lie on both sides of the primary area's end, and the
file behind the last cylinder occurs. The foreign words are a number that is right, one
that is wrong but divides, and others of which no geometry comes. In `WeeDisk` requests begin and end inside
and at the ends of sectors and tracks, span three tracks, and the last track of
the disk is cut; the second request meets every buffer the first can leave, that of a
failed map included.
`SampleDisks` has every order of three tables, with and without partitions. In
`Installers` three runs are install, replace and restore, with a boot manager or
a repartition in between. In `Umbr` three pieces occur, and each of the four
records fails, is empty or boots. Wenv's lines are complete up to their length.

Fairness. All these programs are single threads: one step after another runs, and
every call of the operating system or the BIOS for a disk returns. Nothing waits
but umbr, for a key after every record that did not boot: `BootEnds` says that every
record ends booted or in that wait, and that the boot ends where the waits do.
So `WF` is assumed of the program's own step (`Step`, `BootStep`, `RunRaw`, the
walks' turns, `FindStep`, `Evaluate`) and of nothing else: not of commands, users,
interruptions, failures or other programs. `Wenv`'s loops are bounded by their
range (`MaxRounds`), and faults by a bound, as a BIOS that fails forever ends a
request with an error.

Deadlock is checked, except in `parts` (both walks are over), `installers` (the
runs are used up) and `weedisk` (the requests are used up), where the model ends.

## What is proved

All theorems hold for every value of the constants that satisfies the named
assumptions of the modules, which TLC evaluates in every run: any number of
commands, faults and changes, disks of any size. Each follows from an inductive
invariant (`...IInv`; of `FbMbr`, `CopiesInv`), whose parts are named for what they say.

**Lists and sectors of fbinst** (`FbFilesProofs`; `AreaAssumption`,
`BlockAssumption`, `StoreAssumption`, `ArchiveAssumption`). `ListsWellFormed`:
`Spec => []LayoutInv`. `LayoutInv` alone is not inductive: an allocation must
know what it was asked for (`ReqOK`), a transfer that its item is in the list
(`Storing`), and `pack_disk`, which slides items one after the other, that the
items before `idx` end at or before its cursor and the others begin at or after
it (`PackInv`). The arithmetic is in its first part: `CeilDivBlock` (a size in
larger blocks needs no more of them; this is why a count in primary blocks is
safe in the extended area), `PlacedInGap` (where `check_space` puts a file it
lies inside the gap and in one area) and one lemma per change of the list.

`MarksAlwaysKept`: every primary sector carries its own number at all times, also
in the middle of a transfer. `WritesStayAside`: no write touches a block of a
committed file the command does not name. Both follow from `TransferIInv`, which
adds that the files a command does not name are still in the list in memory,
where they were (`BystandersListed`), that a copied file has the blocks it is
read from (`CopyFits`), and that each transfer stays inside the blocks of its own
item (`TransferInside`). Disjointness is then the order of the list.

**Contents** (also `ByteAssumption`: no byte of a file is taken
for an address that `syslinux_patch` wrote). `FileStoreRefinement`: `FbStore` implements
`FileStore`, step by step: a command that ends commits exactly the files it is to
make, byte for byte, and an interruption, even within a write call, damages no
file but those the command names. `FilesIInv` relates, at every point of a
command, the list in memory and the sectors to the map the command wants: all files are as wanted
but the unfinished ones (`Fulfils`), an allocation
still has the source it is to copy (`AllocOK`), of an unfinished file the bytes before the
cursor are written (`SaveOK`, `CopyOK`, `FillOK`), and while `pack_disk` copies a file to a
place that overlaps its old one, the new place has the bytes before the cursor
and the old one still has the bytes behind it (`PackOK`). `FilesPackedTight` is `BlocksInv`.
`ListAlwaysFits`: what `alloc_file` and `move_file` leave room for is enough for
the terminator, whatever the list's size and the items' lengths. `ListBytes` is
a fold over the places of a list, taken in an order that is not told; `ListBytesIs`
shows that it is the size of a set, the bytes of the list's names (`SizeOf`), since in a
smallest set of places on which the two differed, they could not. Then a list
with no new name is no longer (`FewerRoomy`), and a new name adds its item, which
is what the test allowed for (`NewNameRoomy`); `ListsRoomy` is inductive with `LayoutIInv`.

**The bytes of the list** (`FbListProofs`; `ListAssumption`). `BufferAlwaysList`,
`ListAlwaysCommitted`, `BootAlwaysSeesList` and `PrefixAlwaysSurvives`, for items
and sectors of any size, have the hypothesis `Copying = {"whole"}`: memcpy does with
regions that overlap what memmove does. So does `ListAlwaysReadable`, whose
`ListReadable` the run `overlap` refutes without it. The names alone do not carry an
induction; `ListIInv` says what the bytes are. The lists name no file twice and leave
room for a terminator (`ListsOK`); the buffer shows the chain of `mem` with its
terminator, and where `alloc_file` may come next it is zero behind the tail (`EditOK`):
`alloc_file` writes no terminator, and its item covers all that `del_file` of the old one left;
each byte of the disk is the old list's or the new one's, the new one's in the sectors
written so far (`DiskOK`). `DeletedShows`, `InsertedShows` and `RenamedShows` are
what the edits do to the bytes. They rest on `WalkIs`: a walk over a buffer that
shows a list comes to the beginning of each item and ends behind the last one.
`FlattenSeq` and the walk are recursive functions, and no induction theorem of the
library can be used; that they have the values their definitions say
(`FlatExists`, `WalkExists`) and what these are is shown of a least counterexample,
which every set of naturals that is not empty has (`LeastOne`).

**The copies of the boot sector** (`FbMbrProofs`; `CopiesAssumption`,
`TablesAssumption`, `BoundsAssumption`, `VersionAssumption`; nothing is assumed of how
many copies there are). `StageAlwaysFound`, `AlwaysRestorable`,
`IntactAlwaysKept` and `PartitionsAlwaysKept` follow from `CopiesInv`: a
sector with the signature has its own number (`NumbersOK`), what a loop is
about to write is a boot sector with the table of sector 0 (`BufferOK`), and
once all were written every copy that other programs left alone is intact
(`AloneOK`), as no loop writes one that is not. `FreshAlways` needs what each loop has
written so far (`WrittenOK`), that it goes over all copies (`CommandOK`), and that the
buffer has the table as the copy before shows it (`TablesOK`).

**The boot code** (`FbMbrProofs`; also `BootAssumption`). `LoadAlways`, for every BIOS and disk:
where it can be learned (`Learnable`), the geometry the boot code has taken from the
sectors it read is the one the BIOS has (`BootKnown`, `GeometryTold`), as a copy that is intact
and a sector with a mark have their own numbers, from which the difference to the
copy that runs is right in the width of a word (`WordDifference`) and of a byte; and the registers of a read say where the next
sector of the job is on that geometry (`LoadOK`), call after call, over tracks,
heads and cylinders (`LoadedRight`). `SoundBoots` then says which disks do boot: a copy with
the boot code of the second stage, where all sectors can be read, is neither `halted` nor `lost`.
`CopiesServeBoot` carries
the theorems about the commands over to disks that are booted at any time.

**wee's disk access** (`WeeDiskProofs`; `SizesAssumption`,
`RequestsAssumption`, `NoneAssumption`: -1 is the number of no drive and no
track). `TrackBufferCorrect` and
`DiskAccessRefinement`, `Spec => KeepsPromise`. `DiskIInv` adds to the buffer's
correctness that there is a request exactly while `rawread` runs (`JobOK`) and that what it has
done lies on the disk (`ReachOK`); the rest is the arithmetic of
sectors and tracks of any size. `ShownBytes` says that what is read (`TrackRead`) is
what the drive shows outside the doubt (`DoubtIs`), `DoubtSame` and `DoubtEnds` when
the doubt stays and ends.

**find** (`PartitionProofs`; `WeeFindAssumption`, `MediaAssumption`: a list gives no
number twice, partitions count from 0 to 127, and those of the first table come first).
`FindAlways` holds in every build: a list that a failed map, a changed medium or, in
the build for grub4dos 127, any map leaves behind counts as spoiled (`HookOK`,
`KeptOK`), and what a search that begins with it prints is not promised. `FindIInv` says
what the buffer holds (`BufferOK`: the list of its drive and an end, whatever longer list was there
before), where a search is (`SearchOK`), that it has shown what fits of all it
has passed and nothing else (`ShownOK`), and what a root that is about to be set
has (`RootOK`). `EntryFound` is why opening a partition by its number finds the entry find is at.
`RootAlwaysRestored` holds in every build.

**The walks over partition tables** (`PartitionProofs`; `DisksAssumption`;
`AllAssumption`: the numbers of a disk fit in a byte; `BoundsAssumption`: the entries of
a GUID table, 128 by its standard, have numbers and room in the list. The code has no test
for either: it stops at the first empty entry, asm.S:10174). `EnumerationIsComplete`,
`ListIsComplete` and `NumbersAlwaysAgree` state `EnumInv`, `ListInv` and `NumbersAgree`
for chains of any length, those that lead back included, and for extended partitions
of types that only wee knows (`KnownTypes`, `LinksKnown`). `ListsAreAssumed` joins them to find:
every list `list_partitions` makes meets `MediaAssumption`.
`EnumIInv` says where the enumeration is from what the caller's structure and
`ebuf` keep between calls (`AtStart`, `AtPrimary`, `AtTable`; within a call
`InChain`), and that all before that place was returned (`Passed`). `ListIInv` says that
the numbers in the list ascend (`Ordered`), which no disk disturbs, and on disks in order
(`IsOrderly`) which rows there are and how the counter stands when so many entries of
the first table (`InFirst`) or of the `h`-th of the chain (`InTable`) are copied, and that
one entry at most still leads on, to the next table (`Ahead`). `NumbersAgree` needs both: it
is the same `Numbered` that the two are compared with.
`Chain` is a recursive function; that it has values, and that they are
the path, is shown of a least counterexample (`ChainExists`, `ChainIsPath`,
`LeastNumber`). A path that does not lead back comes to no sector twice and ends
(`PathApart`), so it has no more logical partitions than the disk has tables
(`LogicalBound`), and `xd_enum`'s number does not overflow.

**The boot track** (`InstallersProofs`; the assumptions of `BootTrack`,
`GrubInst` and `WeeSetup`). `TrackSafe`, `Spec => []TrackInv`, needs what a run
under way knows (`TrackIInv`): the record it read had the disk's table, its track ends
before the first partition, and only one of the two installers runs.
`WeeInvariant`, `BackupNeverLost` and `FileComesBack` need how far a run has come:
the sectors before its cursor are the new ones and the others those it read
(`GrubWritten`, `WeeWritten`, in `ProgressInv`), on which `BackupIInv` says where the
replaced boot record is at each point of a run, and `FileHeld` what of the save
file is on the disk.

**umbr** (`UmbrProofs`; `UmbrAssumption`, `DiskAssumption`). `FirstGoodRuns`:
`readdisk` puts back what it changes in a record, a record is passed over only
for a reason, and of the one that runs memory has every sector.
`InstalledBoots`: a file the installer took as it is boots, or one before it.
`UmbrIInv` follows a record from the arguments into the image (`InstallerOK`), into the MBR (`MadeOK`) and through
the pieces it is read in (`BootOK`). That two checksums agree follows from the words
they sum up being the same; nothing else is used of the sum.

**wenv** (`WenvProofs`; `LinesAssumption`). `StatementsRun`,
`BreakLeavesOneLoop` and `LoopsRunThrough`, for lines that nest to any depth.
`LineIInv` says of each call on the stack that what ran in its line, and the
statement it is at, were let through by the operators before them (`CallsOK`), and
that nothing is started while a break or continue is on its way (`OnlyLeaving`).

**Only model-checked.**

- Liveness (`CommandEnds`, `LoadEnds`, `Answered`, `WalksEnd`, `FindEnds`, `BootEnds`,
  `LinesEnd`) and everything with `ENABLED`: out of the prover's reach.
- The two findings, which are counterexamples.

Every invariant and every action property that a passing run checks is stated by a
theorem. Where the value of a recursive function mattered, induction over data, which
the library states with a parameter no installed prover can instantiate, was
replaced by a least counterexample (`WalkIs`, `ListBytesIs`, `ChainIsPath`).

## Not modelled

- fbinst: parsing of menu files and command lines; `save` and `create`, which
  write an archive once from front to back; the FAT that `format` writes behind
  the fb area, `format --raw`; `add -e` from standard input, where the `-e` is
  ignored (fbinst.c:2132 against the help at :333); what `sync --copy-bpb` and
  `--reset-bpb` put into the BIOS parameter block (the latter leaves 65535, 65534, ..
  as reserved sectors of the copies, fbinst.c:1544); a format with another `--base`
  than the one before, which leaves copies behind its own. The second stage is
  written in one step. The menu of the boot code and what it boots.
- grubinst and weesetup: boot sectors of partitions, patches of the boot code's
  bytes, files weesetup writes, the lists of devices.
- wee: parsers of file systems, start-up, commands that keep no state; the drive
  map itself and the hooking of int 13.
- The GUI and the menu editor of grubinst, build-time packers (loadbin, makemod,
  makerom), fonts and graphics, hardware commands, ntboot, hotkey and the patches
  for wimboot: pure transformations, input and output, or code for another
  repository.
- `fat`: FatFs with its code pages, vendored; its tables are more than half of the
  lines of the repository, so the modelled share of all lines is small.

`PROJECT.json` lists every component with its reason.

## Plan

Left, in this order:

1. `FbArchive`: save, create and load of archive files; a saved and loaded
   store is the same store, and what an interrupted `save` leaves.
2. The FAT parser of wee with its window and its cache of the cluster chain.
3. The table of sizes in `format_fat16` and `format_fat32`; the key table of hotkey.
