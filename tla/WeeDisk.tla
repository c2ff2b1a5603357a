------------------------------- MODULE WeeDisk -------------------------------
(***************************************************************************)
(* wee's disk access (grubutils/wee/asm.S: rawread, devread, biosdisk).    *)
(*                                                                         *)
(* rawread serves a request track by track.  It keeps the last track it    *)
(* read in a buffer and answers from it as long as buf_drive and buf_track *)
(* say that the buffer holds the track.  It reads the whole track a        *)
(* request lies in, only the end of the track when the request goes on in  *)
(* the next one, and only the sectors it needs when reading the track      *)
(* fails.  A write goes through the buffer and writes all its sectors from *)
(* the first one of the request on.                                        *)
(*                                                                         *)
(* Everything else that touches what a drive shows has to invalidate the   *)
(* buffer: a command of the user, who may have changed the disk in a       *)
(* drive, and the map command.  A map that fails does not, and inside a    *)
(* command that goes on after it the buffer is then in doubt.  Any call of *)
(* the BIOS may fail.  Addresses count bytes.                              *)
(***************************************************************************)
EXTENDS Integers

CONSTANTS Drives,        \* BIOS drive numbers
          Media,         \* the disks behind them
          Sectors,       \* sectors on each disk
          T,             \* sectors in a track of the buffer: 64
          S,             \* bytes in a sector: 512
          Disk0, Unit0,  \* what the disks hold, and the drives show, at first
          Data,          \* the bytes a write writes
          Garbage,       \* what a failed call leaves in the buffer
          Parts,         \* partitions: [start, length] in sectors
          Starts, Offsets, Lengths,   \* requests: first sector, byte offset, bytes
          Words,         \* number of values of a 32-bit word
          None,
          MaxReqs, MaxFaults, MaxChanges   \* bounds on requests, BIOS errors, changes of drives

Bytes == Sectors * S
Track == T * S

\* The values of the bytes the disks hold at first.
FirstBytes == {Disk0[m][a] : m \in Media, a \in 0 .. Bytes - 1}

ASSUME SizesAssumption ==
    /\ Sectors \in Nat /\ T \in Nat \ {0} /\ S \in Nat \ {0}
    /\ Disk0 \in [Media -> [0 .. Bytes - 1 -> FirstBytes]]
    /\ Unit0 \in [Drives -> Media]
    /\ Words \in Nat \ {0} /\ MaxReqs \in Nat /\ MaxFaults \in Nat /\ MaxChanges \in Nat

\* There is a longest request, and no request is longer than a word counts.
ASSUME RequestsAssumption ==
    /\ Starts \subseteq Nat /\ Offsets \subseteq Nat /\ Lengths \subseteq Nat
    /\ \E n \in Lengths : \A k \in Lengths : k =< n
    /\ \A o \in Offsets, n \in Lengths : o + n =< Words
    /\ Parts \subseteq [start : Nat, length : Nat]

\* -1 in buf_drive and buf_track is the number of no drive and of no track.
ASSUME NoneAssumption == None \notin Drives /\ None \notin Nat

VARIABLES disk,       \* the contents of each disk
          unit,       \* the disk each drive shows
          bufDrive,   \* buf_drive
          bufTrack,   \* buf_track: the first sector of the track in the buffer
          buffer,     \* the memory at BUFFERADDR
          mode,       \* "prompt", "command", "raw": at the prompt, in a command, in rawread
          job,        \* the request being served
          sector, offset, pos,   \* where rawread is, and the bytes it has done
          out,        \* the caller's memory
          answer,     \* how the last request ended
          stale,      \* history: the track that was in the buffer when a map that failed
                      \* changed the disk its drive shows
          nreq, nfault, nchange

request == <<sector, offset, pos>>
vars == <<disk, unit, bufDrive, bufTrack, buffer, mode, job, request, out, answer, stale,
          nreq, nfault, nchange>>

Mark == [drive |-> bufDrive, track |-> bufTrack]
NoTrack == [drive |-> None, track |-> None]

\* The addresses of the stale track.
Doubt == IF stale = NoTrack THEN [drive |-> "none", lo |-> 0, hi |-> 0]
         ELSE [drive |-> stale.drive, lo |-> stale.track * S, hi |-> (stale.track + T) * S]

\* The window of addresses a partition leaves a request.
Bounds(p) == [lo |-> p.start * S, hi |-> (p.start + p.length) * S]

BD == INSTANCE BlockDev WITH
          Parts <- {Bounds(p) : p \in {q \in Parts : q.start # 0}},
          Values <- FirstBytes,
          doubt <- Doubt

Min2(a, b) == IF a =< b THEN a ELSE b

-----------------------------------------------------------------------------
(***************************************************************************)
(* Commands, and what changes behind the buffer between requests.          *)
(***************************************************************************)

\* The user changes the disk in a drive while wee waits for a command.
ChangeMedium(d, m) ==
    /\ mode = "prompt"
    /\ nchange < MaxChanges
    /\ nchange' = nchange + 1
    /\ unit' = [unit EXCEPT ![d] = m]
    /\ UNCHANGED <<disk, bufDrive, bufTrack, buffer, mode, job, request, out, answer, stale,
                   nreq, nfault>>

\* Mutated: the buffer stays valid from one command to the next.
EnterCommand_KeepBuffer ==
    /\ mode = "prompt"
    /\ mode' = "command"
    /\ stale' = NoTrack
    /\ UNCHANGED <<disk, unit, bufDrive, bufTrack, buffer, job, request, out, answer,
                   nreq, nfault, nchange>>

EnterCommand ==
    /\ mode = "prompt"
    /\ mode' = "command"
    /\ bufDrive' = None /\ stale' = NoTrack
    /\ UNCHANGED <<disk, unit, bufTrack, buffer, job, request, out, answer,
                   nreq, nfault, nchange>>

LeaveCommand ==
    /\ mode = "command"
    /\ mode' = "prompt"
    /\ UNCHANGED <<disk, unit, bufDrive, bufTrack, buffer, job, request, out, answer, stale,
                   nreq, nfault, nchange>>

\* map --hook, --unhook: a drive shows another disk from now on.
MapHook(d, m) ==
    /\ mode = "command"
    /\ nchange < MaxChanges
    /\ nchange' = nchange + 1
    /\ unit' = [unit EXCEPT ![d] = m]
    /\ bufDrive' = None /\ bufTrack' = None /\ stale' = NoTrack
    /\ UNCHANGED <<disk, buffer, mode, job, request, out, answer, nreq, nfault>>

\* map --hook with no drive mapped: what was hooked is taken away, and map returns an
\* error before it invalidates the buffer.  find goes on after it.
HookNothing(d, m) ==
    /\ mode = "command"
    /\ nchange < MaxChanges
    /\ nchange' = nchange + 1
    /\ unit' = [unit EXCEPT ![d] = m]
    /\ stale' = IF bufDrive = d /\ bufTrack # None /\ m # unit[d] THEN Mark ELSE stale
    /\ UNCHANGED <<disk, bufDrive, bufTrack, buffer, mode, job, request, out, answer,
                   nreq, nfault>>

-----------------------------------------------------------------------------
(***************************************************************************)
(* Requests.                                                               *)
(***************************************************************************)

MaxLength == CHOOSE n \in Lengths : \A k \in Lengths : k =< n

\* The caller's memory, before anything is read to it.
NoMemory == [k \in 0 .. MaxLength - 1 |-> Garbage]

\* rawread gives back its own variables when it returns.
Return == sector' = 0 /\ offset' = 0 /\ pos' = 0 /\ out' = NoMemory

RawRead(kind, d, part, s, o, n) ==
    /\ mode' = "raw"
    /\ job' = [kind |-> kind, drive |-> d, part |-> part, at |-> s * S + o, len |-> n]
    /\ sector' = s /\ offset' = o /\ pos' = 0
    /\ out' = NoMemory
    /\ answer' = BD!Ended("none")
    /\ stale' = IF Mark = stale THEN stale ELSE NoTrack
    /\ UNCHANGED <<disk, unit, bufDrive, bufTrack, buffer, nfault, nchange>>

CanAsk ==
    /\ mode = "command"
    /\ nreq < MaxReqs
    /\ nreq' = nreq + 1

\* A caller of rawread itself: list_partitions, a program loaded by wee.  Its
\* byte offset lies in the first sector.
AskRaw(kind, d, s, o, n) ==
    /\ CanAsk
    /\ o < S
    /\ RawRead(kind, d, BD!Whole, s, o, n)

\* The last sector of the request, as devread counts it: in 32 bits, and for
\* a request of no bytes at offset 0 from a byte before the first.
LastSector(s, o, n) == s + ((o + n - 1) % Words) \div S

InPartition(p, s, o, n) == p.start = 0 \/ LastSector(s, o, n) < p.length

DevRead(kind, d, p, s, o, n) ==
    /\ CanAsk
    /\ InPartition(p, s, o, n)
    /\ RawRead(kind, d, IF p.start = 0 THEN BD!Whole ELSE Bounds(p),
               s + (o \div S) + p.start, o % S, n)

\* ERR_OUTSIDE_PART
DevOutside(p, s, o, n) ==
    /\ CanAsk
    /\ ~InPartition(p, s, o, n)
    /\ answer' = BD!Ended("failed")
    /\ UNCHANGED <<disk, unit, bufDrive, bufTrack, buffer, mode, job, request, out, stale,
                   nfault, nchange>>

-----------------------------------------------------------------------------
(***************************************************************************)
(* One turn of the loop of rawread.                                        *)
(***************************************************************************)

Left == job.len - pos
InTrack == sector % T              \* soff
First == sector - InTrack          \* the first sector of the track

\* Mutated: counts to the last sector of the track.
Rest_Last == T - 1 - InTrack

Rest == T - InTrack                \* sectors from there to the end of the track

Needed == (offset + Left + S - 1) \div S     \* slen

Turn == mode = "raw" /\ Left > 0

\* Whether the BIOS can transfer n sectors from sector s on.
OnDisk(s, n) == s + n =< Sectors

Shown(a) == disk[unit[job.drive]][a]

\* Memory of the buffer after sectors i .. i + n - 1 of it were read.
Filled(b, i, n) ==
    [a \in 0 .. Track - 1 |->
        IF i * S =< a /\ a < (i + n) * S THEN Shown(First * S + a) ELSE b[a]]

Spoilt == [a \in 0 .. Track - 1 |-> Garbage]

Advance(n, size) ==
    /\ sector' = sector + n /\ offset' = 0 /\ pos' = pos + size
    /\ UNCHANGED <<unit, job, answer, stale, nreq, nchange>>

Abandon ==
    /\ mode' = "command" /\ job' = BD!NoJob /\ answer' = BD!Ended("failed")
    /\ Return
    /\ UNCHANGED <<unit, stale, nreq, nchange>>

\* Where the request's bytes are in the buffer, and how many of them with n sectors.
At == InTrack * S + offset
Size(n) == Min2(Left, n * S - offset)

\* The bytes of the write, over those of buffer b.
Merged(b, n) ==
    [a \in 0 .. Track - 1 |->
        IF At =< a /\ a < At + Size(n) THEN Data[pos + a - At] ELSE b[a]]

\* Sectors sector .. sector + k - 1, from buffer b.
Stored(b, k) ==
    [disk EXCEPT ![unit[job.drive]] =
        [a \in 0 .. Bytes - 1 |->
            IF sector * S =< a /\ a < (sector + k) * S THEN b[a - First * S] ELSE @[a]]]

\* With n sectors of the request in buffer b, which holds track t.
Deliver(b, n, t) ==
    /\ job.kind = "read"
    /\ out' = [k \in DOMAIN out |->
                  IF pos =< k /\ k < pos + Size(n) THEN b[At + k - pos] ELSE out[k]]
    /\ buffer' = b /\ bufTrack' = t
    /\ mode' = mode
    /\ Advance(n, Size(n))
    /\ UNCHANGED disk

\* grub_memcmp finds nothing to change.
WriteNothing(b, n, t) ==
    /\ job.kind = "write" /\ Merged(b, n) = b
    /\ buffer' = b /\ bufTrack' = t
    /\ mode' = mode
    /\ Advance(n, Size(n))
    /\ UNCHANGED <<disk, out>>

WriteSectors(b, n, t) ==
    /\ job.kind = "write" /\ Merged(b, n) # b
    /\ buffer' = Merged(b, n) /\ bufTrack' = None
    /\ disk' = Stored(Merged(b, n), n)
    /\ mode' = mode
    /\ Advance(n, Size(n))
    /\ UNCHANGED out

\* Mutated: the buffer still counts as the track after a failed write.
WriteFault_KeepTrack(b, n) ==
    /\ job.kind = "write" /\ Merged(b, n) # b
    /\ buffer' = Merged(b, n) /\ bufTrack' = First
    /\ \E k \in 0 .. n - 1 : disk' = Stored(Merged(b, n), k)
    /\ Abandon

\* ERR_WRITE, with the first k sectors written.
WriteFault(b, n) ==
    /\ job.kind = "write" /\ Merged(b, n) # b
    /\ buffer' = Merged(b, n) /\ bufTrack' = None
    /\ \E k \in 0 .. n - 1 : disk' = Stored(Merged(b, n), k)
    /\ Abandon

\* What is done with the sectors, once they are in the buffer, after f errors.
Use(b, n, t, f) ==
    \/ /\ nfault + f =< MaxFaults /\ nfault' = nfault + f
       /\ Deliver(b, n, t) \/ WriteNothing(b, n, t) \/ WriteSectors(b, n, t)
    \/ /\ nfault + f < MaxFaults /\ nfault' = nfault + f + 1
       /\ WriteFault(b, n)

Hit == bufDrive = job.drive /\ bufTrack = First

UseBuffer ==
    /\ Turn /\ Hit /\ job.kind # "list"
    /\ bufDrive' = job.drive
    /\ Use(buffer, Rest, bufTrack, 0)

ReadTrack ==
    /\ Turn /\ ~Hit /\ job.kind # "list" /\ Needed =< Rest
    /\ OnDisk(First, T)
    /\ bufDrive' = job.drive
    /\ Use(Filled(buffer, 0, T), Rest, First, 0)

\* The request goes on in the next track.
ReadRest ==
    /\ Turn /\ ~Hit /\ job.kind # "list" /\ Needed > Rest
    /\ OnDisk(sector, Rest)
    /\ bufDrive' = job.drive
    /\ Use(Filled(buffer, InTrack, Rest), Rest, None, 0)

\* Errors it takes for a call to fail that transfers n sectors from sector s on.
Errors(s, n) == IF OnDisk(s, n) THEN 1 ELSE 0

\* The BIOS could not read the track: it is asked for the needed sectors only.
ReadNeeded ==
    /\ Turn /\ ~Hit /\ job.kind # "list" /\ Needed =< Rest /\ Needed # T
    /\ OnDisk(sector, Needed)
    /\ bufDrive' = job.drive
    /\ Use(Filled(Spoilt, InTrack, Needed), Needed, None, Errors(First, T))

\* ERR_READ
ReadFault ==
    /\ Turn /\ ~Hit /\ job.kind # "list"
    /\ bufDrive' = job.drive /\ bufTrack' = None /\ buffer' = Spoilt
    /\ nfault' = nfault + (IF Needed > Rest THEN Errors(sector, Rest)
                           ELSE Errors(First, T) +
                                (IF Needed = T THEN 0 ELSE Errors(sector, Needed)))
    /\ nfault' =< MaxFaults
    /\ Abandon
    /\ UNCHANGED disk

\* With no memory to read to, rawread only names the sectors to the caller's hook.
ListBlocks ==
    /\ Turn /\ job.kind = "list"
    /\ bufDrive' = job.drive
    /\ bufTrack' = IF bufDrive = job.drive THEN bufTrack ELSE None
    /\ Advance(Rest, Size(Rest))
    /\ UNCHANGED <<disk, buffer, mode, out, nfault>>

Finish ==
    /\ mode = "raw" /\ Left = 0
    /\ mode' = "command" /\ job' = BD!NoJob
    /\ answer' = CASE job.kind = "read"  -> BD!Read([k \in 0 .. job.len - 1 |-> out[k]])
                   [] job.kind = "write" -> BD!Ended("written")
                   [] job.kind = "list"  -> BD!Ended("listed")
    /\ Return
    /\ UNCHANGED <<disk, unit, bufDrive, bufTrack, buffer, stale, nreq, nfault, nchange>>

RunRaw == UseBuffer \/ ReadTrack \/ ReadRest \/ ReadNeeded \/ ReadFault \/ ListBlocks \/ Finish

-----------------------------------------------------------------------------
Init ==
    /\ disk = Disk0
    /\ unit = Unit0
    /\ bufDrive = None /\ bufTrack = None
    /\ buffer = [a \in 0 .. Track - 1 |-> Garbage]
    /\ mode = "prompt"
    /\ job = BD!NoJob
    /\ sector = 0 /\ offset = 0 /\ pos = 0
    /\ out = NoMemory
    /\ answer = BD!Ended("none")
    /\ stale = NoTrack
    /\ nreq = 0 /\ nfault = 0 /\ nchange = 0

Ask(kind, d, s, o, n) ==
    \/ AskRaw(kind, d, s, o, n)
    \/ \E p \in Parts : DevRead(kind, d, p, s, o, n) \/ DevOutside(p, s, o, n)

Next ==
    \/ \E d \in Drives, m \in Media : ChangeMedium(d, m) \/ MapHook(d, m) \/ HookNothing(d, m)
    \/ EnterCommand
    \/ LeaveCommand
    \/ \E kind \in {"read", "write", "list"}, d \in Drives,
          s \in Starts, o \in Offsets, n \in Lengths : Ask(kind, d, s, o, n)
    \/ RunRaw

\* rawread runs to its end: every call of the BIOS returns.
Spec == Init /\ [][Next]_vars /\ WF_vars(RunRaw)

-----------------------------------------------------------------------------
(***************************************************************************)
(* Properties.                                                             *)
(***************************************************************************)

Contents == FirstBytes \union {Data[k] : k \in 0 .. MaxLength - 1}

\* The type invariant.
TypeOK ==
    /\ disk \in [Media -> [0 .. Bytes - 1 -> Contents]]
    /\ unit \in [Drives -> Media]
    /\ bufDrive \in Drives \union {None}
    /\ bufTrack \in Nat \union {None}
    /\ buffer \in [0 .. Track - 1 -> Contents \union {Garbage}]
    /\ mode \in {"prompt", "command", "raw"}
    /\ job \in [kind : {"read", "write", "list"}, drive : Drives,
                part : {BD!Whole} \union {Bounds(p) : p \in Parts},
                at : Nat, len : Lengths] \union {BD!NoJob}
    /\ sector \in Nat /\ offset \in Nat /\ pos \in Nat
    /\ out \in [0 .. MaxLength - 1 -> Contents \union {Garbage}]
    /\ stale \in [drive : Drives, track : Nat] \union {NoTrack}
    /\ nreq \in 0 .. MaxReqs /\ nfault \in 0 .. MaxFaults /\ nchange \in 0 .. MaxChanges

\* While a command runs, the buffer holds what the drive shows in the track
\* that buf_drive and buf_track name, whatever failed, was written, or was
\* mapped or changed since the track was read, unless it is the track a map
\* that failed left there.
BufferMatches ==
    mode # "prompt" /\ bufDrive # None /\ bufTrack # None =>
        /\ bufTrack + T =< Sectors
        /\ Mark # stale =>
              \A a \in 0 .. Track - 1 : buffer[a] = disk[unit[bufDrive]][bufTrack * S + a]

\* A request under way has done its first pos bytes, outside the stale track, and
\* rawread is where the next one lies.
RequestDone ==
    mode = "raw" =>
        /\ Left > 0 => sector * S + offset = job.at + pos
        /\ job.kind = "read" => \A k \in 0 .. pos - 1 : BD!Right(k, out[k])
        /\ job.kind = "write" => \A k \in 0 .. pos - 1 : BD!Right(k, Data[k])

\* The invariant of rawread: the types, the buffer and the request under way.
TrackInv == TypeOK /\ BufferMatches /\ RequestDone

\* Reads answer with what the drive holds; writes, failed ones included,
\* touch no byte outside the request and its partition although rawread
\* writes back whole sectors up to the end of the track; nothing is reported
\* that did not happen.  After a map that failed this is so outside the track
\* that was in the buffer, until it is read again or the command ends.
KeepsPromise == BD!Spec

\* Every request is answered.
Answered == mode = "raw" ~> mode # "raw"
=============================================================================
