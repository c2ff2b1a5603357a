------------------------------- MODULE BlockDev -------------------------------
(***************************************************************************)
(* What wee's disk access promises its callers: a read answers with what   *)
(* the drive holds, a write changes only bytes it was asked to write, and  *)
(* one that reports success has written all of them.  A list transfers no  *)
(* data.  A request through a partition stays inside it.  Any request may  *)
(* fail, a write with some of its bytes written.  Nothing here knows of    *)
(* tracks or of a buffer, except that what a drive shows may change so     *)
(* that a range of its addresses is in doubt: a read may then answer with  *)
(* other bytes there and a write may leave other bytes there, and only     *)
(* there.                                                                  *)
(***************************************************************************)
EXTENDS Integers

CONSTANTS Drives,    \* BIOS drive numbers
          Media,     \* the disks behind them
          Bytes,     \* size of a disk
          Parts,     \* partitions: the addresses [lo, hi) they take
          Values,    \* values of a byte
          Data       \* what a write writes: the values of its bytes, from 0 on

VARIABLES disk,      \* the contents of each disk
          unit,      \* the disk each drive shows
          job,       \* the request being served
          answer,    \* how the last request ended
          doubt      \* the addresses in doubt: those from lo to hi of a drive

vars == <<disk, unit, job, answer, doubt>>

NoBytes == [k \in {} |-> 0]
Ended(how) == [end |-> how, bytes |-> NoBytes]
Read(bytes) == [end |-> "read", bytes |-> bytes]

\* The window of a request that is not confined to a partition.
Whole == [lo |-> 0, hi |-> 0]

NoJob == [kind |-> "none", drive |-> "none", part |-> Whole, at |-> 0, len |-> 0]

Span(j) == j.at .. j.at + j.len - 1

NoDoubt == [drive |-> "none", lo |-> 0, hi |-> 0]

\* Doubts end, they do not move.
Settle == doubt' \in {doubt, NoDoubt}

\* Whether address a of the request's drive is in doubt.
Doubted(a) == job.drive = doubt.drive /\ doubt.lo =< a /\ a < doubt.hi

\* Byte k of the request is v on the disk, unless it is in doubt.
Right(k, v) == Doubted(job.at + k) \/ disk[unit[job.drive]][job.at + k] = v

-----------------------------------------------------------------------------
\* The medium in a drive is changed, or the drive is mapped to another one.
Rewire ==
    /\ job = NoJob
    /\ unit' \in [Drives -> Media]
    /\ Settle
    /\ UNCHANGED <<disk, job, answer>>

\* What drives show is changed, and some of it comes into doubt.
Unhook ==
    /\ job = NoJob
    /\ unit' \in [Drives -> Media]
    /\ doubt' \in [drive : Drives, lo : Nat, hi : Nat]
    /\ UNCHANGED <<disk, job, answer>>

Confined(j) == j.part = Whole \/ (j.part.lo =< j.at /\ j.at + j.len =< j.part.hi)

\* A request that lies inside its partition.
Ask ==
    /\ job = NoJob
    /\ job'.kind \in {"read", "write", "list"} /\ job'.drive \in Drives
    /\ job'.part \in Parts \union {Whole} /\ job'.at \in Nat /\ job'.len \in Nat
    /\ Confined(job')
    /\ answer' = Ended("none")
    /\ Settle
    /\ UNCHANGED <<disk, unit>>

Refuse ==
    /\ job = NoJob
    /\ answer' = Ended("failed")
    /\ UNCHANGED <<disk, unit, job, doubt>>

\* At most some bytes of a write reach the disk.
Progress ==
    /\ DOMAIN disk' = Media
    /\ \A m \in Media : DOMAIN disk'[m] = 0 .. Bytes - 1
    /\ \A m \in Media : \A a \in 0 .. Bytes - 1 :
          \/ disk'[m][a] = disk[m][a]
          \/ /\ job.kind = "write" /\ m = unit[job.drive] /\ a \in Span(job)
             /\ disk'[m][a] = Data[a - job.at]
          \/ job.kind = "write" /\ m = unit[job.drive] /\ Doubted(a)

Land ==
    /\ job # NoJob
    /\ Progress
    /\ UNCHANGED <<unit, job, answer, doubt>>

Served ==
    /\ \/ /\ job.kind = "read"
          /\ Span(job) \subseteq 0 .. Bytes - 1
          /\ answer' = Read(answer'.bytes) /\ DOMAIN answer'.bytes = 0 .. job.len - 1
          /\ \A k \in 0 .. job.len - 1 : Right(k, answer'.bytes[k])
       \/ /\ job.kind = "write"
          /\ Span(job) \subseteq 0 .. Bytes - 1
          /\ \A k \in 0 .. job.len - 1 : Right(k, Data[k])
          /\ answer' = Ended("written")
       \/ job.kind = "list" /\ answer' = Ended("listed")
    /\ job' = NoJob
    /\ UNCHANGED <<disk, unit, doubt>>

Fail ==
    /\ job # NoJob
    /\ Progress
    /\ answer' = Ended("failed")
    /\ job' = NoJob
    /\ UNCHANGED <<unit, doubt>>

Init ==
    /\ disk \in [Media -> [0 .. Bytes - 1 -> Values]]
    /\ unit \in [Drives -> Media]
    /\ job = NoJob
    /\ answer = Ended("none")
    /\ doubt = NoDoubt

Next ==
    \/ Rewire
    \/ Unhook
    \/ Ask
    \/ Refuse
    \/ Land
    \/ Served
    \/ Fail

Spec == Init /\ [][Next]_vars
=============================================================================
