----------------------------- MODULE WeeDiskProofs -----------------------------
(***************************************************************************)
(* Proofs about wee's disk access, for every size of sectors, tracks and   *)
(* disks, every number of requests and every number of errors: the track   *)
(* buffer is stale after a map that failed and at no other time, and       *)
(* rawread with its buffer does what BlockDev promises.                    *)
(***************************************************************************)
EXTENDS WeeDisk, TLAPS

-----------------------------------------------------------------------------
(***************************************************************************)
(* Arithmetic.                                                             *)
(***************************************************************************)

\* Division with remainder.
LEMMA Division ==
    ASSUME NEW x \in Nat, NEW s \in Nat \ {0}
    PROVE  /\ x \div s \in Nat /\ x % s \in Nat /\ x % s < s
           /\ x = s * (x \div s) + (x % s)
  OBVIOUS

\* Products grow with their factors.
LEMMA Products ==
    /\ \A x, y, s \in Int : (x + y) * s = x * s + y * s
    /\ \A x, y, s \in Int : (x - y) * s = x * s - y * s
    /\ \A x, s \in Nat : x * s \in Nat
    /\ \A x \in Nat, s \in Nat : x >= 1 => x * s >= s
    /\ \A x, y, s \in Nat : x =< y => x * s =< y * s
<1>1. /\ \A x, y, s \in Int : (x + y) * s = x * s + y * s
      /\ \A x, y, s \in Int : (x - y) * s = x * s - y * s
  OBVIOUS
<1>2. \A x, s \in Nat : x * s \in Nat
  OBVIOUS
<1>3. \A x, y, s \in Nat : x =< y => x * s =< y * s
  <2>1. ASSUME NEW x \in Nat, NEW y \in Nat, NEW s \in Nat, x =< y PROVE x * s =< y * s
    <3>1. y - x \in Nat /\ (y - x) * s \in Nat /\ (y - x) * s = y * s - x * s
      BY <1>1, <1>2, <2>1
    <3>2. x * s \in Int /\ y * s \in Int
      BY <1>2
    <3> QED
      BY <3>1, <3>2
  <2> QED
    BY <2>1
<1>4. \A x \in Nat, s \in Nat : x >= 1 => x * s >= s
  <2>1. ASSUME NEW x \in Nat, NEW s \in Nat, x >= 1 PROVE x * s >= s
    <3>1. 1 * s =< x * s /\ x * s \in Nat /\ 1 * s = s
      BY <1>2, <1>3, <2>1
    <3> QED
      BY <3>1
  <2> QED
    BY <2>1
<1> QED
  BY <1>1, <1>2, <1>3, <1>4

\* Enough whole sectors for x bytes.
LEMMA RoundedUp ==
    ASSUME NEW x \in Nat, NEW s \in Nat \ {0}
    PROVE  (x + s - 1) \div s \in Nat /\ x =< ((x + s - 1) \div s) * s
<1>1. x + s - 1 \in Nat
  OBVIOUS
<1>. DEFINE q == (x + s - 1) \div s
            r == (x + s - 1) % s
<1>2. q \in Nat /\ r \in Nat /\ r < s /\ x + s - 1 = s * q + r
  BY <1>1, Division
<1>3. s * q = q * s /\ q * s \in Int
  BY <1>2
<1>. HIDE DEF q, r
<1>4. x =< q * s
  BY <1>2, <1>3
<1> QED
  BY <1>2, <1>4 DEF q

-----------------------------------------------------------------------------
(***************************************************************************)
(* The inductive invariant.                                                *)
(***************************************************************************)

\* There is a request exactly while rawread runs.
JobOK ==
    IF mode = "raw"
    THEN /\ job \in [kind : {"read", "write", "list"}, drive : Drives,
                     part : {BD!Whole} \union {Bounds(p) : p \in Parts},
                     at : Nat, len : Lengths]
         /\ offset < S /\ pos =< job.len
    ELSE job = BD!NoJob

\* What the request has done lies on the disk.
ReachOK ==
    mode = "raw" /\ job.kind # "list" => pos = 0 \/ job.at + pos =< Bytes

\* A track in the buffer, stale or not, is one of bytes that were on a disk.
TrackRead ==
    bufDrive # None /\ bufTrack # None => \A a \in 0 .. Track - 1 : buffer[a] \in Contents

\* The inductive invariant.
DiskIInv == TypeOK /\ JobOK /\ ReachOK /\ TrackRead /\ BufferMatches /\ RequestDone

Stale(t) == stale = [drive |-> job.drive, track |-> t]

\* The addresses in doubt for a request are those of the stale track.
LEMMA DoubtIs ==
    ASSUME NEW t \in Nat, Stale(t), job.drive \in Drives
    PROVE  \A x : t * S =< x /\ x < (t + T) * S => BD!Doubted(x)
<1>1. stale # NoTrack /\ stale.drive = job.drive /\ stale.track = t
  BY NoneAssumption DEF Stale, NoTrack
<1>2. Doubt.drive = job.drive /\ Doubt.lo = t * S /\ Doubt.hi = (t + T) * S
  BY <1>1 DEF Doubt
<1> QED
  BY <1>2 DEF BD!Doubted

\* While the stale track is the same one, the doubt is.
LEMMA DoubtSame == ASSUME stale' = stale PROVE Doubt' = Doubt
BY DEF Doubt, NoTrack

\* Without a stale track nothing is in doubt.
LEMMA DoubtEnds == ASSUME stale' = NoTrack PROVE BD!Settle
BY DEF Doubt, NoTrack, BD!Settle, BD!NoDoubt

LEMMA DoubtedSame ==
    ASSUME stale' = stale, job' = job
    PROVE  \A x : BD!Doubted(x)' <=> BD!Doubted(x)
BY DoubtSame DEF BD!Doubted

\* The sizes.
LEMMA Sizes ==
    /\ S \in Nat \ {0} /\ T \in Nat \ {0} /\ Sectors \in Nat
    /\ Bytes \in Nat /\ Track \in Nat /\ Bytes = Sectors * S /\ Track = T * S
  BY SizesAssumption, Products DEF Bytes, Track

\* No request is longer than the longest.
LEMMA Longest == MaxLength \in Lengths /\ MaxLength \in Nat /\ \A n \in Lengths : n =< MaxLength
<1>1. \E n \in Lengths : \A k \in Lengths : k =< n
  BY RequestsAssumption
<1>2. MaxLength \in Lengths /\ \A k \in Lengths : k =< MaxLength
  BY <1>1 DEF MaxLength
<1> QED
  BY <1>2, RequestsAssumption

-----------------------------------------------------------------------------
(***************************************************************************)
(* One turn of rawread.                                                    *)
(***************************************************************************)

\* What the type of a request says.
LEMMA JobTypes ==
    ASSUME DiskIInv, mode = "raw"
    PROVE  /\ job.kind \in {"read", "write", "list"} /\ job.drive \in Drives
           /\ job.part \in {BD!Whole} \union {Bounds(p) : p \in Parts}
           /\ job.at \in Nat /\ job.len \in Nat /\ job.len \in Lengths /\ job.len =< MaxLength
           /\ sector \in Nat /\ offset \in Nat /\ offset < S
           /\ pos \in Nat /\ pos =< job.len
           /\ unit[job.drive] \in Media
           /\ job # BD!NoJob
<1>1. job \in [kind : {"read", "write", "list"}, drive : Drives,
               part : {BD!Whole} \union {Bounds(p) : p \in Parts},
               at : Nat, len : Lengths]
  BY DEF DiskIInv, JobOK
<1>2. job.kind \in {"read", "write", "list"} /\ job.drive \in Drives
  BY <1>1
<1>3. job.part \in {BD!Whole} \union {Bounds(p) : p \in Parts}
  BY <1>1
<1>4. job.at \in Nat /\ job.len \in Lengths
  BY <1>1
<1>5. job.len \in Nat /\ job.len =< MaxLength
  BY <1>4, RequestsAssumption, Longest
<1>6. sector \in Nat /\ offset \in Nat /\ offset < S /\ pos \in Nat /\ pos =< job.len
  BY DEF DiskIInv, JobOK, TypeOK
<1>7. unit[job.drive] \in Media
  BY <1>2 DEF DiskIInv, TypeOK
<1>8. job # BD!NoJob
  BY <1>2 DEF BD!NoJob
<1> QED
  BY <1>2, <1>3, <1>4, <1>5, <1>6, <1>7, <1>8

\* The numbers of a turn.
LEMMA TurnNumbers ==
    ASSUME DiskIInv, Turn
    PROVE  /\ InTrack \in Nat /\ Rest \in Nat \ {0} /\ InTrack + Rest = T
           /\ First \in Nat /\ sector = First + InTrack
           /\ InTrack * S \in Nat /\ Rest * S \in Nat
           /\ First * S \in Nat /\ sector * S \in Nat
           /\ sector * S = First * S + InTrack * S
           /\ Track = InTrack * S + Rest * S
           /\ Needed \in Nat \ {0} /\ offset + Left =< Needed * S
           /\ Left \in Nat \ {0} /\ pos + Left = job.len
           /\ sector * S + offset = job.at + pos
<1>. USE JobTypes, Sizes DEF Turn
<1>1. InTrack \in Nat /\ InTrack < T /\ sector = T * (sector \div T) + InTrack
      /\ sector \div T \in Nat
  BY Division DEF InTrack
<1>2. T * (sector \div T) \in Nat
  BY <1>1, Products
<1>3. First \in Nat /\ sector = First + InTrack
  BY <1>1, <1>2 DEF First
<1>4. Rest \in Nat \ {0} /\ InTrack + Rest = T
  BY <1>1 DEF Rest
<1>5. /\ InTrack * S \in Nat /\ Rest * S \in Nat /\ First * S \in Nat /\ sector * S \in Nat
      /\ (First + InTrack) * S = First * S + InTrack * S
      /\ (InTrack + Rest) * S = InTrack * S + Rest * S
  BY <1>1, <1>3, <1>4, Products
<1>6. sector * S = First * S + InTrack * S /\ Track = InTrack * S + Rest * S
  BY <1>3, <1>4, <1>5
<1>7. Left \in Nat \ {0} /\ pos + Left = job.len
  BY DEF Left
<1>8. offset + Left \in Nat \ {0}
  BY <1>7
<1>9. Needed \in Nat /\ offset + Left =< Needed * S
  BY <1>8, RoundedUp DEF Needed
<1>10. Needed # 0
  <2>1. 0 * S = 0
    OBVIOUS
  <2>2. Needed = 0 => offset + Left =< 0
    BY <1>9, <2>1
  <2> QED
    BY <1>8, <2>2
<1>11. sector * S + offset = job.at + pos
  BY <1>7 DEF DiskIInv, RequestDone
<1> QED
  BY <1>1, <1>3, <1>4, <1>5, <1>6, <1>7, <1>9, <1>10, <1>11

\* The bytes that n sectors of the track give the request.
LEMMA SizeNumbers ==
    ASSUME DiskIInv, Turn, NEW n \in Nat \ {0}, n =< Rest
    PROVE  /\ n * S \in Nat /\ n * S =< Rest * S /\ (sector + n) * S = sector * S + n * S
           /\ Size(n) \in Nat \ {0} /\ Size(n) =< Left /\ offset + Size(n) =< n * S
           /\ Size(n) < Left => offset + Size(n) = n * S
           /\ At \in Nat /\ At = InTrack * S + offset
<1>. USE TurnNumbers, JobTypes, Sizes DEF Turn
<1>1. n * S \in Nat /\ n * S =< Rest * S /\ n * S >= S
  BY Products
<1>2. (sector + n) * S = sector * S + n * S
  BY Products
<1>. DEFINE x == n * S
            y == InTrack * S
<1>3. x \in Nat /\ x >= S /\ y \in Nat
  BY <1>1
<1>4. Size(n) = Min2(Left, x - offset) /\ At = y + offset
  BY DEF Size, At
<1>. HIDE DEF x, y
<1>5. /\ Size(n) \in Nat \ {0} /\ Size(n) =< Left /\ offset + Size(n) =< x
      /\ Size(n) < Left => offset + Size(n) = x
      /\ At \in Nat /\ At = y + offset
  BY <1>3, <1>4 DEF Min2
<1> QED
  BY <1>1, <1>2, <1>5 DEF x, y

\* Buffer b holds the n sectors from the one rawread is at on: their addresses on
\* the disk, less that of the first sector of the track, are their places in it.
Loaded(b, n) ==
    \A x \in sector * S .. sector * S + n * S - 1 :
        /\ x \in 0 .. Bytes - 1 /\ x - First * S \in 0 .. Track - 1
        /\ b[x - First * S] \in Contents
        /\ b[x - First * S] = Shown(x) \/ BD!Doubted(x)

\* Buffer b holds the whole of track t, or what was that track.
Whole(b, t) ==
    /\ t \in Nat /\ t + T =< Sectors
    /\ \A a \in 0 .. Track - 1 : b[a] \in Contents
    /\ ~Stale(t) => \A a \in 0 .. Track - 1 : b[a] = Shown(t * S + a)

BufferOK(b) == b \in [0 .. Track - 1 -> Contents \union {Garbage}]

\* Sectors on the disk lie among its bytes.
LEMMA OnDiskBytes ==
    ASSUME NEW s \in Nat, NEW n \in Nat, OnDisk(s, n)
    PROVE  s * S \in Nat /\ n * S \in Nat /\ s * S + n * S =< Bytes
<1>1. s * S \in Nat /\ n * S \in Nat /\ (s + n) * S = s * S + n * S
  BY Sizes, Products
<1>2. s + n \in Nat /\ s + n =< Sectors
  BY Sizes DEF OnDisk
<1>3. (s + n) * S =< Sectors * S
  BY <1>2, Sizes, Products
<1> QED
  BY <1>1, <1>3, Sizes

\* What a drive shows.
LEMMA ShownBytes ==
    ASSUME DiskIInv, mode = "raw", NEW x \in 0 .. Bytes - 1
    PROVE  Shown(x) \in Contents
<1>1. disk[unit[job.drive]] \in [0 .. Bytes - 1 -> Contents]
  BY JobTypes DEF DiskIInv, TypeOK
<1> QED
  BY <1>1 DEF Shown

\* The end of a track that is in the buffer is loaded.
LEMMA WholeLoaded ==
    ASSUME DiskIInv, Turn, NEW b, Whole(b, First)
    PROVE  Loaded(b, Rest)
<1>. USE TurnNumbers
<1>1. First * S + Track =< Bytes
  BY OnDiskBytes, Sizes DEF OnDisk, Whole
<1>3. job.drive \in Drives /\ (First + T) * S = First * S + Track
  BY JobTypes, Sizes, Products DEF Turn
<1>2. ASSUME NEW x \in sector * S .. sector * S + Rest * S - 1
      PROVE  /\ x \in 0 .. Bytes - 1 /\ x - First * S \in 0 .. Track - 1
             /\ b[x - First * S] \in Contents
             /\ b[x - First * S] = Shown(x) \/ BD!Doubted(x)
  <2>. DEFINE f == First * S
              i == InTrack * S
              r == Rest * S
              z == sector * S
  <2>1. /\ f \in Nat /\ i \in Nat /\ r \in Nat /\ z = f + i /\ Track = i + r
        /\ f + Track =< Bytes /\ x \in z .. z + r - 1
    BY <1>1
  <2>2. Bytes \in Nat
    BY Sizes
  <2>3. /\ \A a \in 0 .. Track - 1 : b[a] \in Contents
        /\ ~Stale(First) => \A a \in 0 .. Track - 1 : b[a] = Shown(f + a)
    BY DEF Whole
  <2>6. Stale(First) => \A y : f =< y /\ y < f + Track => BD!Doubted(y)
    BY <1>3, DoubtIs
  <2>. HIDE DEF f, i, r, z
  <2>4. x \in 0 .. Bytes - 1 /\ x - f \in 0 .. Track - 1 /\ f + (x - f) = x
        /\ f =< x /\ x < f + Track
    BY <2>1, <2>2
  <2>5. b[x - f] \in Contents /\ (b[x - f] = Shown(x) \/ BD!Doubted(x))
    BY <2>3, <2>4, <2>6
  <2> QED
    BY <2>4, <2>5 DEF f
<1> QED
  BY <1>2 DEF Loaded

\* Reading n sectors from sector i of the track to the end of it at most fills
\* that part of the buffer with what the drive shows, and leaves its type.
LEMMA FilledOK ==
    ASSUME DiskIInv, Turn, NEW b, BufferOK(b), NEW i \in Nat, NEW n \in Nat,
           i + n =< T, OnDisk(First + i, n)
    PROVE  BufferOK(Filled(b, i, n))
<1>. USE TurnNumbers
<1>1. /\ i * S \in Nat /\ n * S \in Nat /\ (i + n) * S = i * S + n * S
      /\ (First + i) * S = First * S + i * S
      /\ (First + i) * S + n * S =< Bytes
  <2>1. First + i \in Nat
    OBVIOUS
  <2> QED
    BY <2>1, OnDiskBytes, Sizes, Products
<1>2. ASSUME NEW a \in 0 .. Track - 1
      PROVE  Filled(b, i, n)[a] \in Contents \union {Garbage}
  <2>1. Filled(b, i, n)[a] =
           IF i * S =< a /\ a < (i + n) * S THEN Shown(First * S + a) ELSE b[a]
    BY DEF Filled
  <2>2. b[a] \in Contents \union {Garbage}
    BY DEF BufferOK
  <2>3. CASE i * S =< a /\ a < (i + n) * S
    <3>1. First * S + a \in 0 .. Bytes - 1
      BY <1>1, <2>3, Sizes
    <3>2. Shown(First * S + a) \in Contents
      BY <3>1, ShownBytes DEF Turn
    <3> QED
      BY <2>1, <2>3, <3>2
  <2> QED
    BY <2>1, <2>2, <2>3
<1>3. Filled(b, i, n) = [a \in 0 .. Track - 1 |-> Filled(b, i, n)[a]]
  BY DEF Filled
<1> QED
  BY <1>2, <1>3 DEF BufferOK

\* The whole track, read.
LEMMA FilledWhole ==
    ASSUME DiskIInv, Turn, NEW b, OnDisk(First, T)
    PROVE  Whole(Filled(b, 0, T), First)
<1>1. 0 * S = 0 /\ (0 + T) * S = Track
  BY Sizes
<1>2. ASSUME NEW a \in 0 .. Track - 1
      PROVE  Filled(b, 0, T)[a] = Shown(First * S + a)
  <2>1. Filled(b, 0, T)[a] =
           IF 0 * S =< a /\ a < (0 + T) * S THEN Shown(First * S + a) ELSE b[a]
    BY DEF Filled
  <2>2. 0 =< a /\ a < Track
    BY Sizes
  <2> QED
    BY <1>1, <2>1, <2>2
<1>3. \A a \in 0 .. Track - 1 : Filled(b, 0, T)[a] \in Contents
  <2>1. First * S + Track =< Bytes /\ First * S \in Nat
    BY TurnNumbers, OnDiskBytes, Sizes
  <2>2. \A a \in 0 .. Track - 1 : First * S + a \in 0 .. Bytes - 1
    BY <2>1, Sizes
  <2> QED
    BY <1>2, <2>2, ShownBytes DEF Turn
<1> QED
  BY <1>2, <1>3, TurnNumbers DEF Whole, OnDisk

\* Sectors of the track from the one rawread is at on, read.
LEMMA FilledLoaded ==
    ASSUME DiskIInv, Turn, NEW b, NEW n \in Nat \ {0}, n =< Rest, OnDisk(sector, n)
    PROVE  Loaded(Filled(b, InTrack, n), n)
<1>1. /\ First * S \in Nat /\ InTrack * S \in Nat /\ Rest * S \in Nat
      /\ sector * S = First * S + InTrack * S /\ Track = InTrack * S + Rest * S
      /\ InTrack \in Nat /\ sector \in Nat
  BY TurnNumbers, JobTypes DEF Turn
<1>2. n * S \in Nat /\ n * S =< Rest * S /\ (InTrack + n) * S = InTrack * S + n * S
  BY <1>1, SizeNumbers, Sizes, Products
<1>3. sector * S + n * S =< Bytes
  BY <1>1, OnDiskBytes
<1>4. ASSUME NEW x \in sector * S .. sector * S + n * S - 1
      PROVE  /\ x \in 0 .. Bytes - 1 /\ x - First * S \in 0 .. Track - 1
             /\ Filled(b, InTrack, n)[x - First * S] = Shown(x)
             /\ Filled(b, InTrack, n)[x - First * S] \in Contents
  <2>. DEFINE f == First * S
              i == InTrack * S
              r == Rest * S
              z == sector * S
              m == n * S
              e == (InTrack + n) * S
  <2>1. /\ f \in Nat /\ i \in Nat /\ r \in Nat /\ z = f + i /\ Track = i + r
        /\ m \in Nat /\ m =< r /\ e = i + m /\ z + m =< Bytes /\ x \in z .. z + m - 1
    BY <1>1, <1>2, <1>3
  <2>2. \A a \in 0 .. Track - 1 :
           Filled(b, InTrack, n)[a] = IF i =< a /\ a < e THEN Shown(f + a) ELSE b[a]
    BY DEF Filled
  <2>3. Bytes \in Nat
    BY Sizes
  <2>. HIDE DEF f, i, r, z, m, e
  <2>4. /\ x \in 0 .. Bytes - 1 /\ x - f \in 0 .. Track - 1 /\ f + (x - f) = x
        /\ i =< x - f /\ x - f < e
    BY <2>1, <2>3
  <2>5. Filled(b, InTrack, n)[x - f] = Shown(x)
    BY <2>2, <2>4
  <2>6. Shown(x) \in Contents
    BY <2>4, ShownBytes DEF Turn
  <2> QED
    BY <2>4, <2>5, <2>6 DEF f
<1> QED
  BY <1>4 DEF Loaded

-----------------------------------------------------------------------------
(***************************************************************************)
(* What is done with the sectors in the buffer.                            *)
(***************************************************************************)

\* The request's bytes in n sectors of the track.
Piece(n) == job.at + pos .. job.at + pos + Size(n) - 1

\* They lie in those sectors, on the disk.
LEMMA PieceNumbers ==
    ASSUME DiskIInv, Turn, NEW n \in Nat \ {0}, n =< Rest, NEW b, Loaded(b, n)
    PROVE  /\ Piece(n) \subseteq sector * S .. sector * S + n * S - 1
           /\ Piece(n) \subseteq 0 .. Bytes - 1
           /\ job.at + pos + Size(n) =< Bytes
           /\ Piece(n) \subseteq BD!Span(job)
           /\ pos + Size(n) =< job.len /\ pos + Size(n) \in Nat
<1>1. /\ n * S \in Nat /\ Size(n) \in Nat \ {0} /\ offset + Size(n) =< n * S
      /\ Size(n) =< Left
  BY SizeNumbers
<1>2. /\ job.at \in Nat /\ pos \in Nat /\ job.len \in Nat /\ offset \in Nat
      /\ sector * S \in Nat /\ sector * S + offset = job.at + pos /\ pos + Left = job.len
      /\ Left \in Nat
  BY JobTypes, TurnNumbers DEF Turn
<1>. DEFINE z == sector * S
            m == n * S
            w == Size(n)
            at == job.at
<1>3. \A x \in z .. z + m - 1 : x \in 0 .. Bytes - 1
  BY DEF Loaded
<1>4. /\ at \in Nat /\ z \in Nat /\ m \in Nat /\ w \in Nat \ {0} /\ offset + w =< m
      /\ z + offset = at + pos /\ pos + w =< job.len
  BY <1>1, <1>2
<1>5. Piece(n) = at + pos .. at + pos + w - 1 /\ BD!Span(job) = at .. at + job.len - 1
  BY DEF Piece, BD!Span
<1>6. Bytes \in Nat
  BY Sizes
<1>. HIDE DEF z, m, w, at
<1>7. Piece(n) \subseteq z .. z + m - 1
  BY <1>2, <1>4, <1>5
<1>8. Piece(n) \subseteq 0 .. Bytes - 1
  BY <1>3, <1>7
<1>9. at + pos + w - 1 \in Piece(n)
  BY <1>2, <1>4, <1>5
<1>10. at + pos + w =< Bytes
  BY <1>2, <1>4, <1>6, <1>8, <1>9
<1>11. Piece(n) \subseteq BD!Span(job)
  BY <1>2, <1>4, <1>5
<1> QED
  BY <1>2, <1>4, <1>7, <1>8, <1>10, <1>11 DEF z, m, w, at

\* The sectors in the buffer after the write was merged into them.
LEMMA MergedBytes ==
    ASSUME DiskIInv, Turn, NEW n \in Nat \ {0}, n =< Rest, NEW b, Loaded(b, n),
           NEW x \in sector * S .. sector * S + n * S - 1
    PROVE  /\ x \in Piece(n) => Merged(b, n)[x - First * S] = Data[x - job.at]
           /\ x \notin Piece(n) =>
                 /\ Merged(b, n)[x - First * S] \in Contents
                 /\ Merged(b, n)[x - First * S] = Shown(x) \/ BD!Doubted(x)
<1>. DEFINE f == First * S
            z == sector * S
            i == InTrack * S
            w == Size(n)
            at == job.at
<1>1. /\ x - f \in 0 .. Track - 1 /\ b[x - f] \in Contents
      /\ b[x - f] = Shown(x) \/ BD!Doubted(x)
      /\ x \in 0 .. Bytes - 1
  BY DEF Loaded
<1>2. \A a \in 0 .. Track - 1 : Merged(b, n)[a] =
         IF At =< a /\ a < At + w THEN Data[pos + a - At] ELSE b[a]
  BY DEF Merged
<1>3. /\ f \in Nat /\ z \in Nat /\ i \in Nat /\ w \in Nat /\ at \in Nat
      /\ pos \in Nat /\ offset \in Nat /\ At = i + offset /\ z = f + i
      /\ z + offset = at + pos
  BY TurnNumbers, SizeNumbers, JobTypes DEF Turn
<1>4. Piece(n) = at + pos .. at + pos + w - 1
  BY DEF Piece
<1>5. x \in Int
  BY Sizes, <1>1
<1>. HIDE DEF f, z, i, w, at
<1>6. /\ x \in Piece(n) <=> (At =< x - f /\ x - f < At + w)
      /\ pos + (x - f) - At = x - at
  BY <1>3, <1>4, <1>5
<1>7. Merged(b, n)[x - f] = IF At =< x - f /\ x - f < At + w
                            THEN Data[pos + (x - f) - At] ELSE b[x - f]
  BY <1>1, <1>2
<1>8. /\ x \in Piece(n) => Merged(b, n)[x - f] = Data[x - at]
      /\ x \notin Piece(n) => /\ Merged(b, n)[x - f] \in Contents
                              /\ Merged(b, n)[x - f] = Shown(x) \/ BD!Doubted(x)
  BY <1>1, <1>6, <1>7
<1>9. f = First * S /\ at = job.at
  BY DEF f, at
<1> QED
  BY <1>8, <1>9

\* The data of a write are values of bytes.
LEMMA DataValues == \A k \in Nat : k < MaxLength => Data[k] \in Contents
<1>1. \A k \in Nat : k < MaxLength => k \in 0 .. MaxLength - 1
  BY Longest
<1> QED
  BY <1>1 DEF Contents

\* Merging leaves the type of the buffer.
LEMMA MergedOK ==
    ASSUME DiskIInv, Turn, NEW n \in Nat \ {0}, n =< Rest, NEW b, BufferOK(b)
    PROVE  BufferOK(Merged(b, n))
<1>1. ASSUME NEW a \in 0 .. Track - 1
      PROVE  Merged(b, n)[a] \in Contents \union {Garbage}
  <2>1. Merged(b, n)[a] =
           IF At =< a /\ a < At + Size(n) THEN Data[pos + a - At] ELSE b[a]
    BY DEF Merged
  <2>2. b[a] \in Contents \union {Garbage}
    BY DEF BufferOK
  <2>3. CASE At =< a /\ a < At + Size(n)
    <3>1. /\ At \in Nat /\ Size(n) \in Nat /\ Size(n) =< Left /\ pos + Left = job.len
          /\ pos \in Nat /\ job.len =< MaxLength /\ job.len \in Nat /\ Left \in Nat
          /\ MaxLength \in Nat
      BY SizeNumbers, TurnNumbers, JobTypes, Longest DEF Turn
    <3>2. a \in Int
      BY Sizes
    <3>3. pos + a - At \in Nat /\ pos + a - At < MaxLength
      BY <2>3, <3>1, <3>2
    <3> QED
      BY <2>1, <2>3, <3>3, DataValues
  <2> QED
    BY <2>1, <2>2, <2>3
<1>2. Merged(b, n) = [a \in 0 .. Track - 1 |-> Merged(b, n)[a]]
  BY DEF Merged
<1> QED
  BY <1>1, <1>2 DEF BufferOK

\* The disk after the first k of n sectors were written.
LEMMA StoredBytes ==
    ASSUME DiskIInv, Turn, NEW n \in Nat \ {0}, n =< Rest, NEW b, Loaded(b, n),
           NEW k \in 0 .. n, disk' = Stored(Merged(b, n), k)
    PROVE  /\ DOMAIN disk' = Media /\ \A m \in Media : DOMAIN disk'[m] = 0 .. Bytes - 1
           /\ \A m \in Media : m # unit[job.drive] => disk'[m] = disk[m]
           /\ \A x \in 0 .. Bytes - 1 :
                 IF x \in Piece(n) /\ x < (sector + k) * S
                 THEN disk'[unit[job.drive]][x] = Data[x - job.at]
                 ELSE /\ disk'[unit[job.drive]][x] \in Contents
                      /\ disk'[unit[job.drive]][x] = Shown(x) \/ BD!Doubted(x)
<1>. DEFINE u == unit[job.drive]
<1>1. /\ DOMAIN disk = Media /\ \A m \in Media : DOMAIN disk[m] = 0 .. Bytes - 1
      /\ u \in Media
  BY JobTypes DEF DiskIInv, TypeOK, Turn
<1>2. /\ DOMAIN disk' = Media
      /\ \A m \in Media : m # u => disk'[m] = disk[m]
      /\ disk'[u] = [a \in 0 .. Bytes - 1 |->
            IF sector * S =< a /\ a < (sector + k) * S
            THEN Merged(b, n)[a - First * S] ELSE disk[u][a]]
  BY <1>1 DEF Stored
<1>3. ASSUME NEW x \in 0 .. Bytes - 1
      PROVE  IF x \in Piece(n) /\ x < (sector + k) * S
             THEN disk'[u][x] = Data[x - job.at]
             ELSE disk'[u][x] \in Contents /\ (disk'[u][x] = Shown(x) \/ BD!Doubted(x))
  <2>. DEFINE z == sector * S
              e == (sector + k) * S
              f == First * S
              y == n * S
  <2>1. disk'[u][x] = IF z =< x /\ x < e THEN Merged(b, n)[x - f] ELSE Shown(x)
    BY <1>2 DEF Shown
  <2>2. e =< z + y /\ e \in Nat /\ z \in Nat /\ y \in Nat
    <3>1. sector \in Nat /\ sector + k \in Nat /\ sector + n \in Nat /\ sector + k =< sector + n
      BY JobTypes DEF Turn
    <3>2. (sector + k) * S =< (sector + n) * S /\ (sector + k) * S \in Nat
      BY <3>1, Sizes, Products
    <3>3. (sector + n) * S = z + y /\ y \in Nat
      BY SizeNumbers
    <3>4. z \in Nat
      BY TurnNumbers
    <3> QED
      BY <3>2, <3>3, <3>4
  <2>3. x \in z .. z + y - 1 =>
           IF x \in Piece(n) THEN Merged(b, n)[x - f] = Data[x - job.at]
           ELSE /\ Merged(b, n)[x - f] \in Contents
                /\ Merged(b, n)[x - f] = Shown(x) \/ BD!Doubted(x)
    BY MergedBytes
  <2>4. x \in Piece(n) => x \in z .. z + y - 1
    BY PieceNumbers
  <2>5. x \in Int /\ Shown(x) \in Contents
    BY Sizes, ShownBytes DEF Turn
  <2>. HIDE DEF z, e, f, y
  <2>6. CASE z =< x /\ x < e
    <3>1. x \in z .. z + y - 1
      BY <2>2, <2>5, <2>6
    <3> QED
      BY <2>1, <2>3, <2>6, <3>1 DEF e
  <2>7. CASE ~(z =< x /\ x < e)
    <3>1. ~(x \in Piece(n) /\ x < e)
      BY <2>2, <2>4, <2>5, <2>7
    <3> QED
      BY <2>1, <2>5, <2>7, <3>1 DEF e
  <2> QED
    BY <2>6, <2>7
<1> QED
  BY <1>1, <1>2, <1>3

\* Writing the first k sectors back is progress of the write.
LEMMA StoredOK ==
    ASSUME DiskIInv, Turn, job.kind = "write", NEW n \in Nat \ {0}, n =< Rest,
           NEW b, Loaded(b, n), NEW k \in 0 .. n, disk' = Stored(Merged(b, n), k)
    PROVE  BD!Progress /\ disk' \in [Media -> [0 .. Bytes - 1 -> Contents]]
<1>. DEFINE u == unit[job.drive]
<1>1. /\ DOMAIN disk' = Media /\ \A m \in Media : DOMAIN disk'[m] = 0 .. Bytes - 1
      /\ \A m \in Media : m # u => disk'[m] = disk[m]
      /\ \A x \in 0 .. Bytes - 1 :
            IF x \in Piece(n) /\ x < (sector + k) * S
            THEN disk'[u][x] = Data[x - job.at]
            ELSE disk'[u][x] \in Contents /\ (disk'[u][x] = Shown(x) \/ BD!Doubted(x))
  BY StoredBytes
<1>2. \A m \in Media : \A a \in 0 .. Bytes - 1 :
         \/ disk'[m][a] = disk[m][a]
         \/ m = u /\ a \in BD!Span(job) /\ disk'[m][a] = Data[a - job.at]
         \/ m = u /\ BD!Doubted(a) /\ disk'[m][a] \in Contents
  <2>1. ASSUME NEW a \in 0 .. Bytes - 1
        PROVE  \/ disk'[u][a] = disk[u][a]
               \/ a \in BD!Span(job) /\ disk'[u][a] = Data[a - job.at]
               \/ BD!Doubted(a) /\ disk'[u][a] \in Contents
    BY <1>1, PieceNumbers DEF Shown
  <2> QED
    BY <1>1, <2>1
<1>3. BD!Progress
  BY <1>1, <1>2 DEF BD!Progress
<1>4. \A m \in Media : \A a \in 0 .. Bytes - 1 : disk[m][a] \in Contents
  BY DEF DiskIInv, TypeOK
<1>5. \A a \in BD!Span(job) : Data[a - job.at] \in Contents
  <2>1. ASSUME NEW a \in BD!Span(job) PROVE Data[a - job.at] \in Contents
    <3>1. job.at \in Nat /\ job.len \in Nat /\ job.len =< MaxLength /\ MaxLength \in Nat
      BY JobTypes, Longest DEF Turn
    <3>2. a \in job.at .. job.at + job.len - 1
      BY DEF BD!Span
    <3>3. a - job.at \in Nat /\ a - job.at < MaxLength
      BY <3>1, <3>2
    <3> QED
      BY <3>3, DataValues
  <2> QED
    BY <2>1
<1>6. ASSUME NEW m \in Media PROVE disk'[m] \in [0 .. Bytes - 1 -> Contents]
  <2>1. \A a \in 0 .. Bytes - 1 : disk'[m][a] \in Contents
    BY <1>2, <1>4, <1>5
  <2>2. disk'[m] = [a \in 0 .. Bytes - 1 |-> disk'[m][a]]
    <3>1. CASE m = u
      <4>1. disk'[u] = [a \in 0 .. Bytes - 1 |->
              IF sector * S =< a /\ a < (sector + k) * S
              THEN Merged(b, n)[a - First * S] ELSE disk[u][a]]
        BY JobTypes DEF Stored, DiskIInv, TypeOK, Turn
      <4> QED
        BY <3>1, <4>1
    <3>2. CASE m # u
      BY <1>1, <3>2 DEF DiskIInv, TypeOK
    <3> QED
      BY <3>1, <3>2
  <2> QED
    BY <2>1, <2>2
<1>7. disk' = [m \in Media |-> disk'[m]]
  BY JobTypes DEF Stored, DiskIInv, TypeOK, Turn
<1> QED
  BY <1>3, <1>6, <1>7

\* rawread goes on behind n sectors, with its place in the request and what is
\* true of it.
LEMMA Advanced ==
    ASSUME DiskIInv, Turn, NEW n \in Nat \ {0}, n =< Rest, Advance(n, Size(n)), mode' = mode
    PROVE  /\ mode' = "raw" /\ job' = job /\ unit' = unit /\ stale' = stale
           /\ sector' \in Nat /\ offset' = 0 /\ pos' \in Nat /\ pos' = pos + Size(n)
           /\ JobOK'
           /\ Left' > 0 => sector' * S + offset' = job'.at + pos'
<1>1. /\ mode' = "raw" /\ job' = job /\ unit' = unit /\ stale' = stale
      /\ sector' = sector + n /\ offset' = 0 /\ pos' = pos + Size(n)
  BY DEF Advance, Turn
<1>2. /\ Size(n) \in Nat \ {0} /\ Size(n) =< Left /\ (sector + n) * S = sector * S + n * S
      /\ Size(n) < Left => offset + Size(n) = n * S
      /\ n * S \in Nat /\ sector * S \in Nat
      /\ pos + Left = job.len /\ Left \in Nat /\ sector * S + offset = job.at + pos
  BY SizeNumbers, TurnNumbers
<1>3. /\ sector \in Nat /\ pos \in Nat /\ offset \in Nat /\ job.at \in Nat /\ job.len \in Nat
      /\ S \in Nat \ {0}
  BY JobTypes, Sizes DEF Turn
<1>4. sector' \in Nat /\ pos' \in Nat /\ pos' =< job.len /\ offset' < S
  BY <1>1, <1>2, <1>3
<1>5. JobOK'
  BY <1>1, <1>4 DEF DiskIInv, JobOK, Turn
<1>6. ASSUME Left' > 0 PROVE sector' * S + offset' = job'.at + pos'
  <2>1. Left' = job.len - pos'
    BY <1>1 DEF Left
  <2>2. Size(n) < Left
    BY <1>1, <1>2, <1>3, <1>6, <2>1
  <2>3. offset + Size(n) = n * S
    BY <1>2, <2>2
  <2>. DEFINE z == sector * S
              y == n * S
              w == Size(n)
  <2>4. sector' * S = z + y
    BY <1>1, <1>2
  <2>5. z \in Nat /\ y \in Nat /\ w \in Nat /\ z + offset = job.at + pos /\ offset + w = y
        /\ pos' = pos + w
    BY <1>1, <1>2, <2>3
  <2>. HIDE DEF z, y, w
  <2>6. z + y + 0 = job.at + pos'
    BY <1>3, <2>5
  <2> QED
    BY <1>1, <2>4, <2>6
<1> QED
  BY <1>1, <1>4, <1>5, <1>6

\* A turn that has n sectors of the request in buffer b, which holds track t or
\* does not count as a track.
Serving(b, n, t) ==
    /\ DiskIInv /\ Turn /\ job.kind # "list"
    /\ n \in Nat \ {0} /\ n =< Rest
    /\ BufferOK(b) /\ Loaded(b, n)
    /\ t = None \/ Whole(b, t)
    /\ bufDrive' = job.drive
    /\ nfault' \in 0 .. MaxFaults

LEMMA DeliverKeeps ==
    ASSUME NEW b, NEW n, NEW t, Serving(b, n, t), Deliver(b, n, t)
    PROVE  DiskIInv' /\ UNCHANGED BD!vars
<1>. USE DEF Serving
<1>1. /\ mode = "raw" /\ mode' = "raw" /\ job' = job /\ unit' = unit /\ disk' = disk
      /\ stale' = stale
      /\ answer' = answer /\ nreq' = nreq /\ nchange' = nchange
      /\ buffer' = b /\ bufTrack' = t /\ job.kind = "read"
      /\ Advance(n, Size(n))
  BY DEF Deliver, Advance, Turn
<1>2. /\ sector' \in Nat /\ offset' = 0 /\ pos' \in Nat /\ pos' = pos + Size(n)
      /\ JobOK'
      /\ Left' > 0 => sector' * S + offset' = job'.at + pos'
  BY <1>1, Advanced
<1>3. /\ job.drive \in Drives /\ job.at \in Nat /\ pos \in Nat /\ Size(n) \in Nat
      /\ job.len \in Nat /\ job.len =< MaxLength /\ MaxLength \in Nat
      /\ pos + Size(n) =< job.len /\ job.at + pos + Size(n) =< Bytes
      /\ Piece(n) \subseteq sector * S .. sector * S + n * S - 1
  BY <1>1, JobTypes, SizeNumbers, PieceNumbers, Longest
<1>4. DOMAIN out = 0 .. MaxLength - 1 /\ \A k \in 0 .. MaxLength - 1 : out[k] \in Contents \union {Garbage}
  BY DEF DiskIInv, TypeOK
<1>5. \A k \in 0 .. pos + Size(n) - 1 :
         pos =< k => /\ k \in 0 .. MaxLength - 1 /\ At + k - pos \in 0 .. Track - 1
                     /\ BD!Right(k, b[At + k - pos])
  <2>1. ASSUME NEW k \in 0 .. pos + Size(n) - 1, pos =< k
        PROVE  /\ k \in 0 .. MaxLength - 1 /\ At + k - pos \in 0 .. Track - 1
               /\ BD!Right(k, b[At + k - pos])
    <3>1. job.at + k \in Piece(n)
      BY <1>3, <2>1 DEF Piece
    <3>. DEFINE x == job.at + k
                f == First * S
    <3>2. (b[x - f] = Shown(x) \/ BD!Doubted(x)) /\ x - f \in 0 .. Track - 1
      BY <1>3, <3>1 DEF Loaded
    <3>3. x - f = At + k - pos
      <4>. DEFINE i == InTrack * S
                  z == sector * S
      <4>1. /\ f \in Nat /\ i \in Nat /\ z \in Nat /\ z = f + i /\ At = i + offset
            /\ z + offset = job.at + pos /\ offset \in Nat
        BY <1>1, TurnNumbers, SizeNumbers, JobTypes
      <4>. HIDE DEF f, i, z
      <4> QED
        BY <1>3, <4>1
    <3>4. k \in 0 .. MaxLength - 1
      BY <1>3, <2>1
    <3>5. BD!Right(k, b[x - f])
      BY <3>2 DEF BD!Right, Shown
    <3> QED
      BY <3>2, <3>3, <3>4, <3>5
  <2> QED
    BY <2>1
<1>6. out' = [k \in 0 .. MaxLength - 1 |->
                 IF pos =< k /\ k < pos + Size(n) THEN b[At + k - pos] ELSE out[k]]
  BY <1>4 DEF Deliver
<1>7. out' \in [0 .. MaxLength - 1 -> Contents \union {Garbage}]
  <2>1. ASSUME NEW k \in 0 .. MaxLength - 1 PROVE out'[k] \in Contents \union {Garbage}
    <3>1. CASE pos =< k /\ k < pos + Size(n)
      <4>1. k \in 0 .. pos + Size(n) - 1
        BY <1>3, <3>1
      <4>2. At + k - pos \in 0 .. Track - 1
        BY <1>5, <3>1, <4>1
      <4>3. b[At + k - pos] \in Contents \union {Garbage}
        BY <4>2 DEF BufferOK
      <4> QED
        BY <1>6, <3>1, <4>3
    <3>2. CASE ~(pos =< k /\ k < pos + Size(n))
      BY <1>4, <1>6, <3>2
    <3> QED
      BY <3>1, <3>2
  <2> QED
    BY <1>6, <2>1
<1>8. ASSUME NEW k \in 0 .. pos' - 1 PROVE BD!Right(k, out'[k])
  <2>1. k \in 0 .. MaxLength - 1 /\ k \in 0 .. pos + Size(n) - 1
    BY <1>2, <1>3
  <2>2. CASE pos =< k
    <3>1. pos =< k /\ k < pos + Size(n)
      BY <1>3, <2>1, <2>2
    <3> QED
      BY <1>5, <1>6, <2>1, <3>1
  <2>3. CASE ~(pos =< k)
    <3>1. k \in 0 .. pos - 1
      BY <1>3, <2>1, <2>3
    <3>2. BD!Right(k, out[k])
      BY <1>1, <3>1 DEF DiskIInv, RequestDone
    <3> QED
      BY <1>6, <2>1, <2>3, <3>2
  <2> QED
    BY <2>2, <2>3
<1>9. TypeOK'
  BY <1>1, <1>2, <1>3, <1>7 DEF DiskIInv, TypeOK, JobOK, BufferOK, Whole
<1>10. ReachOK'
  BY <1>1, <1>2, <1>3 DEF ReachOK
<1>11. TrackRead' /\ BufferMatches'
  BY <1>1 DEF TrackRead, BufferMatches, Whole, Shown, Stale, Mark
<1>12. RequestDone'
  BY <1>1, <1>2, <1>8, DoubtedSame DEF RequestDone, BD!Right
<1> QED
  BY <1>1, <1>2, <1>9, <1>10, <1>11, <1>12, DoubtSame DEF DiskIInv, BD!vars

LEMMA NothingKeeps ==
    ASSUME NEW b, NEW n, NEW t, Serving(b, n, t), WriteNothing(b, n, t)
    PROVE  DiskIInv' /\ UNCHANGED BD!vars
<1>. USE DEF Serving
<1>1. /\ mode = "raw" /\ mode' = "raw" /\ job' = job /\ unit' = unit /\ disk' = disk
      /\ stale' = stale
      /\ answer' = answer /\ nreq' = nreq /\ nchange' = nchange /\ out' = out
      /\ buffer' = b /\ bufTrack' = t /\ job.kind = "write" /\ Merged(b, n) = b
      /\ Advance(n, Size(n))
  BY DEF WriteNothing, Advance, Turn
<1>2. /\ sector' \in Nat /\ offset' = 0 /\ pos' \in Nat /\ pos' = pos + Size(n)
      /\ JobOK'
      /\ Left' > 0 => sector' * S + offset' = job'.at + pos'
  BY <1>1, Advanced
<1>3. /\ job.drive \in Drives /\ job.at \in Nat /\ pos \in Nat /\ Size(n) \in Nat
      /\ job.at + pos + Size(n) =< Bytes
      /\ Piece(n) \subseteq sector * S .. sector * S + n * S - 1
  BY <1>1, JobTypes, SizeNumbers, PieceNumbers
<1>4. ASSUME NEW k \in 0 .. pos' - 1 PROVE BD!Right(k, Data[k])
  <2>1. CASE pos =< k
    <3>1. job.at + k \in Piece(n)
      BY <1>2, <1>3, <2>1 DEF Piece
    <3>. DEFINE x == job.at + k
                y == x - First * S
    <3>2. (b[y] = Shown(x) \/ BD!Doubted(x)) /\ Merged(b, n)[y] = Data[x - job.at]
      BY <1>3, <3>1, MergedBytes DEF Loaded
    <3>3. x - job.at = k
      BY <1>2, <1>3
    <3>. HIDE DEF x, y
    <3>4. Shown(x) = Data[k] \/ BD!Doubted(x)
      BY <1>1, <3>2, <3>3
    <3> QED
      BY <3>4 DEF x, BD!Right, Shown
  <2>2. CASE ~(pos =< k)
    <3>1. k \in 0 .. pos - 1
      BY <1>2, <1>3, <2>2
    <3> QED
      BY <1>1, <3>1 DEF DiskIInv, RequestDone
  <2> QED
    BY <2>1, <2>2
<1>5. TypeOK'
  BY <1>1, <1>2, <1>3 DEF DiskIInv, TypeOK, JobOK, BufferOK, Whole
<1>6. ReachOK'
  BY <1>1, <1>2, <1>3 DEF ReachOK
<1>7. TrackRead' /\ BufferMatches'
  BY <1>1 DEF TrackRead, BufferMatches, Whole, Shown, Stale, Mark
<1>8. RequestDone'
  BY <1>1, <1>2, <1>4, DoubtedSame DEF RequestDone, BD!Right
<1> QED
  BY <1>1, <1>2, <1>5, <1>6, <1>7, <1>8, DoubtSame DEF DiskIInv, BD!vars

LEMMA SectorsKeeps ==
    ASSUME NEW b, NEW n, NEW t, Serving(b, n, t), WriteSectors(b, n, t)
    PROVE  DiskIInv' /\ BD!Land
<1>. USE DEF Serving
<1>1. /\ mode = "raw" /\ mode' = "raw" /\ job' = job /\ unit' = unit /\ stale' = stale
      /\ disk' = Stored(Merged(b, n), n)
      /\ answer' = answer /\ nreq' = nreq /\ nchange' = nchange /\ out' = out
      /\ buffer' = Merged(b, n) /\ bufTrack' = None /\ job.kind = "write"
      /\ Advance(n, Size(n))
  BY DEF WriteSectors, Advance, Turn
<1>2. /\ sector' \in Nat /\ offset' = 0 /\ pos' \in Nat /\ pos' = pos + Size(n)
      /\ JobOK'
      /\ Left' > 0 => sector' * S + offset' = job'.at + pos'
  BY <1>1, Advanced
<1>3. /\ job.drive \in Drives /\ job.at \in Nat /\ pos \in Nat /\ Size(n) \in Nat
      /\ Bytes \in Nat /\ job.at + pos + Size(n) =< Bytes
      /\ Piece(n) \subseteq sector * S .. sector * S + n * S - 1
      /\ (sector + n) * S = sector * S + n * S
      /\ n \in 0 .. n
      /\ job # BD!NoJob
  BY <1>1, JobTypes, SizeNumbers, PieceNumbers, Sizes
<1>4. BD!Progress /\ disk' \in [Media -> [0 .. Bytes - 1 -> Contents]]
  BY <1>1, <1>3, StoredOK
<1>5. ASSUME NEW k \in 0 .. pos' - 1
      PROVE  disk'[unit[job.drive]][job.at + k] = Data[k] \/ BD!Doubted(job.at + k)
  <2>. DEFINE x == job.at + k
  <2>1. x \in 0 .. Bytes - 1 /\ x - job.at = k
    BY <1>2, <1>3
  <2>2. IF x \in Piece(n) /\ x < (sector + n) * S
        THEN disk'[unit[job.drive]][x] = Data[x - job.at]
        ELSE disk'[unit[job.drive]][x] = Shown(x) \/ BD!Doubted(x)
    BY <1>1, <1>3, <2>1, StoredBytes
  <2>3. CASE pos =< k
    <3>1. x \in Piece(n)
      BY <1>2, <1>3, <2>3 DEF Piece
    <3>2. x < (sector + n) * S
      <4>1. x \in sector * S .. sector * S + n * S - 1
        BY <1>3, <3>1
      <4>. DEFINE e == sector * S + n * S
                  z == sector * S
      <4>2. e \in Nat /\ z \in Nat /\ x \in z .. e - 1
        BY <1>1, <4>1, TurnNumbers, SizeNumbers
      <4>. HIDE DEF e, z
      <4>3. x < e
        BY <4>2
      <4> QED
        BY <1>3, <4>3 DEF e
    <3> QED
      BY <2>1, <2>2, <3>1, <3>2
  <2>4. CASE ~(pos =< k)
    <3>1. k \in 0 .. pos - 1
      BY <1>2, <1>3, <2>4
    <3>2. Shown(x) = Data[k] \/ BD!Doubted(x)
      BY <1>1, <3>1 DEF DiskIInv, RequestDone, BD!Right, Shown
    <3>3. x \in Piece(n) => x - job.at = k
      BY <2>1
    <3> QED
      BY <2>1, <2>2, <3>2, <3>3
  <2> QED
    BY <2>3, <2>4
<1>6. BufferOK(Merged(b, n))
  BY MergedOK
<1>7. TypeOK'
  BY <1>1, <1>2, <1>3, <1>4, <1>6 DEF DiskIInv, TypeOK, JobOK, BufferOK
<1>8. ReachOK'
  BY <1>1, <1>2, <1>3 DEF ReachOK
<1>9. TrackRead' /\ BufferMatches'
  BY <1>1 DEF TrackRead, BufferMatches
<1>10. RequestDone'
  BY <1>1, <1>2, <1>5, DoubtedSame DEF RequestDone, BD!Right
<1>11. BD!Land
  BY <1>1, <1>3, <1>4, DoubtSame DEF BD!Land
<1> QED
  BY <1>1, <1>2, <1>7, <1>8, <1>9, <1>10, <1>11 DEF DiskIInv

\* What rawread leaves when it returns.
LEMMA Returned ==
    ASSUME TypeOK, Return, mode' = "command", job' = BD!NoJob,
           UNCHANGED <<unit, stale, nreq, nchange>>, nfault' \in 0 .. MaxFaults,
           disk' \in [Media -> [0 .. Bytes - 1 -> Contents]],
           bufDrive' \in Drives \union {None}, bufTrack' \in Nat \union {None}, BufferOK(buffer'),
           TrackRead', BufferMatches'
    PROVE  DiskIInv'
<1>1. NoMemory \in [0 .. MaxLength - 1 -> Contents \union {Garbage}]
  BY DEF NoMemory
<1>2. out' \in [0 .. MaxLength - 1 -> Contents \union {Garbage}]
  BY <1>1 DEF Return
<1>3. sector' = 0 /\ offset' = 0 /\ pos' = 0
  BY DEF Return
<1>4. TypeOK'
  BY <1>2, <1>3 DEF TypeOK, BufferOK
<1>5. JobOK' /\ ReachOK' /\ RequestDone'
  BY DEF JobOK, ReachOK, RequestDone
<1> QED
  BY <1>4, <1>5 DEF DiskIInv

LEMMA FaultKeeps ==
    ASSUME NEW b, NEW n, NEW t, Serving(b, n, t), WriteFault(b, n)
    PROVE  DiskIInv' /\ BD!Fail
<1>. USE DEF Serving
<1>1. /\ job.kind = "write" /\ buffer' = Merged(b, n) /\ bufTrack' = None
      /\ Abandon
  BY DEF WriteFault
<1>2. PICK k \in 0 .. n - 1 : disk' = Stored(Merged(b, n), k)
  BY DEF WriteFault
<1>3. k \in 0 .. n
  BY <1>2
<1>4. BD!Progress /\ disk' \in [Media -> [0 .. Bytes - 1 -> Contents]]
  BY <1>1, <1>2, <1>3, StoredOK
<1>5. BufferOK(buffer')
  BY <1>1, MergedOK
<1>6. job.drive \in Drives /\ job # BD!NoJob
  BY JobTypes DEF Turn
<1>7. DiskIInv'
  <2>1. TrackRead' /\ BufferMatches'
    BY <1>1 DEF TrackRead, BufferMatches
  <2>2. TypeOK
    BY DEF DiskIInv
  <2> QED
    BY <1>1, <1>4, <1>5, <1>6, <2>1, <2>2, Returned DEF Abandon
<1>8. BD!Fail
  BY <1>1, <1>4, <1>6, DoubtSame DEF Abandon, BD!Fail
<1> QED
  BY <1>7, <1>8

\* Whatever is done with the sectors in the buffer, the invariant holds and the
\* drive does what it promised.
LEMMA UseKeeps ==
    ASSUME NEW b, NEW n, NEW t, NEW f \in Nat,
           DiskIInv, Turn, job.kind # "list", n \in Nat \ {0}, n =< Rest,
           BufferOK(b), Loaded(b, n), t = None \/ Whole(b, t),
           bufDrive' = job.drive, Use(b, n, t, f)
    PROVE  DiskIInv' /\ [BD!Next]_BD!vars
<1>1. nfault \in Nat /\ MaxFaults \in Nat
  BY SizesAssumption DEF DiskIInv, TypeOK
<1>2. nfault' \in 0 .. MaxFaults
  BY <1>1 DEF Use
<1>3. Serving(b, n, t)
  BY <1>2 DEF Serving
<1>4. CASE Deliver(b, n, t)
  BY <1>3, <1>4, DeliverKeeps
<1>5. CASE WriteNothing(b, n, t)
  BY <1>3, <1>5, NothingKeeps
<1>6. CASE WriteSectors(b, n, t)
  BY <1>3, <1>6, SectorsKeeps DEF BD!Next
<1>7. CASE WriteFault(b, n)
  BY <1>3, <1>7, FaultKeeps DEF BD!Next
<1> QED
  BY <1>4, <1>5, <1>6, <1>7 DEF Use

-----------------------------------------------------------------------------
(***************************************************************************)
(* The actions of rawread.                                                 *)
(***************************************************************************)

LEMMA UseBufferKeeps == DiskIInv /\ UseBuffer => DiskIInv' /\ [BD!Next]_BD!vars
<1> SUFFICES ASSUME DiskIInv, UseBuffer PROVE DiskIInv' /\ [BD!Next]_BD!vars
  OBVIOUS
<1>1. /\ Turn /\ Hit /\ job.kind # "list" /\ bufDrive' = job.drive
      /\ Use(buffer, Rest, bufTrack, 0)
  BY DEF UseBuffer
<1>2. Whole(buffer, First)
  <2>1. First # None /\ bufDrive # None /\ First \in Nat
    BY <1>1, TurnNumbers, JobTypes, NoneAssumption DEF Turn, Hit
  <2> QED
    BY <1>1, <2>1 DEF DiskIInv, TrackRead, BufferMatches, Whole, Hit, Shown, Turn, Stale, Mark
<1>3. BufferOK(buffer)
  BY DEF DiskIInv, TypeOK, BufferOK
<1>4. Loaded(buffer, Rest) /\ Rest \in Nat \ {0} /\ Rest =< Rest
  BY <1>1, <1>2, WholeLoaded, TurnNumbers
<1>5. bufTrack = First
  BY <1>1 DEF Hit
<1> QED
  BY <1>1, <1>2, <1>3, <1>4, <1>5, UseKeeps

LEMMA ReadTrackKeeps == DiskIInv /\ ReadTrack => DiskIInv' /\ [BD!Next]_BD!vars
<1> SUFFICES ASSUME DiskIInv, ReadTrack PROVE DiskIInv' /\ [BD!Next]_BD!vars
  OBVIOUS
<1>. DEFINE b == Filled(buffer, 0, T)
<1>1. /\ Turn /\ job.kind # "list" /\ bufDrive' = job.drive /\ OnDisk(First, T)
      /\ Use(b, Rest, First, 0)
  BY DEF ReadTrack
<1>2. Whole(b, First)
  BY <1>1, FilledWhole
<1>3. BufferOK(buffer)
  BY DEF DiskIInv, TypeOK, BufferOK
<1>4. BufferOK(b)
  <2>1. 0 \in Nat /\ T \in Nat /\ 0 + T =< T /\ First + 0 = First
    BY <1>1, Sizes, TurnNumbers
  <2> QED
    BY <1>1, <1>3, <2>1, FilledOK
<1>. HIDE DEF b
<1>5. Loaded(b, Rest) /\ Rest \in Nat \ {0} /\ Rest =< Rest
  BY <1>1, <1>2, WholeLoaded, TurnNumbers
<1> QED
  BY <1>1, <1>2, <1>4, <1>5, UseKeeps

LEMMA ReadRestKeeps == DiskIInv /\ ReadRest => DiskIInv' /\ [BD!Next]_BD!vars
<1> SUFFICES ASSUME DiskIInv, ReadRest PROVE DiskIInv' /\ [BD!Next]_BD!vars
  OBVIOUS
<1>. DEFINE b == Filled(buffer, InTrack, Rest)
<1>1. /\ Turn /\ job.kind # "list" /\ bufDrive' = job.drive /\ OnDisk(sector, Rest)
      /\ Use(b, Rest, None, 0)
  BY DEF ReadRest
<1>2. /\ InTrack \in Nat /\ Rest \in Nat \ {0} /\ InTrack + Rest =< T
      /\ First + InTrack = sector /\ Rest =< Rest
  BY <1>1, TurnNumbers, Sizes
<1>3. BufferOK(buffer)
  BY DEF DiskIInv, TypeOK, BufferOK
<1>4. BufferOK(b)
  BY <1>1, <1>2, <1>3, FilledOK
<1>5. Loaded(b, Rest)
  BY <1>1, <1>2, FilledLoaded
<1>. HIDE DEF b
<1> QED
  BY <1>1, <1>2, <1>4, <1>5, UseKeeps

LEMMA ReadNeededKeeps == DiskIInv /\ ReadNeeded => DiskIInv' /\ [BD!Next]_BD!vars
<1> SUFFICES ASSUME DiskIInv, ReadNeeded PROVE DiskIInv' /\ [BD!Next]_BD!vars
  OBVIOUS
<1>. DEFINE b == Filled(Spoilt, InTrack, Needed)
            f == Errors(First, T)
<1>1. /\ Turn /\ job.kind # "list" /\ bufDrive' = job.drive /\ OnDisk(sector, Needed)
      /\ Needed =< Rest /\ Use(b, Needed, None, f)
  BY DEF ReadNeeded
<1>2. /\ InTrack \in Nat /\ Needed \in Nat \ {0} /\ InTrack + Needed =< T
      /\ First + InTrack = sector
  BY <1>1, TurnNumbers, Sizes
<1>3. BufferOK(Spoilt)
  BY DEF Spoilt, BufferOK
<1>4. BufferOK(b)
  BY <1>1, <1>2, <1>3, FilledOK
<1>5. Loaded(b, Needed)
  BY <1>1, <1>2, FilledLoaded
<1>6. f \in Nat
  BY DEF Errors
<1>. HIDE DEF b, f
<1> QED
  BY <1>1, <1>2, <1>4, <1>5, <1>6, UseKeeps

LEMMA ReadFaultKeeps == DiskIInv /\ ReadFault => DiskIInv' /\ [BD!Next]_BD!vars
<1> SUFFICES ASSUME DiskIInv, ReadFault PROVE DiskIInv' /\ [BD!Next]_BD!vars
  OBVIOUS
<1>1. /\ Turn /\ bufDrive' = job.drive /\ bufTrack' = None /\ buffer' = Spoilt
      /\ Abandon /\ disk' = disk /\ nfault' =< MaxFaults
  BY DEF ReadFault
<1>2. nfault' \in 0 .. MaxFaults
  <2>1. nfault \in Nat /\ MaxFaults \in Nat
    BY SizesAssumption DEF DiskIInv, TypeOK
  <2>2. \A s, n : Errors(s, n) \in Nat
    BY DEF Errors
  <2>3. nfault' \in Nat
    BY <2>1, <2>2 DEF ReadFault
  <2> QED
    BY <1>1, <2>1, <2>3
<1>3. BufferOK(Spoilt)
  BY DEF Spoilt, BufferOK
<1>4. job.drive \in Drives /\ job # BD!NoJob
  BY <1>1, JobTypes DEF Turn
<1>5. TypeOK /\ disk \in [Media -> [0 .. Bytes - 1 -> Contents]]
  BY DEF DiskIInv, TypeOK
<1>6. TrackRead' /\ BufferMatches'
  BY <1>1 DEF TrackRead, BufferMatches
<1>7. DiskIInv'
  BY <1>1, <1>2, <1>3, <1>4, <1>5, <1>6, Returned DEF Abandon
<1>8. BD!Progress
  BY <1>1, <1>5 DEF BD!Progress
<1>9. BD!Fail
  BY <1>1, <1>4, <1>8, DoubtSame DEF BD!Fail, Abandon
<1> QED
  BY <1>7, <1>9 DEF BD!Next

LEMMA ListBlocksKeeps == DiskIInv /\ ListBlocks => DiskIInv' /\ [BD!Next]_BD!vars
<1> SUFFICES ASSUME DiskIInv, ListBlocks PROVE DiskIInv' /\ [BD!Next]_BD!vars
  OBVIOUS
<1>1. /\ Turn /\ job.kind = "list" /\ bufDrive' = job.drive
      /\ bufTrack' = (IF bufDrive = job.drive THEN bufTrack ELSE None)
      /\ Advance(Rest, Size(Rest))
      /\ UNCHANGED <<disk, buffer, mode, out, nfault>>
      /\ UNCHANGED <<unit, job, answer, stale, nreq, nchange>>
  BY DEF ListBlocks, Advance
<1>2. Rest \in Nat \ {0} /\ Rest =< Rest /\ mode = "raw" /\ job.drive \in Drives
  BY <1>1, TurnNumbers, JobTypes DEF Turn
<1>3. /\ sector' \in Nat /\ offset' = 0 /\ pos' \in Nat
      /\ JobOK'
      /\ Left' > 0 => sector' * S + offset' = job'.at + pos'
  BY <1>1, <1>2, Advanced
<1>4. TypeOK'
  BY <1>1, <1>2, <1>3 DEF DiskIInv, TypeOK
<1>5. ReachOK'
  BY <1>1 DEF ReachOK
<1>6. TrackRead' /\ BufferMatches'
  BY <1>1, <1>2 DEF DiskIInv, TrackRead, BufferMatches, Mark
<1>7. RequestDone'
  BY <1>1, <1>3 DEF RequestDone
<1> QED
  BY <1>1, <1>3, <1>4, <1>5, <1>6, <1>7, DoubtSame DEF DiskIInv, BD!vars

LEMMA FinishKeeps == DiskIInv /\ Finish => DiskIInv' /\ [BD!Next]_BD!vars
<1> SUFFICES ASSUME DiskIInv, Finish PROVE DiskIInv' /\ [BD!Next]_BD!vars
  OBVIOUS
<1>1. /\ mode = "raw" /\ Left = 0 /\ mode' = "command" /\ job' = BD!NoJob
      /\ Return
      /\ UNCHANGED <<disk, unit, bufDrive, bufTrack, buffer, stale, nreq, nfault, nchange>>
  BY DEF Finish
<1>2. /\ job.kind \in {"read", "write", "list"} /\ job.at \in Nat /\ job.len \in Nat
      /\ pos \in Nat /\ pos = job.len
  BY <1>1, JobTypes DEF Left
<1>3. DiskIInv'
  <2>1. TypeOK /\ BufferOK(buffer) /\ TrackRead' /\ BufferMatches'
    BY <1>1 DEF DiskIInv, TypeOK, BufferOK, TrackRead, BufferMatches, Mark
  <2> QED
    BY <1>1, <2>1, Returned DEF TypeOK
<1>4. job.kind # "list" => BD!Span(job) \subseteq 0 .. Bytes - 1
  BY <1>1, <1>2, Sizes DEF DiskIInv, ReachOK, BD!Span
<1>8. Doubt' = Doubt /\ job # BD!NoJob
  BY <1>1, <1>2, DoubtSame DEF BD!NoJob
<1>5. CASE job.kind = "read"
  <2>1. answer' = BD!Read([k \in 0 .. job.len - 1 |-> out[k]])
    BY <1>5 DEF Finish
  <2>2. \A k \in 0 .. job.len - 1 : BD!Right(k, out[k])
    BY <1>1, <1>2, <1>5 DEF DiskIInv, RequestDone
  <2>3. answer'.bytes = [k \in 0 .. job.len - 1 |-> out[k]]
    BY <2>1 DEF BD!Read
  <2>4. DOMAIN answer'.bytes = 0 .. job.len - 1 /\ answer' = BD!Read(answer'.bytes)
    BY <2>1, <2>3
  <2>5. \A k \in 0 .. job.len - 1 : BD!Right(k, answer'.bytes[k])
    BY <2>2, <2>3
  <2>6. BD!Served
    BY <1>1, <1>4, <1>5, <1>8, <2>4, <2>5 DEF BD!Served
  <2> QED
    BY <1>3, <2>6 DEF BD!Next
<1>6. CASE job.kind = "write"
  <2>1. answer' = BD!Ended("written")
    BY <1>6 DEF Finish
  <2>2. \A k \in 0 .. job.len - 1 : BD!Right(k, Data[k])
    BY <1>1, <1>2, <1>6 DEF DiskIInv, RequestDone
  <2>3. BD!Served
    BY <1>1, <1>4, <1>6, <1>8, <2>1, <2>2 DEF BD!Served
  <2> QED
    BY <1>3, <2>3 DEF BD!Next
<1>7. CASE job.kind = "list"
  <2>1. answer' = BD!Ended("listed")
    BY <1>7 DEF Finish
  <2>2. BD!Served
    BY <1>1, <1>7, <1>8, <2>1 DEF BD!Served
  <2> QED
    BY <1>3, <2>2 DEF BD!Next
<1> QED
  BY <1>2, <1>5, <1>6, <1>7

-----------------------------------------------------------------------------
(***************************************************************************)
(* Requests.                                                               *)
(***************************************************************************)

\* A request that begins keeps the invariant; one confined to its partition is a
\* request of the abstract device.
LEMMA AskKeeps ==
    ASSUME DiskIInv, CanAsk, mode = "command",
           NEW kind \in {"read", "write", "list"}, NEW d \in Drives,
           NEW part \in {BD!Whole} \union {Bounds(p) : p \in {q \in Parts : q.start # 0}},
           NEW s \in Nat, NEW o \in 0 .. S - 1, NEW n \in Lengths,
           part = BD!Whole \/ (part.lo =< s * S + o /\ s * S + o + n =< part.hi),
           RawRead(kind, d, part, s, o, n)
    PROVE  DiskIInv' /\ BD!Ask
<1>1. /\ mode' = "raw"
      /\ job' = [kind |-> kind, drive |-> d, part |-> part, at |-> s * S + o, len |-> n]
      /\ sector' = s /\ offset' = o /\ pos' = 0 /\ out' = NoMemory
      /\ answer' = BD!Ended("none")
      /\ stale' = IF Mark = stale THEN stale ELSE NoTrack
      /\ UNCHANGED <<disk, unit, bufDrive, bufTrack, buffer, nfault, nchange>>
  BY DEF RawRead
<1>2. s * S \in Nat /\ o \in Nat /\ o < S /\ n \in Nat
  BY Sizes, Products, RequestsAssumption
<1>3. s * S + o \in Nat
  BY <1>2
<1>4. job' \in [kind : {"read", "write", "list"}, drive : Drives,
                part : {BD!Whole} \union {Bounds(p) : p \in Parts}, at : Nat, len : Lengths]
  BY <1>1, <1>3
<1>5. nreq' \in 0 .. MaxReqs
  BY SizesAssumption DEF DiskIInv, TypeOK, CanAsk
<1>6. NoMemory \in [0 .. MaxLength - 1 -> Contents \union {Garbage}]
  BY DEF NoMemory
<1>7. TypeOK'
  BY <1>1, <1>2, <1>4, <1>5, <1>6 DEF DiskIInv, TypeOK
<1>8. JobOK'
  BY <1>1, <1>2, <1>4 DEF JobOK
<1>9. ReachOK' /\ TrackRead' /\ BufferMatches'
  BY <1>1 DEF DiskIInv, ReachOK, TrackRead, BufferMatches, Mark
<1>10. RequestDone'
  BY <1>1, <1>3 DEF RequestDone
<1>11. BD!Ask
  <2>1. job = BD!NoJob
    BY DEF DiskIInv, JobOK
  <2>2. /\ job'.kind \in {"read", "write", "list"} /\ job'.drive \in Drives
        /\ job'.part \in {Bounds(p) : p \in {q \in Parts : q.start # 0}} \union {BD!Whole}
        /\ job'.at \in Nat /\ job'.len \in Nat
    BY <1>1, <1>2, <1>3
  <2>3. BD!Confined(job')
    BY <1>1 DEF BD!Confined
  <2>4. BD!Settle
    BY <1>1 DEF BD!Settle, BD!NoDoubt, Doubt, NoTrack
  <2> QED
    BY <1>1, <2>1, <2>2, <2>3, <2>4 DEF BD!Ask
<1> QED
  BY <1>7, <1>8, <1>9, <1>10, <1>11 DEF DiskIInv

\* A request that devread lets through lies inside its partition.
LEMMA InsidePartition ==
    ASSUME NEW p \in Parts, NEW s \in Starts, NEW o \in Offsets, NEW n \in Lengths,
           p.start # 0, InPartition(p, s, o, n)
    PROVE  /\ s + (o \div S) + p.start \in Nat /\ o % S \in 0 .. S - 1
           /\ Bounds(p).lo =< (s + (o \div S) + p.start) * S + (o % S)
           /\ (s + (o \div S) + p.start) * S + (o % S) + n =< Bounds(p).hi
<1>1. /\ p.start \in Nat /\ p.length \in Nat /\ s \in Nat /\ o \in Nat /\ n \in Nat
      /\ S \in Nat \ {0} /\ Words \in Nat \ {0} /\ o + n =< Words
  BY RequestsAssumption, SizesAssumption
<1>. DEFINE q == o \div S
            r == o % S
            start == p.start
            length == p.length
            l == ((o + n - 1) % Words) \div S
<1>2. q \in Nat /\ r \in Nat /\ r < S /\ o = S * q + r
  BY <1>1, Division
<1>3. l \in Nat /\ s + l < length
  <2>1. (o + n - 1) % Words \in Nat
    BY <1>1
  <2>2. l \in Nat
    BY <1>1, <2>1, Division
  <2> QED
    BY <2>2 DEF InPartition, LastSector
<1>4. o + n > 0 => o + n =< (l + 1) * S
  <2>1. ASSUME o + n > 0 PROVE o + n =< (l + 1) * S
    <3>1. (o + n - 1) % Words = o + n - 1 /\ o + n - 1 \in Nat
      BY <1>1, <2>1
    <3>2. (o + n - 1) \div S = l
      BY <3>1
    <3>3. o + n - 1 = S * l + ((o + n - 1) % S) /\ (o + n - 1) % S < S /\ (o + n - 1) % S \in Nat
      BY <1>1, <3>1, <3>2, Division
    <3>4. (l + 1) * S = l * S + 1 * S /\ S * l = l * S /\ 1 * S = S /\ l * S \in Nat
      BY <1>1, <1>3, Products
    <3>. DEFINE x == l * S
                y == (o + n - 1) % S
                e == (l + 1) * S
    <3>5. o + n - 1 = x + y /\ y < S /\ y \in Nat /\ e = x + S /\ x \in Nat
      BY <3>3, <3>4
    <3>. HIDE DEF x, y, e, l
    <3>6. o + n =< e
      BY <1>1, <3>5
    <3> QED
      BY <3>6 DEF e
  <2> QED
    BY <2>1
<1>5. Bounds(p) = [lo |-> start * S, hi |-> (start + length) * S]
  BY DEF Bounds
<1>. HIDE DEF q, r, l
<1>6. /\ start * S \in Nat /\ (s + start) * S \in Nat /\ q * S \in Nat /\ S * q = q * S
      /\ (s + q + start) * S = (s + start) * S + q * S
      /\ (s + start) * S = s * S + start * S /\ s * S \in Nat
  <2>1. s + start \in Nat /\ (s + start) + q = s + q + start
    BY <1>1, <1>2
  <2>2. ((s + start) + q) * S = (s + start) * S + q * S
    BY <1>1, <1>2, <2>1, Products
  <2>3. (s + start) * S = s * S + start * S
    BY <1>1, <2>1, Products
  <2>4. start * S \in Nat /\ (s + start) * S \in Nat /\ q * S \in Nat /\ s * S \in Nat
    BY <1>1, <1>2, <2>1, Products
  <2>5. S * q = q * S
    BY <1>1, <1>2
  <2> QED
    BY <2>1, <2>2, <2>3, <2>4, <2>5
<1>7. (s + start) * S + o + n =< (start + length) * S
  <2>1. CASE o + n > 0
    <3>1. s + start \in Nat /\ l + 1 \in Nat /\ start + length \in Nat
          /\ (s + start) + (l + 1) =< start + length /\ (s + start) + (l + 1) \in Nat
      BY <1>1, <1>3
    <3>2. ((s + start) + (l + 1)) * S =< (start + length) * S
      BY <1>1, <3>1, Products
    <3>3. ((s + start) + (l + 1)) * S = (s + start) * S + (l + 1) * S
      BY <1>1, <3>1, Products
    <3>4. (l + 1) * S \in Nat /\ (start + length) * S \in Nat
      BY <1>1, <3>1, Products
    <3>. DEFINE u == (s + start) * S
                v == (l + 1) * S
                w == (start + length) * S
    <3>5. u \in Nat /\ v \in Nat /\ w \in Nat /\ u + v =< w /\ o + n =< v
      BY <1>4, <1>6, <2>1, <3>2, <3>3, <3>4
    <3>. HIDE DEF u, v, w
    <3>6. u + o + n =< w
      BY <1>1, <3>5
    <3> QED
      BY <3>6 DEF u, w
  <2>2. CASE ~(o + n > 0)
    <3>1. o = 0 /\ n = 0 /\ s + start =< start + length /\ s + start \in Nat /\ start + length \in Nat
      BY <1>1, <1>3, <2>2
    <3>2. (s + start) * S =< (start + length) * S
      BY <1>1, <3>1, Products
    <3>3. (s + start) * S + o + n = (s + start) * S
      BY <1>6, <3>1
    <3> QED
      BY <3>2, <3>3
  <2> QED
    BY <2>1, <2>2
<1>. DEFINE z == (s + q + start) * S
            u == (s + start) * S
            x == q * S
            a == start * S
            b == (start + length) * S
            c == s * S
<1>8. /\ z = u + x /\ u = c + a /\ o = x + r /\ u \in Nat /\ x \in Nat /\ a \in Nat /\ c \in Nat
      /\ u + o + n =< b
  BY <1>2, <1>6, <1>7
<1>. HIDE DEF z, u, x, a, b, c
<1>9. a =< z + r /\ z + r + n =< b
  <2>1. b \in Int
    BY <1>1 DEF b
  <2> QED
    BY <1>1, <1>2, <1>8, <2>1
<1>10. s + q + start \in Nat
  BY <1>1, <1>2
<1> QED
  BY <1>1, <1>2, <1>5, <1>9, <1>10 DEF z, a, b, q, r

LEMMA AskRawKeeps ==
    ASSUME DiskIInv, NEW kind \in {"read", "write", "list"}, NEW d \in Drives,
           NEW s \in Starts, NEW o \in Offsets, NEW n \in Lengths, AskRaw(kind, d, s, o, n)
    PROVE  DiskIInv' /\ BD!Ask
<1>1. CanAsk /\ mode = "command" /\ o < S /\ RawRead(kind, d, BD!Whole, s, o, n)
  BY DEF AskRaw, CanAsk
<1>2. s \in Nat /\ o \in 0 .. S - 1
  BY <1>1, RequestsAssumption, Sizes
<1> QED
  BY <1>1, <1>2, AskKeeps

LEMMA DevReadKeeps ==
    ASSUME DiskIInv, NEW kind \in {"read", "write", "list"}, NEW d \in Drives, NEW p \in Parts,
           NEW s \in Starts, NEW o \in Offsets, NEW n \in Lengths, DevRead(kind, d, p, s, o, n)
    PROVE  DiskIInv' /\ BD!Ask
<1>. DEFINE z == s + (o \div S) + p.start
            r == o % S
            part == IF p.start = 0 THEN BD!Whole ELSE Bounds(p)
<1>1. CanAsk /\ mode = "command" /\ InPartition(p, s, o, n) /\ RawRead(kind, d, part, z, r, n)
  BY DEF DevRead, CanAsk
<1>2. z \in Nat /\ r \in 0 .. S - 1
  <2>1. s \in Nat /\ o \in Nat /\ p.start \in Nat
    BY RequestsAssumption
  <2>2. (o \div S) \in Nat /\ r \in Nat /\ r < S
    BY <2>1, Sizes, Division
  <2>3. r \in 0 .. S - 1
    BY <2>2, Sizes
  <2> QED
    BY <2>1, <2>2, <2>3
<1>3. part \in {BD!Whole} \union {Bounds(q) : q \in {q \in Parts : q.start # 0}}
  OBVIOUS
<1>4. part = BD!Whole \/ (part.lo =< z * S + r /\ z * S + r + n =< part.hi)
  BY <1>1, InsidePartition
<1>. HIDE DEF z, r, part
<1> QED
  BY <1>1, <1>2, <1>3, <1>4, AskKeeps

LEMMA DevOutsideKeeps ==
    ASSUME DiskIInv, NEW p \in Parts, NEW s \in Starts, NEW o \in Offsets, NEW n \in Lengths,
           DevOutside(p, s, o, n)
    PROVE  DiskIInv' /\ BD!Refuse
<1>1. /\ mode = "command" /\ nreq < MaxReqs /\ nreq' = nreq + 1
      /\ answer' = BD!Ended("failed")
      /\ UNCHANGED <<disk, unit, bufDrive, bufTrack, buffer, mode, job, sector, offset, pos, out,
                     stale, nfault, nchange>>
  BY DEF DevOutside, CanAsk, request
<1>2. nreq' \in 0 .. MaxReqs
  BY <1>1, SizesAssumption DEF DiskIInv, TypeOK
<1>3. TypeOK' /\ JobOK' /\ ReachOK' /\ TrackRead' /\ BufferMatches' /\ RequestDone'
  BY <1>1, <1>2 DEF DiskIInv, TypeOK, JobOK, ReachOK, TrackRead, BufferMatches, Mark,
         RequestDone
<1>4. job = BD!NoJob
  BY <1>1 DEF DiskIInv, JobOK
<1> QED
  BY <1>1, <1>3, <1>4, DoubtSame DEF DiskIInv, BD!Refuse

-----------------------------------------------------------------------------
(***************************************************************************)
(* Commands.                                                               *)
(***************************************************************************)

LEMMA ChangeMediumKeeps ==
    ASSUME DiskIInv, NEW d \in Drives, NEW m \in Media, ChangeMedium(d, m)
    PROVE  DiskIInv' /\ BD!Rewire
<1>1. /\ mode = "prompt" /\ nchange < MaxChanges /\ nchange' = nchange + 1
      /\ unit' = [unit EXCEPT ![d] = m]
      /\ UNCHANGED <<disk, bufDrive, bufTrack, buffer, mode, job, sector, offset, pos, out,
                     answer, stale, nreq, nfault>>
  BY DEF ChangeMedium, request
<1>2. nchange' \in 0 .. MaxChanges /\ unit' \in [Drives -> Media]
  BY <1>1, SizesAssumption DEF DiskIInv, TypeOK
<1>3. TypeOK' /\ JobOK' /\ ReachOK' /\ TrackRead' /\ BufferMatches' /\ RequestDone'
  BY <1>1, <1>2 DEF DiskIInv, TypeOK, JobOK, ReachOK, TrackRead, BufferMatches, Mark,
         RequestDone
<1>4. job = BD!NoJob
  BY <1>1 DEF DiskIInv, JobOK
<1> QED
  BY <1>1, <1>2, <1>3, <1>4, DoubtSame DEF DiskIInv, BD!Rewire, BD!Settle

LEMMA MapHookKeeps ==
    ASSUME DiskIInv, NEW d \in Drives, NEW m \in Media, MapHook(d, m)
    PROVE  DiskIInv' /\ BD!Rewire
<1>1. /\ mode = "command" /\ nchange < MaxChanges /\ nchange' = nchange + 1
      /\ unit' = [unit EXCEPT ![d] = m] /\ bufDrive' = None /\ bufTrack' = None
      /\ stale' = NoTrack
      /\ UNCHANGED <<disk, buffer, mode, job, sector, offset, pos, out, answer, nreq, nfault>>
  BY DEF MapHook, request
<1>2. nchange' \in 0 .. MaxChanges /\ unit' \in [Drives -> Media]
  BY <1>1, SizesAssumption DEF DiskIInv, TypeOK
<1>3. TypeOK' /\ JobOK' /\ ReachOK' /\ TrackRead' /\ BufferMatches' /\ RequestDone'
  BY <1>1, <1>2 DEF DiskIInv, TypeOK, JobOK, ReachOK, TrackRead, BufferMatches, Mark,
         RequestDone
<1>4. job = BD!NoJob
  BY <1>1 DEF DiskIInv, JobOK
<1> QED
  BY <1>1, <1>2, <1>3, <1>4, DoubtEnds DEF DiskIInv, BD!Rewire

\* A map that fails leaves a track in doubt.
LEMMA HookNothingKeeps ==
    ASSUME DiskIInv, NEW d \in Drives, NEW m \in Media, HookNothing(d, m)
    PROVE  DiskIInv' /\ (BD!Rewire \/ BD!Unhook)
<1>1. /\ mode = "command" /\ nchange < MaxChanges /\ nchange' = nchange + 1
      /\ unit' = [unit EXCEPT ![d] = m]
      /\ stale' = (IF bufDrive = d /\ bufTrack # None /\ m # unit[d] THEN Mark ELSE stale)
      /\ UNCHANGED <<disk, bufDrive, bufTrack, buffer, mode, job, sector, offset, pos, out,
                     answer, nreq, nfault>>
  BY DEF HookNothing, request
<1>2. nchange' \in 0 .. MaxChanges /\ unit' \in [Drives -> Media] /\ unit \in [Drives -> Media]
  BY <1>1, SizesAssumption DEF DiskIInv, TypeOK
<1>3. stale' \in [drive : Drives, track : Nat] \union {NoTrack}
  BY <1>1 DEF DiskIInv, TypeOK, Mark
<1>4. TypeOK' /\ JobOK' /\ ReachOK' /\ TrackRead' /\ RequestDone'
  BY <1>1, <1>2, <1>3 DEF DiskIInv, TypeOK, JobOK, ReachOK, TrackRead, RequestDone
<1>5. BufferMatches'
  <2>1. CASE bufDrive = d /\ bufTrack # None /\ m # unit[d]
    BY <1>1, <2>1 DEF DiskIInv, BufferMatches, Mark
  <2>2. CASE ~(bufDrive = d /\ bufTrack # None /\ m # unit[d])
    <3>1. bufDrive # None /\ bufTrack # None => unit'[bufDrive] = unit[bufDrive]
      BY <1>1, <1>2, <2>2 DEF DiskIInv, TypeOK
    <3> QED
      BY <1>1, <2>2, <3>1 DEF DiskIInv, BufferMatches, Mark
  <2> QED
    BY <2>1, <2>2
<1>6. job = BD!NoJob
  BY <1>1 DEF DiskIInv, JobOK
<1>7. CASE stale' = stale
  BY <1>1, <1>2, <1>4, <1>5, <1>6, <1>7, DoubtSame DEF DiskIInv, BD!Rewire, BD!Settle
<1>8. CASE stale' # stale
  <2>1. stale' = Mark /\ bufDrive \in Drives /\ bufTrack \in Nat
    BY <1>1, <1>8 DEF DiskIInv, TypeOK
  <2>2. Mark # NoTrack
    BY <2>1, NoneAssumption DEF Mark, NoTrack
  <2>3. Doubt' = [drive |-> bufDrive, lo |-> bufTrack * S, hi |-> (bufTrack + T) * S]
    BY <2>1, <2>2 DEF Doubt, Mark, NoTrack
  <2>4. bufTrack * S \in Nat /\ (bufTrack + T) * S \in Nat
    <3>1. bufTrack + T \in Nat
      BY <2>1, Sizes
    <3> QED
      BY <2>1, <3>1, Sizes, Products
  <2> QED
    BY <1>1, <1>2, <1>4, <1>5, <1>6, <2>1, <2>3, <2>4 DEF DiskIInv, BD!Unhook
<1> QED
  BY <1>7, <1>8

LEMMA EnterCommandKeeps == DiskIInv /\ EnterCommand => DiskIInv' /\ BD!Rewire
<1> SUFFICES ASSUME DiskIInv, EnterCommand PROVE DiskIInv' /\ BD!Rewire
  OBVIOUS
<1>1. /\ mode = "prompt" /\ mode' = "command" /\ bufDrive' = None /\ stale' = NoTrack
      /\ UNCHANGED <<disk, unit, bufTrack, buffer, job, sector, offset, pos, out, answer,
                     nreq, nfault, nchange>>
  BY DEF EnterCommand, request
<1>2. TypeOK' /\ JobOK' /\ ReachOK' /\ TrackRead' /\ BufferMatches' /\ RequestDone'
  BY <1>1 DEF DiskIInv, TypeOK, JobOK, ReachOK, TrackRead, BufferMatches, Mark,
         RequestDone
<1>3. job = BD!NoJob /\ unit \in [Drives -> Media]
  BY <1>1 DEF DiskIInv, JobOK, TypeOK
<1> QED
  BY <1>1, <1>2, <1>3, DoubtEnds DEF DiskIInv, BD!Rewire

LEMMA LeaveCommandKeeps == DiskIInv /\ LeaveCommand => DiskIInv' /\ UNCHANGED BD!vars
<1> SUFFICES ASSUME DiskIInv, LeaveCommand PROVE DiskIInv' /\ UNCHANGED BD!vars
  OBVIOUS
<1>1. /\ mode = "command" /\ mode' = "prompt"
      /\ UNCHANGED <<disk, unit, bufDrive, bufTrack, buffer, job, sector, offset, pos, out,
                     answer, stale, nreq, nfault, nchange>>
  BY DEF LeaveCommand, request
<1>2. TypeOK' /\ JobOK' /\ ReachOK' /\ TrackRead' /\ BufferMatches' /\ RequestDone'
  BY <1>1 DEF DiskIInv, TypeOK, JobOK, ReachOK, TrackRead, BufferMatches, Mark,
         RequestDone
<1> QED
  BY <1>1, <1>2, DoubtSame DEF DiskIInv, BD!vars

-----------------------------------------------------------------------------
(***************************************************************************)
(* The theorems.                                                           *)
(***************************************************************************)

\* wee starts with the invariant, and as the abstract device does.
LEMMA DiskInit == Init => DiskIInv /\ BD!Init
<1> SUFFICES ASSUME Init PROVE DiskIInv /\ BD!Init
  OBVIOUS
<1>1. /\ disk \in [Media -> [0 .. Bytes - 1 -> FirstBytes]]
      /\ unit \in [Drives -> Media] /\ job = BD!NoJob /\ answer = BD!Ended("none")
  BY SizesAssumption DEF Init
<1>2. disk \in [Media -> [0 .. Bytes - 1 -> Contents]]
  BY <1>1 DEF Contents
<1>3. NoMemory \in [0 .. MaxLength - 1 -> Contents \union {Garbage}]
  BY DEF NoMemory
<1>4. TypeOK
  BY <1>1, <1>2, <1>3, SizesAssumption DEF Init, TypeOK
<1>5. JobOK /\ ReachOK /\ TrackRead /\ BufferMatches /\ RequestDone
  BY DEF Init, JobOK, ReachOK, TrackRead, BufferMatches, RequestDone
<1>6. BD!Init
  BY <1>1 DEF BD!Init, Init, Doubt, BD!NoDoubt
<1> QED
  BY <1>4, <1>5, <1>6 DEF DiskIInv

\* Every step keeps the invariant, and is a step of the abstract device or none of it.
LEMMA DiskNext == DiskIInv /\ [Next]_vars => DiskIInv' /\ [BD!Next]_BD!vars
<1> SUFFICES ASSUME DiskIInv, [Next]_vars PROVE DiskIInv' /\ [BD!Next]_BD!vars
  OBVIOUS
<1>1. ASSUME NEW d \in Drives, NEW m \in Media, ChangeMedium(d, m) \/ MapHook(d, m) \/ HookNothing(d, m)
      PROVE  DiskIInv' /\ BD!Next
  BY <1>1, ChangeMediumKeeps, MapHookKeeps, HookNothingKeeps DEF BD!Next
<1>2. CASE EnterCommand
  BY <1>2, EnterCommandKeeps DEF BD!Next
<1>3. CASE LeaveCommand
  BY <1>3, LeaveCommandKeeps
<1>4. ASSUME NEW kind \in {"read", "write", "list"}, NEW d \in Drives,
             NEW s \in Starts, NEW o \in Offsets, NEW n \in Lengths, Ask(kind, d, s, o, n)
      PROVE  DiskIInv' /\ BD!Next
  <2>1. CASE AskRaw(kind, d, s, o, n)
    BY <2>1, AskRawKeeps DEF BD!Next
  <2>2. ASSUME NEW p \in Parts, DevRead(kind, d, p, s, o, n)
        PROVE  DiskIInv' /\ BD!Next
    BY <2>2, DevReadKeeps DEF BD!Next
  <2>3. ASSUME NEW p \in Parts, DevOutside(p, s, o, n)
        PROVE  DiskIInv' /\ BD!Next
    BY <2>3, DevOutsideKeeps DEF BD!Next
  <2> QED
    BY <1>4, <2>1, <2>2, <2>3 DEF Ask
<1>5. CASE RunRaw
  BY <1>5, UseBufferKeeps, ReadTrackKeeps, ReadRestKeeps, ReadNeededKeeps, ReadFaultKeeps,
     ListBlocksKeeps, FinishKeeps DEF RunRaw
<1>6. CASE UNCHANGED vars
  <2>0. stale' = stale /\ job' = job /\ disk' = disk /\ unit' = unit
    BY <1>6 DEF vars
  <2>1. TypeOK' /\ JobOK' /\ ReachOK' /\ TrackRead' /\ BufferMatches'
    BY <1>6 DEF vars, request, DiskIInv, TypeOK, JobOK, ReachOK, TrackRead, BufferMatches, Mark
  <2>2. RequestDone'
    BY <1>6, <2>0, DoubtedSame DEF vars, request, DiskIInv, RequestDone, Left, BD!Right
  <2>3. UNCHANGED BD!vars
    BY <1>6, <2>0, DoubtSame DEF vars, BD!vars
  <2> QED
    BY <2>1, <2>2, <2>3 DEF DiskIInv
<1> QED
  BY <1>1, <1>2, <1>3, <1>4, <1>5, <1>6 DEF Next

\* While a command runs the track buffer holds what its drive shows, whatever failed,
\* was written, or was mapped or changed since the track was read, but for the track a
\* map that failed left there; and a request under way has done the part it has gone
\* through, outside that track: for drives, tracks and requests of any size and any
\* number of errors and changes.
THEOREM TrackBufferCorrect == Spec => []TrackInv
<1>1. Init => DiskIInv
  BY DiskInit
<1>2. DiskIInv /\ [Next]_vars => DiskIInv'
  BY DiskNext
<1>3. DiskIInv => TrackInv
  BY DEF DiskIInv, TrackInv
<1> QED
  BY <1>1, <1>2, <1>3, PTL DEF Spec

\* rawread and devread implement the device without tracks or a buffer: a read
\* answers with what the drive holds, a write touches no byte outside the request and
\* its partition, and nothing is reported that did not happen, except in the track that
\* was in the buffer when a map failed.
THEOREM DiskAccessRefinement == Spec => KeepsPromise
<1>1. Init => DiskIInv /\ BD!Init
  BY DiskInit
<1>2. DiskIInv /\ [Next]_vars => DiskIInv' /\ [BD!Next]_BD!vars
  BY DiskNext
<1>3. Spec => BD!Init /\ [][BD!Next]_BD!vars
  BY <1>1, <1>2, PTL DEF Spec
<1> QED
  BY <1>3 DEF KeepsPromise, BD!Spec
=============================================================================
