--------------------------- MODULE PartitionProofs ---------------------------
(***************************************************************************)
(* Proofs about partitions.                                                *)
(*                                                                         *)
(* First find and the buffer of partition lists, for every number of       *)
(* drives, every set of media and nested commands, and any number of       *)
(* changed media and failed reads: what a search has shown is what is      *)
(* there, the root it sets has the file, and the root it does not set is   *)
(* put back.                                                               *)
(*                                                                         *)
(* Then the two walks over the tables of a disk, for every disk: xd_enum   *)
(* and list_partitions find every partition once and agree on the numbers. *)
(* The lists are what find takes for granted.                              *)
(***************************************************************************)
EXTENDS WeeFind, PartWalks, FiniteSetTheorems, FunctionTheorems, SequenceTheorems,
        WellFoundedInduction, TLAPS

-----------------------------------------------------------------------------
(***************************************************************************)
(* The inductive invariant.                                                *)
(***************************************************************************)

AnyMedium == UNION {Media[d] : d \in Drives}
Buffer == [drive : Drives \cup {NoDrive}, list : Seq(EntryType), spoiled : BOOLEAN]

FindTypes ==
    /\ medium \in [Drives -> AnyMedium] /\ hooked \in [Drives -> Drives]
    /\ table \in Buffer /\ table.list # <<>> /\ table.list[Len(table.list)] = End
    /\ current = [drive |-> current.drive, part |-> current.part]
    /\ current.drive \in Drives /\ saved.drive \in Drives /\ tmp.drive \in Drives
    /\ opt \in Options \cup {NoOptions}
    /\ drive \in 1 .. Len(Order) + 1 /\ i \in DOMAIN table.list
    /\ pc \in {"idle", "drive", "entry", "command", "found"}
    /\ trusted \in BOOLEAN /\ (got <=> shown # {}) /\ faults \in Nat
    /\ pc \in {"entry", "command"} => drive =< Len(Order)
    /\ pc = "command" => i + 1 \in DOMAIN table.list

\* The buffer holds a list and its end.
Holds(buffer, parts) ==
    /\ Len(parts) < Len(buffer)
    /\ \A k \in DOMAIN parts : buffer[k] = parts[k]
    /\ buffer[Len(parts) + 1] = End

BufferOK ==
    table.drive # NoDrive /\ ~table.spoiled => Holds(table.list, ListOf(Disk(table.drive)))

\* What find looks for on drive d.
Fits(d, e) ==
    /\ e.type = "data"
    /\ opt.active => e.active /\ e.num < 4
    /\ opt.name => e.at \in Disk(d).files

Hit(d, e) == [drive |-> d, num |-> e.num]
Trusting == pc # "idle" /\ trusted

\* Where a search is whose list can be trusted.
SearchOK ==
    Trusting =>
        /\ ~table.spoiled
        /\ pc \in {"entry", "command"} =>
              current.drive = Drive /\ table.drive = Drive /\ i =< Len(ListOf(Disk(Drive))) + 1
        /\ pc = "command" => Fits(Drive, table.list[i]) /\ current.part = table.list[i].num

\* What it has shown: the partitions it looks for, all up to where it is.
ShownOK ==
    Trusting =>
        /\ \A p \in shown : \E k \in DOMAIN Order : \E e \in Wanted(Order[k]) : p = Hit(Order[k], e)
        /\ opt.command.kind # "no" =>
              /\ \A k \in DOMAIN Order : k < drive =>
                    \A e \in Wanted(Order[k]) : Hit(Order[k], e) \in shown
              /\ pc \in {"entry", "command"} =>
                    \A j \in DOMAIN ListOf(Disk(Drive)) :
                        j < i /\ Fits(Drive, ListOf(Disk(Drive))[j])
                          => Hit(Drive, ListOf(Disk(Drive))[j]) \in shown
        /\ pc = "found" /\ ~opt.setroot => drive > Len(Order)

\* The root it is about to set.
NoHybrid == ~ \E d \in Drives : IsHybrid(d)

RootOK ==
    Trusting /\ opt.setroot /\ NoHybrid =>
        /\ got => opt.command.kind = "yes" /\ drive =< Len(Order) /\ current.drive = Drive
        /\ pc = "drive" => ~got
        /\ opt.command.kind # "no" => \A k \in DOMAIN Order : k < drive => Wanted(Order[k]) = {}
        /\ got /\ pc = "entry" => i > 1 /\ current.part = Whole /\ Fits(Drive, WholeDrive)
        /\ got /\ pc = "found" => \E e \in Wanted(Drive) : e.num = current.part

FindIInv == FindTypes /\ BufferOK /\ SearchOK /\ ShownOK /\ RootOK

-----------------------------------------------------------------------------
(***************************************************************************)
(* The lists.                                                              *)
(***************************************************************************)

LEMMA MediumOfDrive ==
    ASSUME NEW m \in AnyMedium
    PROVE  m.entries \in Seq(EntryType) /\ IsList(m.entries)
BY MediaAssumption DEF AnyMedium

\* The list of a medium: the whole drive, then the entries.
LEMMA ListOfMedium ==
    ASSUME NEW m \in AnyMedium, NEW l, l = ListOf(m)
    PROVE  /\ l \in Seq(EntryType) /\ Len(l) = Len(m.entries) + 1 /\ l[1] = WholeDrive
           /\ \A k \in DOMAIN m.entries : l[k + 1] = m.entries[k]
<1>1. m.entries \in Seq(EntryType)
  BY MediumOfDrive
<1>2. WholeDrive \in EntryType
  BY DEF WholeDrive, EntryType, Whole
<1>3. PICK e \in Seq(EntryType) : e = m.entries
  BY <1>1
<1>4. PICK w \in EntryType : w = WholeDrive
  BY <1>2
<1>5. l = <<w>> \o e
  BY <1>3, <1>4 DEF ListOf, Disk
<1>6. <<w>> \in Seq(EntryType) /\ Len(<<w>>) = 1 /\ <<w>>[1] = w
  BY <1>4
<1>7. l \in Seq(EntryType) /\ Len(l) = 1 + Len(e) /\ l[1] = w
  BY <1>3, <1>5, <1>6
<1>8. \A k \in DOMAIN e : l[k + 1] = e[k]
  BY <1>3, <1>5, <1>6
<1> QED
  BY <1>3, <1>4, <1>7, <1>8

\* It is as open_partition and find take it to be.
LEMMA ListOfRight ==
    ASSUME NEW m \in AnyMedium, NEW l, l = ListOf(m)
    PROVE  /\ \A j, k \in DOMAIN l : l[j].num = l[k].num => j = k
           /\ \A k \in DOMAIN l : l[k] # End
           /\ \A k \in DOMAIN l : l[k].type = "data" => l[k].num \in 0 .. 127 \/ l[k] = WholeDrive
           /\ \A k \in DOMAIN l : l[k].num = Whole => k = 1
           /\ \A j, k \in DOMAIN l : j < k /\ l[j].num \in 4 .. 127 => l[k].num \notin 0 .. 3
<1>1. PICK e \in Seq(EntryType) : e = m.entries /\ IsList(e)
  BY MediumOfDrive
<1>2. /\ l \in Seq(EntryType) /\ Len(l) = Len(e) + 1 /\ l[1] = WholeDrive
      /\ \A k \in DOMAIN e : l[k + 1] = e[k]
  BY <1>1, ListOfMedium
<1>3. ASSUME NEW k \in DOMAIN l PROVE k = 1 \/ (k - 1 \in DOMAIN e /\ l[k] = e[k - 1])
  <2>1. k # 1 => k - 1 \in DOMAIN e /\ (k - 1) + 1 = k
    BY <1>1, <1>2
  <2> QED
    BY <1>2, <2>1
<1>4. l[1].num = Whole /\ l[1].num \notin 0 .. 127 /\ l[1] # End
  BY <1>2 DEF WholeDrive, Whole, End
<1>5. ASSUME NEW k \in DOMAIN e
      PROVE  /\ e[k].num \notin {Whole, 65535} /\ e[k] # End
             /\ e[k].type = "data" => e[k].num \in 0 .. 127
  BY <1>1 DEF IsList, End
<1>9. ASSUME NEW k \in DOMAIN l, k # 1
      PROVE  /\ l[k].num \notin {Whole, 65535} /\ l[k] # End
             /\ l[k].type = "data" => l[k].num \in 0 .. 127
  <2>1. k - 1 \in DOMAIN e /\ l[k] = e[k - 1]
    BY <1>3, <1>9
  <2>2. PICK a \in DOMAIN e : l[k] = e[a]
    BY <2>1
  <2> QED
    BY <1>5, <2>2
<1>10. \A k \in DOMAIN l : k # 1 => l[k].num # Whole
  BY <1>9
<1>11. l[1].num = Whole
  BY <1>4
<1>6. ASSUME NEW j \in DOMAIN l, NEW k \in DOMAIN l, l[j].num = l[k].num PROVE j = k
  <2>1. CASE j = 1 /\ k # 1
    <3>1. l[k].num # Whole /\ l[1].num = Whole
      BY <1>10, <1>11, <2>1
    <3> QED
      BY <1>6, <2>1, <3>1
  <2>2. CASE j # 1 /\ k = 1
    <3>1. l[j].num # Whole /\ l[1].num = Whole
      BY <1>10, <1>11, <2>2
    <3> QED
      BY <1>6, <2>2, <3>1
  <2>3. CASE j # 1 /\ k # 1
    <3>1. PICK a \in DOMAIN e : a = j - 1 /\ l[j] = e[a]
      BY <1>3, <2>3
    <3>2. PICK b \in DOMAIN e : b = k - 1 /\ l[k] = e[b]
      BY <1>3, <2>3
    <3>3. a = b
      BY <1>1, <1>6, <3>1, <3>2 DEF IsList
    <3> QED
      BY <1>2, <3>1, <3>2, <3>3
  <2> QED
    BY <2>1, <2>2, <2>3
<1>7. ASSUME NEW j \in DOMAIN l, NEW k \in DOMAIN l, j < k, l[j].num \in 4 .. 127
      PROVE  l[k].num \notin 0 .. 3
  <2>0. j # 1
    <3>1. j = 1 => l[1].num \in 4 .. 127
      BY <1>7
    <3> QED
      BY <1>4, <3>1 DEF Whole
  <2>1. PICK a \in DOMAIN e : a = j - 1 /\ l[j] = e[a]
    BY <1>3, <2>0
  <2>2. k # 1
    BY <1>2, <1>7
  <2>3. PICK b \in DOMAIN e : b = k - 1 /\ l[k] = e[b]
    BY <1>3, <2>2
  <2>4. a < b
    BY <1>2, <1>7, <2>1, <2>3
  <2> QED
    BY <1>1, <1>7, <2>1, <2>3, <2>4 DEF IsList
<1>8. ASSUME NEW k \in DOMAIN l
      PROVE  /\ l[k] # End /\ (l[k].num = Whole => k = 1)
             /\ l[k].type = "data" => l[k].num \in 0 .. 127 \/ l[k] = WholeDrive
  <2>1. CASE k = 1
    BY <1>2, <1>4, <2>1
  <2>2. CASE k # 1
    BY <1>9, <2>2
  <2> QED
    BY <2>1, <2>2
<1> QED
  BY <1>6, <1>7, <1>8

-----------------------------------------------------------------------------
(***************************************************************************)
(* The buffer.                                                             *)
(***************************************************************************)

\* A list written over another one is there, and the last word still ends a list.
LEMMA OverHolds ==
    ASSUME NEW l \in Seq(EntryType), NEW b \in Seq(EntryType), b # <<>>, b[Len(b)] = End
    PROVE  /\ Over(l, b) \in Seq(EntryType) /\ Len(Over(l, b)) >= Len(b)
           /\ Over(l, b)[Len(Over(l, b))] = End
           /\ Holds(Over(l, b), l)
<1>1. End \in EntryType
  BY DEF End, EntryType
<1>2. PICK e \in EntryType : e = End
  BY <1>1
<1>3. PICK n \in Nat : n = Len(l)
  OBVIOUS
<1>4. PICK m \in Nat \ {0} : m = Len(b)
  <2>1. Len(b) \in Nat \ {0}
    OBVIOUS
  <2> QED
    BY <2>1
<1>5. PICK h \in Seq(EntryType) : h = l \o <<e>>
  <2>1. l \o <<e>> \in Seq(EntryType)
    BY <1>2
  <2> QED
    BY <2>1
<1>6. /\ Len(h) = n + 1 /\ h[n + 1] = e
      /\ \A k \in 1 .. n : h[k] = l[k]
  BY <1>2, <1>3, <1>5
<1>7. PICK t \in Seq(EntryType) : t = SubSeq(b, n + 2, m)
  <2>1. \A k \in n + 2 .. m : b[k] \in EntryType
    BY <1>3, <1>4
  <2>2. SubSeq(b, n + 2, m) \in Seq(EntryType)
    BY <1>3, <1>4, <2>1
  <2> QED
    BY <2>2
<1>8. PICK c \in Nat : c = Len(t)
  <2>1. Len(t) \in Nat
    BY <1>7, LenProperties
  <2> QED
    BY <2>1
<1>14. c = (IF n + 2 =< m THEN m - (n + 1) ELSE 0)
  BY <1>3, <1>4, <1>7, <1>8
<1>15. \A k \in 1 .. c : t[k] = b[n + 1 + k]
  <2> SUFFICES ASSUME NEW k \in 1 .. c PROVE t[k] = b[n + 1 + k]
    OBVIOUS
  <2>1. k \in 1 .. m - (n + 1) /\ n + 2 =< m
    BY <1>3, <1>4, <1>8, <1>14
  <2>2. t[k] = b[n + 2 + k - 1]
    BY <1>3, <1>4, <1>7, <2>1
  <2>3. n + 2 + k - 1 = n + 1 + k
    BY <2>1, <1>3, <1>4
  <2> QED
    BY <2>2, <2>3
<1>9. PICK o \in Seq(EntryType) : o = h \o t
  <2>1. h \o t \in Seq(EntryType)
    BY <1>5, <1>7
  <2> QED
    BY <2>1
<1>10. Over(l, b) = o
  BY <1>2, <1>3, <1>4, <1>5, <1>7, <1>9 DEF Over
<1>11. /\ Len(o) = (n + 1) + c
       /\ \A k \in 1 .. n + 1 : o[k] = h[k]
       /\ \A k \in 1 .. c : o[(n + 1) + k] = t[k]
  BY <1>3, <1>5, <1>6, <1>7, <1>8, <1>9
<1>12. Len(o) >= m /\ o[Len(o)] = e
  <2>1. CASE n + 2 =< m
    <3>0. c = m - (n + 1)
      BY <1>14, <2>1
    <3>1. c > 0 /\ (n + 1) + c = m /\ n + 1 + c = m
      BY <1>3, <1>4, <1>8, <2>1, <3>0
    <3>2. c \in 1 .. c
      BY <1>8, <3>1
    <3>3. o[(n + 1) + c] = t[c] /\ t[c] = b[n + 1 + c]
      BY <1>11, <1>15, <3>2
    <3>4. Len(o) = m
      BY <1>11, <3>1
    <3>5. o[m] = b[m]
      BY <3>1, <3>3
    <3> QED
      BY <1>2, <1>4, <3>4, <3>5
  <2>2. CASE ~(n + 2 =< m)
    <3>1. Len(o) = n + 1 /\ Len(o) >= m
      BY <1>3, <1>4, <1>8, <1>11, <1>14, <2>2
    <3> QED
      BY <1>3, <1>6, <1>11, <3>1
  <2> QED
    BY <2>1, <2>2
<1>13. Holds(o, l)
  <2>1. Len(l) < Len(o)
    BY <1>3, <1>8, <1>11
  <2>2. \A k \in DOMAIN l : o[k] = l[k]
    BY <1>3, <1>6, <1>11
  <2>3. o[Len(l) + 1] = End
    BY <1>2, <1>3, <1>6, <1>11
  <2> QED
    BY <2>1, <2>2, <2>3 DEF Holds
<1> QED
  BY <1>2, <1>4, <1>9, <1>10, <1>12, <1>13

\* list_partitions leaves a list in the buffer, and without a failed read the one of
\* the drive.
LEMMA Listed ==
    ASSUME FindTypes, BufferOK, NEW d \in Drives, ListPartitions(d), medium' = medium, hooked' = hooked
    PROVE  /\ table' \in Buffer /\ table'.list # <<>> /\ table'.list[Len(table'.list)] = End
           /\ table'.drive = d /\ Len(table'.list) >= Len(table.list) /\ faults' \in Nat
           /\ BufferOK'
           /\ ~table.spoiled /\ faults' = faults => ~table'.spoiled
<1>1. table \in Buffer /\ table.list # <<>> /\ table.list[Len(table.list)] = End /\ faults \in Nat
      /\ Disk(d) \in AnyMedium
  BY DEF FindTypes, Disk
<1>2. CASE table.drive = d
  BY <1>1, <1>2 DEF ListPartitions, BufferOK, Buffer, Holds, ListOf, Disk
<1>3. CASE table.drive # d
  <2>1. PICK l \in Readable(d) :
          /\ table' = [drive |-> d, list |-> Over(l, table.list), spoiled |-> l # ListOf(Disk(d))]
          /\ faults' = faults + (IF l = ListOf(Disk(d)) THEN 0 ELSE 1)
    BY <1>3 DEF ListPartitions
  <2>2. l \in Seq(EntryType)
    <3>1. ListOf(Disk(d)) \in Seq(EntryType)
      BY <1>1, ListOfMedium
    <3>2. WholeDrive \in EntryType
      BY DEF WholeDrive, EntryType, Whole
    <3>3. <<WholeDrive>> \in Seq(EntryType)
      BY <3>2
    <3> QED
      BY <3>1, <3>3 DEF Readable
  <2>3. PICK b \in Seq(EntryType) : b = table.list
    BY <1>1 DEF Buffer
  <2>4. PICK o \in Seq(EntryType) : o = Over(l, b)
    BY <1>1, <2>2, <2>3, OverHolds
  <2>5. Len(o) >= Len(b) /\ o[Len(o)] = End /\ Holds(o, l) /\ o # <<>>
    <3>1. Len(o) >= Len(b) /\ o[Len(o)] = End /\ Holds(o, l)
      BY <1>1, <2>2, <2>3, <2>4, OverHolds
    <3>2. Len(b) > 0
      BY <1>1, <2>3
    <3> QED
      BY <2>3, <2>4, <3>1, <3>2
  <2>6. table' = [drive |-> d, list |-> o, spoiled |-> l # ListOf(Disk(d))]
    BY <2>1, <2>3, <2>4
  <2>7. table' \in Buffer
    BY <2>4, <2>6 DEF Buffer
  <2>8. BufferOK'
    <3> SUFFICES ASSUME ~table'.spoiled PROVE Holds(o, ListOf(Disk(d)))
      BY <2>6 DEF BufferOK, Holds, ListOf, Disk
    <3>1. l = ListOf(Disk(d))
      BY <2>6
    <3> QED
      BY <2>5, <3>1
  <2>9. faults' \in Nat /\ (faults' = faults => ~table'.spoiled)
    <3>1. CASE l = ListOf(Disk(d))
      <4>1. faults' = faults + 0
        BY <2>1, <3>1
      <4>2. ~table'.spoiled
        BY <2>6, <3>1
      <4> QED
        BY <1>1, <4>1, <4>2
    <3>2. CASE l # ListOf(Disk(d))
      <4>1. faults' = faults + 1
        BY <2>1, <3>2
      <4> QED
        BY <1>1, <4>1
    <3> QED
      BY <3>1, <3>2
  <2> QED
    BY <2>3, <2>5, <2>6, <2>7, <2>8, <2>9
<1> QED
  BY <1>2, <1>3

\* The first end of a list ends it.
LEMMA LengthIs ==
    ASSUME NEW b \in Seq(EntryType), NEW n \in Nat, n + 1 \in Ends(b),
           \A j \in Ends(b) : n + 1 =< j
    PROVE  Length(b) = n
<1>1. PICK c : c = CHOOSE k \in Ends(b) : \A j \in Ends(b) : k =< j
  OBVIOUS
<1>2. c \in Ends(b) /\ \A j \in Ends(b) : c =< j
  <2>1. \E k \in Ends(b) : \A j \in Ends(b) : k =< j
    OBVIOUS
  <2> QED
    BY <1>1, <2>1, Zenon
<1>3. c \in Nat
  BY <1>2 DEF Ends
<1>4. c = n + 1
  BY <1>2, <1>3
<1>5. Length(b) = c - 1
  BY <1>1, Zenon DEF Length
<1> QED
  BY <1>4, <1>5

\* open_partition finds an entry of a list that is there.
LEMMA EntryFound ==
    ASSUME NEW m \in AnyMedium, NEW l, l = ListOf(m), NEW b \in Seq(EntryType), Holds(b, l),
           NEW k \in DOMAIN l
    PROVE  With(b, l[k].num) # {} /\ EntryWith(b, l[k].num) = l[k]
<1>1. l \in Seq(EntryType) /\ \A j \in DOMAIN l : l[j] # End
  BY ListOfMedium, ListOfRight
<1>2. PICK n \in Nat : n = Len(l) /\ n < Len(b)
  BY <1>1 DEF Holds
<1>3. n + 1 \in Ends(b) /\ \A j \in Ends(b) : n + 1 =< j
  <2>1. n + 1 \in DOMAIN b /\ b[n + 1] = End
    BY <1>2 DEF Holds
  <2>2. ASSUME NEW j \in DOMAIN b, b[j] = End PROVE n + 1 =< j
    <3>1. j =< n => j \in DOMAIN l /\ b[j] = l[j]
      BY <1>1, <1>2 DEF Holds
    <3>2. ~(j =< n)
      BY <1>1, <2>2, <3>1
    <3> QED
      BY <1>2, <3>2
  <2> QED
    BY <2>1, <2>2 DEF Ends
<1>4. Length(b) = n
  BY <1>2, <1>3, LengthIs
<1>5. With(b, l[k].num) = {k}
  <2>1. k \in 1 .. n /\ b[k] = l[k]
    BY <1>1, <1>2 DEF Holds
  <2>2. ASSUME NEW j \in 1 .. n, b[j].num = l[k].num PROVE j = k
    <3>1. j \in DOMAIN l /\ b[j] = l[j]
      BY <1>1, <1>2 DEF Holds
    <3> QED
      BY <2>2, <3>1, ListOfRight
  <2>3. With(b, l[k].num) = {j \in 1 .. n : b[j].num = l[k].num}
    BY <1>4 DEF With
  <2> QED
    BY <2>1, <2>2, <2>3
<1>6. EntryWith(b, l[k].num) = b[k]
  <2>1. (CHOOSE x \in {k} : \A j \in {k} : x =< j) = k
    <3>1. \E x \in {k} : \A j \in {k} : x =< j
      BY <1>1
    <3> QED
      BY <3>1
  <2> QED
    BY <1>5, <2>1 DEF EntryWith
<1> QED
  BY <1>1, <1>5, <1>6 DEF Holds

\* What find looks for on a drive is in its list.
LEMMA WantedIs ==
    ASSUME NEW d, NEW e
    PROVE  e \in Wanted(d) <=> /\ \E k \in DOMAIN ListOf(Disk(d)) : e = ListOf(Disk(d))[k]
                               /\ Fits(d, e)
BY DEF Wanted, Fits

-----------------------------------------------------------------------------
(***************************************************************************)
(* Commands between two finds.                                             *)
(***************************************************************************)

LEMMA OrderOK ==
    ASSUME opt.floppies \in BOOLEAN
    PROVE  Order \in Seq(Drives) /\ Len(Order) \in Nat /\ \A k \in DOMAIN Order : Order[k] \in Drives
<1>1. Hard \in Seq(Drives) /\ Floppy \in Seq(Drives)
  BY WeeFindAssumption
<1>2. Hard \o Floppy \in Seq(Drives)
  BY <1>1
<1>3. Order \in Seq(Drives)
  BY <1>1, <1>2 DEF Order
<1> QED
  BY <1>3

LEMMA OptionsOK ==
    ASSUME opt \in Options \cup {NoOptions}
    PROVE  /\ opt.setroot \in BOOLEAN /\ opt.active \in BOOLEAN /\ opt.name \in BOOLEAN
           /\ opt.floppies \in BOOLEAN
           /\ opt.command.kind = "root" => opt.command.drive \in Drives
<1>1. CASE opt \in Options
  BY <1>1, WeeFindAssumption DEF Options
<1>2. CASE opt = NoOptions
  BY <1>2 DEF NoOptions
<1> QED
  BY <1>1, <1>2

LEMMA FindStarts == Init => FindIInv
<1> SUFFICES ASSUME Init PROVE FindIInv
  OBVIOUS
<1>1. medium \in [Drives -> AnyMedium] /\ hooked \in [Drives -> Drives]
  BY DEF Init, AnyMedium, NoMap
<1>2. table \in Buffer /\ table.list # <<>> /\ table.list[Len(table.list)] = End
  <2>1. End \in EntryType
    BY DEF End, EntryType
  <2>2. <<End>> \in Seq(EntryType) /\ Len(<<End>>) = 1 /\ <<End>>[1] = End /\ <<End>> # <<>>
    BY <2>1
  <2>3. table = [drive |-> NoDrive, list |-> <<End>>, spoiled |-> FALSE]
    BY DEF Init
  <2> QED
    BY <2>2, <2>3 DEF Buffer
<1>3. Hard[1] \in Drives
  BY WeeFindAssumption
<1>4. drive \in 1 .. Len(Order) + 1
  <2>1. opt.floppies \in BOOLEAN
    BY OptionsOK DEF Init
  <2> QED
    BY <2>1, OrderOK DEF Init
<1>5. i \in DOMAIN table.list
  BY <1>2 DEF Init, Buffer
<1>6. FindTypes
  BY <1>1, <1>2, <1>3, <1>4, <1>5 DEF Init, FindTypes
<1>7. BufferOK
  BY DEF Init, BufferOK
<1>8. SearchOK /\ ShownOK /\ RootOK
  BY DEF Init, SearchOK, ShownOK, RootOK, Trusting
<1> QED
  BY <1>6, <1>7, <1>8 DEF FindIInv

\* A place in the buffer stays one.
LEMMA PlaceStays ==
    ASSUME FindTypes, table' \in Buffer, Len(table'.list) >= Len(table.list)
    PROVE  /\ i \in DOMAIN table'.list
           /\ i + 1 \in DOMAIN table.list => i + 1 \in DOMAIN table'.list
<1>1. PICK b \in Seq(EntryType) : b = table.list /\ i \in DOMAIN b
  BY DEF FindTypes, Buffer
<1>2. PICK c \in Seq(EntryType) : c = table'.list /\ Len(c) >= Len(b)
  BY <1>1 DEF Buffer
<1> QED
  BY <1>1, <1>2

\* The place after an entry is in the buffer, since an end is the last word of it.
LEMMA PlaceAfter ==
    ASSUME FindTypes, table.list[i] # End
    PROVE  i + 1 \in DOMAIN table.list
<1>1. PICK b \in Seq(EntryType) : b = table.list /\ b[Len(b)] = End /\ i \in DOMAIN b
  BY DEF FindTypes, Buffer
<1>2. i # Len(b)
  BY <1>1
<1> QED
  BY <1>1, <1>2

\* The root command, of the user or nested in find.
LEMMA SetRootOK ==
    ASSUME FindTypes, BufferOK, NEW d \in Drives, NEW num, SetRoot(d, num), medium' = medium, hooked' = hooked
    PROVE  /\ table' \in Buffer /\ table'.list # <<>> /\ table'.list[Len(table'.list)] = End
           /\ Len(table'.list) >= Len(table.list) /\ faults' \in Nat /\ BufferOK'
           /\ current' = [drive |-> current'.drive, part |-> current'.part]
           /\ current'.drive \in Drives /\ saved'.drive \in Drives
<1>1. ListPartitions(d)
  BY DEF SetRoot
<1>2. \E part : current' = [drive |-> d, part |-> part] /\ saved' \in {saved, current'}
  BY DEF SetRoot
<1>3. saved.drive \in Drives
  BY DEF FindTypes
<1> QED
  BY <1>1, <1>2, <1>3, Listed

LEMMA RootKeeps ==
    ASSUME FindIInv, NEW d \in Drives, NEW num, Root(d, num)
    PROVE  FindIInv'
<1>1. /\ pc = "idle" /\ pc' = pc /\ SetRoot(d, num)
      /\ UNCHANGED <<medium, hooked, opt, tmp, drive, i, got, shown, trusted>>
  BY DEF Root, loop, disks
<1>2. FindTypes /\ BufferOK
  BY DEF FindIInv
<1>3. /\ table' \in Buffer /\ table'.list # <<>> /\ table'.list[Len(table'.list)] = End
      /\ Len(table'.list) >= Len(table.list) /\ faults' \in Nat /\ BufferOK'
      /\ current' = [drive |-> current'.drive, part |-> current'.part]
      /\ current'.drive \in Drives /\ saved'.drive \in Drives
  BY <1>1, <1>2, SetRootOK
<1>4. FindTypes'
  BY <1>1, <1>2, <1>3, PlaceStays DEF FindTypes, Order
<1>5. SearchOK' /\ ShownOK' /\ RootOK'
  BY <1>1 DEF SearchOK, ShownOK, RootOK, Trusting
<1> QED
  BY <1>3, <1>4, <1>5 DEF FindIInv

\* A list that is kept is spoiled unless its drive shows the same disk as before.
LEMMA KeptOK ==
    ASSUME FindTypes, BufferOK, NEW map \in [Drives -> Drives], hooked' = map, medium' = medium,
           table' = Kept(map)
    PROVE  table' \in Buffer /\ table'.list = table.list /\ BufferOK'
<1>1. table \in Buffer
  BY DEF FindTypes
<1>2. /\ table' \in Buffer /\ table'.list = table.list /\ table'.drive = table.drive
      /\ ~table'.spoiled /\ table.drive # NoDrive =>
            ~table.spoiled /\ map[table.drive] = hooked[table.drive]
  <2>1. PICK s \in BOOLEAN :
          s = (table.spoiled \/ (table.drive # NoDrive /\ map[table.drive] # hooked[table.drive]))
    OBVIOUS
  <2>2. table' = [table EXCEPT !.spoiled = s]
    BY <1>1, <2>1 DEF Kept, Buffer
  <2> QED
    BY <1>1, <2>1, <2>2 DEF Buffer
<1>3. BufferOK'
  <2> SUFFICES ASSUME table'.drive # NoDrive, ~table'.spoiled
               PROVE  Holds(table'.list, ListOf(Disk(table.drive)'))
    BY <1>2 DEF BufferOK, Holds, ListOf
  <2>1. Holds(table.list, ListOf(Disk(table.drive)))
    BY <1>2 DEF BufferOK
  <2>2. Disk(table.drive)' = Disk(table.drive)
    BY <1>2 DEF Disk
  <2> QED
    BY <1>2, <2>1, <2>2
<1> QED
  BY <1>2, <1>3

\* A map that is hooked forgets the list, or in the build that does not spoils it.
LEMMA HookOK ==
    ASSUME FindTypes, BufferOK, NEW map \in [Drives -> Drives], Hook(map), medium' = medium
    PROVE  hooked' = map /\ table' \in Buffer /\ table'.list = table.list /\ BufferOK'
<1>1. hooked' = map
  BY DEF Hook
<1>2. CASE Build127
  BY <1>1, <1>2, KeptOK DEF Hook
<1>3. CASE ~Build127
  <2>1. table' = [table EXCEPT !.drive = NoDrive, !.spoiled = FALSE]
    BY <1>3 DEF Hook
  <2>2. table' \in Buffer /\ table'.list = table.list /\ table'.drive = NoDrive
    BY <2>1 DEF FindTypes, Buffer
  <2> QED
    BY <1>1, <2>2 DEF BufferOK
<1> QED
  BY <1>2, <1>3

LEMMA NoMapIs == NoMap \in [Drives -> Drives]
BY DEF NoMap

LEMMA HookNothingOK ==
    ASSUME FindTypes, BufferOK, HookNothing, medium' = medium
    PROVE  hooked' \in [Drives -> Drives] /\ table' \in Buffer /\ table'.list = table.list /\ BufferOK'
BY NoMapIs, KeptOK DEF HookNothing

LEMMA MapKeeps ==
    ASSUME FindIInv, NEW map \in DriveMaps \cup {NoMap}, Map(map)
    PROVE  FindIInv'
<1>1. /\ pc = "idle" /\ pc' = pc /\ Hook(map)
      /\ UNCHANGED <<medium, opt, tmp, drive, i, got, shown, trusted, current, saved, faults>>
  BY DEF Map, loop
<1>2. FindTypes /\ BufferOK
  BY DEF FindIInv
<1>3. map \in [Drives -> Drives]
  BY NoMapIs, WeeFindAssumption
<1>4. hooked' = map /\ table' \in Buffer /\ table'.list = table.list /\ BufferOK'
  BY <1>1, <1>2, <1>3, HookOK
<1>5. FindTypes'
  BY <1>1, <1>2, <1>3, <1>4 DEF FindTypes, Order
<1>6. SearchOK' /\ ShownOK' /\ RootOK'
  BY <1>1 DEF SearchOK, ShownOK, RootOK, Trusting
<1> QED
  BY <1>4, <1>5, <1>6 DEF FindIInv

LEMMA MapFailsKeeps ==
    ASSUME FindIInv, MapFails
    PROVE  FindIInv'
<1>1. /\ pc = "idle" /\ pc' = pc /\ HookNothing
      /\ UNCHANGED <<medium, opt, tmp, drive, i, got, shown, trusted, current, saved, faults>>
  BY DEF MapFails, loop
<1>2. FindTypes /\ BufferOK
  BY DEF FindIInv
<1>3. hooked' \in [Drives -> Drives] /\ table' \in Buffer /\ table'.list = table.list /\ BufferOK'
  BY <1>1, <1>2, HookNothingOK
<1>4. FindTypes'
  BY <1>1, <1>2, <1>3 DEF FindTypes, Order
<1>5. SearchOK' /\ ShownOK' /\ RootOK'
  BY <1>1 DEF SearchOK, ShownOK, RootOK, Trusting
<1> QED
  BY <1>3, <1>4, <1>5 DEF FindIInv

\* A new medium spoils the list of the drive that shows it.
LEMMA ChangeMediumKeeps ==
    ASSUME FindIInv, NEW d \in Drives, ChangeMedium(d)
    PROVE  FindIInv'
<1>1. /\ pc = "idle" /\ pc' = pc
      /\ table' = [table EXCEPT !.spoiled = @ \/ (table.drive # NoDrive /\ hooked[table.drive] = d)]
      /\ UNCHANGED <<hooked, opt, tmp, drive, i, got, shown, trusted, current, saved, faults>>
  BY DEF ChangeMedium, loop
<1>2. PICK m \in Media[d] : medium' = [medium EXCEPT ![d] = m]
  BY DEF ChangeMedium
<1>3. FindTypes /\ BufferOK
  BY DEF FindIInv
<1>4. m \in AnyMedium
  BY DEF AnyMedium
<1>5. medium' \in [Drives -> AnyMedium] /\ \A x \in Drives : x # d => medium'[x] = medium[x]
  BY <1>2, <1>3, <1>4 DEF FindTypes
<1>6. table \in Buffer
  BY <1>3 DEF FindTypes
<1>7. /\ table' \in Buffer /\ table'.list = table.list /\ table'.drive = table.drive
      /\ ~table'.spoiled /\ table.drive # NoDrive => ~table.spoiled /\ hooked[table.drive] # d
  <2>1. PICK s \in BOOLEAN : s = (table.spoiled \/ (table.drive # NoDrive /\ hooked[table.drive] = d))
    OBVIOUS
  <2>2. table' = [table EXCEPT !.spoiled = s]
    BY <1>1, <1>6, <2>1 DEF Buffer
  <2> QED
    BY <1>6, <2>1, <2>2 DEF Buffer
<1>8. FindTypes'
  BY <1>1, <1>3, <1>5, <1>7 DEF FindTypes, Order
<1>9. BufferOK'
  <2> SUFFICES ASSUME table'.drive # NoDrive, ~table'.spoiled
               PROVE  Holds(table'.list, ListOf(Disk(table.drive)'))
    BY <1>7 DEF BufferOK, Holds, ListOf
  <2>1. Holds(table.list, ListOf(Disk(table.drive)))
    BY <1>3, <1>7 DEF BufferOK
  <2>2. hooked[table.drive] \in Drives /\ hooked[table.drive] # d
    BY <1>3, <1>6, <1>7 DEF Buffer, FindTypes
  <2>3. Disk(table.drive)' = Disk(table.drive)
    BY <1>1, <1>5, <1>7, <2>2 DEF Disk
  <2> QED
    BY <1>7, <2>1, <2>3
<1>10. SearchOK' /\ ShownOK' /\ RootOK'
  BY <1>1 DEF SearchOK, ShownOK, RootOK, Trusting
<1> QED
  BY <1>8, <1>9, <1>10 DEF FindIInv

\* A search begins at the first drive and has shown nothing.
LEMMA StartFindKeeps ==
    ASSUME FindIInv, NEW o \in Options, StartFind(o)
    PROVE  FindIInv'
<1>1. /\ opt' = o /\ tmp' = saved /\ current' = [drive |-> saved.drive, part |-> Whole]
      /\ drive' = 1 /\ i' = 1 /\ got' = FALSE /\ shown' = {} /\ pc' = "drive"
      /\ trusted' = ~table.spoiled
      /\ UNCHANGED <<medium, hooked, table, saved, faults>>
  BY DEF StartFind, disks
<1>2. FindTypes /\ BufferOK
  BY DEF FindIInv
<1>3. drive' \in 1 .. Len(Order') + 1
  <2>1. Len(Order') \in Nat
    <3>1. Hard \in Seq(Drives) /\ Floppy \in Seq(Drives) /\ Hard \o Floppy \in Seq(Drives)
      BY WeeFindAssumption
    <3> QED
      BY <3>1 DEF Order
  <2> QED
    BY <1>1, <2>1
<1>4. i' \in DOMAIN table'.list
  BY <1>1, <1>2 DEF FindTypes, Buffer
<1>5. FindTypes'
  BY <1>1, <1>2, <1>3, <1>4 DEF FindTypes, Buffer
<1>6. BufferOK'
  BY <1>1, <1>2 DEF BufferOK, Holds, ListOf, Disk
<1>7. SearchOK'
  BY <1>1 DEF SearchOK, Trusting
<1>8. ShownOK' /\ RootOK'
  <2>1. \A k \in DOMAIN Order' : ~(k < 1)
    <3>1. Hard \in Seq(Drives) /\ Floppy \in Seq(Drives) /\ Hard \o Floppy \in Seq(Drives)
      BY WeeFindAssumption
    <3>2. Order' \in Seq(Drives)
      BY <3>1 DEF Order
    <3> QED
      BY <3>2
  <2> QED
    BY <1>1, <2>1 DEF ShownOK, RootOK
<1> QED
  BY <1>5, <1>6, <1>7, <1>8 DEF FindIInv

-----------------------------------------------------------------------------
(***************************************************************************)
(* The steps of find.                                                      *)
(***************************************************************************)

\* While find runs, what it looks for stays the same.
LEMMA SameWanted ==
    ASSUME UNCHANGED <<medium, hooked, opt>>
    PROVE  /\ \A d : Wanted(d)' = Wanted(d)
           /\ \A d, e : Fits(d, e)' <=> Fits(d, e)
           /\ NoHybrid' <=> NoHybrid
           /\ Order' = Order
BY DEF Wanted, Fits, NoHybrid, IsHybrid, ListOf, Order, Disk

\* The drive that is searched.
LEMMA DriveOK ==
    ASSUME FindTypes, drive =< Len(Order)
    PROVE  drive \in DOMAIN Order /\ Drive \in Drives /\ Disk(Drive) \in AnyMedium
<1>1. Order \in Seq(Drives) /\ \A k \in DOMAIN Order : Order[k] \in Drives
  BY OptionsOK, OrderOK DEF FindTypes
<1>2. drive \in DOMAIN Order
  BY <1>1 DEF FindTypes
<1> QED
  BY <1>1, <1>2 DEF Drive, FindTypes, Disk

\* The entry find is at is one of the list of the drive.
LEMMA AtEntry ==
    ASSUME FindIInv, Trusting, pc \in {"entry", "command"}, NEW l, l = ListOf(Disk(Drive))
    PROVE  /\ drive \in DOMAIN Order /\ Drive \in Drives /\ Disk(Drive) \in AnyMedium
           /\ table.list \in Seq(EntryType) /\ Holds(table.list, l)
           /\ l \in Seq(EntryType) /\ i \in Nat /\ i =< Len(l) + 1
           /\ table.list[i] = End => i = Len(l) + 1
           /\ table.list[i] # End => i \in DOMAIN l /\ table.list[i] = l[i] /\ i + 1 =< Len(l) + 1
<1>1. drive \in DOMAIN Order /\ Drive \in Drives /\ Disk(Drive) \in AnyMedium
  BY DriveOK DEF FindIInv, FindTypes
<1>2. table.list \in Seq(EntryType) /\ i \in DOMAIN table.list /\ i \in Nat
  BY DEF FindIInv, FindTypes, Buffer
<1>3. /\ ~table.spoiled /\ table.drive = Drive /\ i =< Len(l) + 1
  BY DEF FindIInv, SearchOK
<1>4. Holds(table.list, l)
  BY <1>1, <1>3, WeeFindAssumption DEF FindIInv, BufferOK
<1>5. l \in Seq(EntryType) /\ \A k \in DOMAIN l : l[k] # End
  BY <1>1, ListOfMedium, ListOfRight
<1>6. i =< Len(l) => i \in DOMAIN l /\ table.list[i] = l[i]
  BY <1>2, <1>4, <1>5 DEF Holds
<1>7. ~(i =< Len(l)) => i = Len(l) + 1 /\ table.list[i] = End
  BY <1>2, <1>3, <1>4, <1>5 DEF Holds
<1> QED
  BY <1>1, <1>2, <1>3, <1>4, <1>5, <1>6, <1>7

LEMMA OpenDriveKeeps == ASSUME FindIInv, OpenDrive PROVE FindIInv'
<1>1. /\ pc = "drive" /\ drive =< Len(Order) /\ ListPartitions(Drive)
      /\ current' = [current EXCEPT !.drive = Drive]
      /\ i' = 1 /\ pc' = "entry" /\ trusted' = (trusted /\ faults' = faults)
      /\ UNCHANGED <<medium, hooked, saved, opt, tmp, drive, got, shown>>
  BY DEF OpenDrive, disks
<1>2. FindTypes /\ BufferOK
  BY DEF FindIInv
<1>3. drive \in DOMAIN Order /\ Drive \in Drives /\ Disk(Drive) \in AnyMedium
  BY <1>1, <1>2, DriveOK
<1>4. /\ table' \in Buffer /\ table'.list # <<>> /\ table'.list[Len(table'.list)] = End
      /\ table'.drive = Drive /\ faults' \in Nat
      /\ BufferOK'
      /\ ~table.spoiled /\ faults' = faults => ~table'.spoiled
  BY <1>1, <1>2, <1>3, Listed
<1>5. current' = [drive |-> current'.drive, part |-> current'.part] /\ current'.drive = Drive
  <2>1. PICK c : c = current /\ c = [drive |-> c.drive, part |-> c.part]
    BY <1>2 DEF FindTypes
  <2>2. PICK d : d = Drive
    OBVIOUS
  <2>3. [c EXCEPT !.drive = d] = [drive |-> d, part |-> c.part]
    BY <2>1
  <2> QED
    BY <1>1, <2>1, <2>2, <2>3
<1>6. Order' = Order /\ Drive' = Drive
  BY <1>1 DEF Order, Drive
<1>7. i' \in DOMAIN table'.list
  BY <1>1, <1>4 DEF Buffer
<1>8. trusted' \in BOOLEAN
  BY <1>1, <1>2 DEF FindTypes
<1>9. FindTypes'
  BY <1>1, <1>2, <1>3, <1>4, <1>5, <1>6, <1>7, <1>8 DEF FindTypes
<1>10. Trusting' => Trusting /\ ~table.spoiled /\ faults' = faults
  BY <1>1 DEF FindIInv, SearchOK, Trusting
<1>11. ListOf(Disk(Drive))' = ListOf(Disk(Drive))
  BY <1>1, <1>6 DEF ListOf, Disk
<1>12. SearchOK'
  <2>1. Len(ListOf(Disk(Drive))) \in Nat
    BY <1>3, ListOfMedium
  <2>2. 1 =< Len(ListOf(Disk(Drive))) + 1
    BY <2>1
  <2> QED
    BY <1>1, <1>4, <1>5, <1>6, <1>10, <1>11, <2>2 DEF SearchOK
<1>13. ShownOK'
  <2>1. \A k \in DOMAIN ListOf(Disk(Drive)) : ~(k < 1)
    <3>1. ListOf(Disk(Drive)) \in Seq(EntryType)
      BY <1>3, ListOfMedium
    <3> QED
      BY <3>1
  <2> QED
    BY <1>1, <1>6, <1>10, <1>11, <2>1, SameWanted DEF FindIInv, ShownOK, Hit
<1>14. RootOK'
  BY <1>1, <1>6, <1>10, SameWanted DEF FindIInv, RootOK
<1> QED
  BY <1>4, <1>9, <1>12, <1>13, <1>14 DEF FindIInv

\* At the end of a list all entries of the drive that fit are shown.
LEMMA DriveSearched ==
    ASSUME FindIInv, Trusting, pc = "entry", EndOfDrive, opt.command.kind # "no",
           NEW e \in Wanted(Drive)
    PROVE  Hit(Drive, e) \in shown
<1>1. PICK l : l = ListOf(Disk(Drive))
  OBVIOUS
<1>2. /\ Disk(Drive) \in AnyMedium /\ l \in Seq(EntryType) /\ i \in Nat
      /\ table.list[i] = End => i = Len(l) + 1
      /\ table.list[i] # End => i \in DOMAIN l /\ table.list[i] = l[i]
  BY <1>1, AtEntry
<1>3. PICK j \in DOMAIN l : e = l[j] /\ Fits(Drive, e)
  BY <1>1, WantedIs
<1>4. j < i
  <2>1. CASE table.list[i] = End
    BY <1>2, <2>1
  <2>2. CASE table.list[i] # End
    <3>1. opt.active /\ l[i].num \in 4 .. 127 /\ i \in DOMAIN l
      BY <1>2, <2>2 DEF EndOfDrive
    <3>2. l[j].num < 4 /\ l[j].type = "data" /\ l[j] \in EntryType
      BY <1>2, <1>3, <3>1 DEF Fits
    <3>3. l[j].num \in 0 .. 3
      <4>1. l[j].num \in 0 .. 127 \/ l[j] = WholeDrive
        BY <1>1, <1>2, <1>3, <3>2, ListOfRight
      <4>2. l[j] # WholeDrive
        BY <3>2 DEF WholeDrive, Whole
      <4> QED
        BY <3>2, <4>1, <4>2
    <3>4. ~(i < j)
      BY <1>1, <1>2, <3>1, <3>3, ListOfRight
    <3>5. i # j
      BY <3>1, <3>3
    <3> QED
      BY <1>2, <3>4, <3>5
  <2> QED
    BY <2>1, <2>2
<1> QED
  BY <1>1, <1>3, <1>4 DEF FindIInv, ShownOK

LEMMA DriveDoneKeeps == ASSUME FindIInv, DriveDone PROVE FindIInv'
<1>1. /\ pc = "entry" /\ EndOfDrive
      /\ IF got /\ opt.setroot THEN pc' = "found" /\ drive' = drive
         ELSE pc' = "drive" /\ drive' = drive + 1
      /\ UNCHANGED <<medium, hooked, table, current, saved, opt, tmp, i, got, shown, faults, trusted>>
  BY DEF DriveDone, disks
<1>2. FindTypes /\ BufferOK /\ drive =< Len(Order)
  BY <1>1 DEF FindIInv, FindTypes
<1>3. Order' = Order /\ Len(Order) \in Nat /\ drive \in DOMAIN Order /\ drive \in Nat
      /\ \A k \in DOMAIN Order : k \in Nat
  BY <1>1, <1>2, SameWanted, DriveOK, OptionsOK, OrderOK DEF FindTypes
<1>4. drive' \in 1 .. Len(Order) + 1
  BY <1>1, <1>2, <1>3
<1>5. FindTypes'
  BY <1>1, <1>2, <1>3, <1>4 DEF FindTypes
<1>6. BufferOK'
  BY <1>1, <1>2 DEF BufferOK, ListOf, Holds, Disk
<1>7. Trusting' => Trusting
  BY <1>1 DEF Trusting
<1>8. SearchOK'
  BY <1>1, <1>7 DEF FindIInv, SearchOK
<1>9. CASE got /\ opt.setroot
  <2>1. pc' = "found" /\ drive' = drive /\ Drive' = Drive
    BY <1>1, <1>3, <1>9 DEF Drive
  <2>2. ShownOK'
    BY <1>1, <1>3, <1>7, <1>9, <2>1, SameWanted DEF FindIInv, ShownOK, Hit
  <2>3. RootOK'
    <3> SUFFICES ASSUME Trusting', opt'.setroot, NoHybrid' PROVE RootOK'
      BY DEF RootOK
    <3>1. Trusting /\ opt.setroot /\ NoHybrid
      BY <1>1, <1>7, SameWanted
    <3>2. Fits(Drive, WholeDrive) /\ current.part = Whole
      BY <1>1, <1>9, <3>1 DEF FindIInv, RootOK
    <3>3. WholeDrive \in Wanted(Drive)
      <4>1. PICK l : l = ListOf(Disk(Drive))
        OBVIOUS
      <4>2. l \in Seq(EntryType) /\ Len(l) \in Nat /\ l[1] = WholeDrive /\ 1 \in DOMAIN l
        <5>1. Disk(Drive) \in AnyMedium
          BY <1>2, DriveOK
        <5>2. Disk(Drive).entries \in Seq(EntryType)
          BY <5>1, MediumOfDrive
        <5> QED
          BY <4>1, <5>1, <5>2, ListOfMedium
      <4> QED
        BY <3>2, <4>1, <4>2, WantedIs
    <3>4. WholeDrive.num = Whole
      BY DEF WholeDrive
    <3>5. \E e \in Wanted(Drive) : e.num = current.part
      BY <3>2, <3>3, <3>4
    <3>6. \E e \in Wanted(Drive)' : e.num = current'.part
      <4>1. Wanted(Drive)' = Wanted(Drive)
        BY <1>1, <2>1 DEF Wanted, ListOf, Disk
      <4> QED
        BY <1>1, <3>5, <4>1
    <3> QED
      BY <1>1, <1>3, <2>1, <3>1, <3>6, SameWanted DEF FindIInv, RootOK
  <2> QED
    BY <1>5, <1>6, <1>8, <2>2, <2>3 DEF FindIInv
<1>10. CASE ~(got /\ opt.setroot)
  <2>1. pc' = "drive" /\ drive' = drive + 1
    BY <1>1, <1>10
  <2>2. \A k \in DOMAIN Order : k < drive + 1 => k < drive \/ k = drive
    BY <1>3
  <2>3. ASSUME Trusting, opt.command.kind # "no", NEW k \in DOMAIN Order, k < drive + 1,
               NEW e \in Wanted(Order[k])
        PROVE  Hit(Order[k], e) \in shown
    <3>1. CASE k < drive
      BY <2>3, <3>1 DEF FindIInv, ShownOK
    <3>2. CASE k = drive
      BY <1>1, <2>3, <3>2, DriveSearched DEF Drive
    <3> QED
      BY <2>2, <2>3, <3>1, <3>2
  <2>4. ShownOK'
    <3>1. Trusting => /\ \A p \in shown : \E k \in DOMAIN Order :
                            \E e \in Wanted(Order[k]) : p = Hit(Order[k], e)
      BY DEF FindIInv, ShownOK
    <3> QED
      BY <1>1, <1>3, <1>7, <2>1, <2>3, <3>1, SameWanted DEF ShownOK, Hit
  <2>5. RootOK'
    <3> SUFFICES ASSUME Trusting', opt'.setroot, NoHybrid' PROVE RootOK'
      BY DEF RootOK
    <3>1. Trusting /\ opt.setroot /\ NoHybrid /\ ~got
      BY <1>1, <1>7, <1>10, SameWanted
    <3>2. shown = {}
      BY <1>2, <3>1 DEF FindTypes
    <3>3. opt.command.kind # "no" => \A k \in DOMAIN Order : k < drive + 1 => Wanted(Order[k]) = {}
      BY <2>3, <3>1, <3>2
    <3> QED
      BY <1>1, <1>3, <2>1, <3>1, <3>3, SameWanted DEF RootOK
  <2> QED
    BY <1>5, <1>6, <1>8, <2>4, <2>5 DEF FindIInv
<1> QED
  BY <1>9, <1>10

LEMMA AllDrivesKeeps == ASSUME FindIInv, AllDrives PROVE FindIInv'
<1>1. /\ pc = "drive" /\ drive > Len(Order) /\ pc' = "found"
      /\ UNCHANGED <<medium, hooked, table, current, saved, opt, tmp, drive, i, got, shown, faults, trusted>>
  BY DEF AllDrives, loop, disks
<1>2. Order' = Order /\ Drive' = Drive
  BY <1>1 DEF Order, Drive
<1>3. FindTypes'
  BY <1>1, <1>2 DEF FindIInv, FindTypes
<1>4. BufferOK'
  BY <1>1 DEF FindIInv, BufferOK, ListOf, Holds, Disk
<1>5. Trusting' => Trusting
  BY <1>1 DEF Trusting
<1>6. SearchOK'
  BY <1>1, <1>5 DEF FindIInv, SearchOK
<1>7. ShownOK'
  BY <1>1, <1>2, <1>5, SameWanted DEF FindIInv, ShownOK, Hit
<1>8. RootOK'
  BY <1>1, <1>2, <1>5, SameWanted DEF FindIInv, RootOK
<1> QED
  BY <1>3, <1>4, <1>6, <1>7, <1>8 DEF FindIInv

\* After an entry all entries that fit are shown, as before it.
LEMMA NextEntryShown ==
    ASSUME FindIInv, Trusting, pc \in {"entry", "command"}, table.list[i] # End,
           UNCHANGED <<medium, hooked, opt, drive>>, i' = i + 1, pc' = "entry", shown \subseteq shown',
           \A p \in shown' \ shown : \E e \in Wanted(Drive) : p = Hit(Drive, e),
           opt.command.kind # "no" /\ Fits(Drive, table.list[i]) =>
               Hit(Drive, table.list[i]) \in shown'
    PROVE  ShownOK'
<1>1. PICK l : l = ListOf(Disk(Drive))
  OBVIOUS
<1>2. /\ drive \in DOMAIN Order /\ l \in Seq(EntryType) /\ i \in DOMAIN l /\ table.list[i] = l[i]
  BY <1>1, AtEntry
<1>3. /\ \A d : Wanted(d)' = Wanted(d)
      /\ \A d, e : Fits(d, e)' <=> Fits(d, e)
      /\ Order' = Order /\ Drive' = Drive
      /\ ListOf(Disk(Drive))' = l
  <2>1. Order' = Order /\ Drive' = Drive
    BY DEF Order, Drive
  <2> QED
    BY <1>1, <2>1, SameWanted DEF ListOf, Disk
<1>4. ASSUME NEW p \in shown'
      PROVE  \E k \in DOMAIN Order : \E e \in Wanted(Order[k]) : p = Hit(Order[k], e)
  <2>1. CASE p \in shown
    BY <2>1 DEF FindIInv, ShownOK
  <2>2. CASE p \notin shown
    BY <1>2, <2>2 DEF Drive
  <2> QED
    BY <2>1, <2>2
<1>5. ASSUME opt.command.kind # "no", NEW k \in DOMAIN Order, k < drive, NEW e \in Wanted(Order[k])
      PROVE  Hit(Order[k], e) \in shown'
  BY <1>5 DEF FindIInv, ShownOK
<1>6. ASSUME opt.command.kind # "no", NEW j \in DOMAIN l, j < i + 1, Fits(Drive, l[j])
      PROVE  Hit(Drive, l[j]) \in shown'
  <2>1. j < i \/ j = i
    BY <1>2, <1>6
  <2>2. CASE j < i
    BY <1>1, <1>6, <2>2 DEF FindIInv, ShownOK
  <2>3. CASE j = i
    BY <1>2, <1>6, <2>3
  <2> QED
    BY <2>1, <2>2, <2>3
<1> QED
  BY <1>3, <1>4, <1>5, <1>6 DEF ShownOK, Hit

LEMMA SkipEntryKeeps == ASSUME FindIInv, SkipEntry PROVE FindIInv'
<1>1. /\ pc = "entry" /\ pc' = "entry" /\ ~EndOfDrive /\ ~IsSearched /\ i' = i + 1
      /\ UNCHANGED <<medium, hooked, table, current, saved, opt, tmp, drive, got, shown, faults, trusted>>
  BY DEF SkipEntry, disks
<1>2. FindTypes /\ BufferOK /\ table.list[i] # End
  BY <1>1 DEF FindIInv, EndOfDrive
<1>3. Order' = Order /\ Drive' = Drive
  BY <1>1 DEF Order, Drive
<1>4. i' \in DOMAIN table'.list
  <2>1. table' \in Buffer /\ Len(table'.list) >= Len(table.list)
    BY <1>1, <1>2 DEF FindTypes, Buffer
  <2> QED
    BY <1>1, <1>2, <2>1, PlaceStays, PlaceAfter
<1>5. FindTypes'
  BY <1>1, <1>2, <1>3, <1>4 DEF FindTypes
<1>6. BufferOK'
  BY <1>1, <1>2 DEF BufferOK, ListOf, Holds, Disk
<1>7. Trusting' => Trusting
  BY <1>1 DEF Trusting
<1>8. Trusting => i \in Nat /\ i + 1 =< Len(ListOf(Disk(Drive))) + 1
  BY <1>1, <1>2, AtEntry
<1>9. SearchOK'
  BY <1>1, <1>3, <1>7, <1>8 DEF FindIInv, SearchOK, ListOf, Disk
<1>10. ShownOK'
  <2>1. ~Fits(Drive, table.list[i])
    BY <1>1 DEF Fits, IsSearched, Entry
  <2>2. CASE Trusting
    BY <1>1, <1>2, <2>1, <2>2, NextEntryShown
  <2>3. CASE ~Trusting
    BY <1>7, <2>3 DEF ShownOK
  <2> QED
    BY <2>2, <2>3
<1>11. RootOK'
  <2> SUFFICES ASSUME Trusting', opt'.setroot, NoHybrid' PROVE RootOK'
    BY DEF RootOK
  <2>1. Trusting /\ opt.setroot /\ NoHybrid /\ i \in Nat
    BY <1>1, <1>7, <1>8, SameWanted
  <2>2. i > 1 => i + 1 > 1
    BY <2>1
  <2> QED
    BY <1>1, <1>3, <2>1, <2>2, SameWanted DEF FindIInv, RootOK
<1> QED
  BY <1>5, <1>6, <1>9, <1>10, <1>11 DEF FindIInv

\* What TryEntry finds out of an entry is whether it is wanted.
LEMMA EntryTried ==
    ASSUME FindIInv, Trusting, pc = "entry", ~EndOfDrive, IsSearched, table' = table
    PROVE  /\ IsListed
           /\ HasFile <=> Fits(Drive, table.list[i])
<1>1. PICK l : l = ListOf(Disk(Drive))
  OBVIOUS
<1>2. table.list[i] # End
  BY DEF EndOfDrive
<1>3. /\ Disk(Drive) \in AnyMedium /\ table.list \in Seq(EntryType) /\ Holds(table.list, l)
      /\ l \in Seq(EntryType) /\ i \in DOMAIN l /\ table.list[i] = l[i]
  BY <1>1, <1>2, AtEntry
<1>4. IsListed /\ Place = l[i].at
  BY <1>1, <1>3, EntryFound DEF IsListed, Place, Entry
<1>5. current.drive = Drive
  BY DEF FindIInv, SearchOK
<1>6. opt.active => l[i].num < 4
  <2>1. opt.active => l[i].num \notin 4 .. 127 /\ l[i].active /\ l[i].type = "data"
    BY <1>2, <1>3 DEF EndOfDrive, IsSearched, Entry
  <2>2. l[i].active => l[i] # WholeDrive
    BY DEF WholeDrive
  <2>3. opt.active => l[i].num \in 0 .. 127
    BY <1>1, <1>3, <2>1, <2>2, ListOfRight
  <2> QED
    BY <2>1, <2>3
<1>7. l[i].type = "data" /\ (opt.active => l[i].active)
  BY <1>3 DEF IsSearched, Entry
<1> QED
  BY <1>3, <1>4, <1>5, <1>6, <1>7 DEF HasFile, Fits

LEMMA TryEntryKeeps == ASSUME FindIInv, TryEntry PROVE FindIInv'
<1>1. /\ pc = "entry" /\ ~EndOfDrive /\ IsSearched
      /\ current' = [current EXCEPT !.part = IF opt.name => IsListed THEN Entry.num
                                             ELSE LastOf(table'.list).num]
      /\ IF opt.name THEN ListPartitions(current.drive) ELSE UNCHANGED <<table, faults>>
      /\ saved' = IF Opens THEN current' ELSE saved
      /\ IF HasFile THEN pc' = "command" /\ i' = i ELSE pc' = "entry" /\ i' = i + 1
      /\ UNCHANGED <<medium, hooked, opt, tmp, drive, got, shown, trusted>>
  BY DEF TryEntry, disks
<1>2. FindTypes /\ BufferOK /\ table.list[i] # End
  BY <1>1 DEF FindIInv, EndOfDrive
<1>3. Order' = Order /\ Drive' = Drive
  BY <1>1 DEF Order, Drive
<1>4. /\ current' = [drive |-> current'.drive, part |-> current'.part]
      /\ current'.drive = current.drive
      /\ IsListed => current'.part = table.list[i].num
  <2>1. PICK p : p = IF opt.name => IsListed THEN Entry.num ELSE LastOf(table'.list).num
    OBVIOUS
  <2>2. current' = [current EXCEPT !.part = p]
    BY <1>1, <2>1
  <2>3. current = [drive |-> current.drive, part |-> current.part]
    BY <1>2 DEF FindTypes
  <2>4. current' = [drive |-> current.drive, part |-> p]
    BY <2>2, <2>3
  <2>5. IsListed => p = table.list[i].num
    BY <2>1 DEF Entry
  <2> QED
    BY <2>4, <2>5
<1>5. /\ table' \in Buffer /\ table'.list # <<>> /\ table'.list[Len(table'.list)] = End
      /\ Len(table'.list) >= Len(table.list) /\ faults' \in Nat /\ BufferOK'
  <2>1. CASE opt.name
    <3>1. ListPartitions(current.drive) /\ current.drive \in Drives
      BY <1>1, <1>2, <2>1 DEF FindTypes
    <3> QED
      BY <1>1, <1>2, <3>1, Listed
  <2>2. CASE ~opt.name
    <3>1. table' = table /\ faults' = faults
      BY <1>1, <2>2
    <3>2. BufferOK'
      BY <1>1, <1>2, <3>1 DEF BufferOK, ListOf, Holds, Disk
    <3> QED
      BY <1>2, <3>1, <3>2 DEF FindTypes, Buffer
  <2> QED
    BY <2>1, <2>2
<1>6. FindTypes'
  <2>1. i \in DOMAIN table'.list /\ i + 1 \in DOMAIN table'.list
    BY <1>2, <1>5, PlaceStays, PlaceAfter
  <2>2. pc' \in {"entry", "command"} /\ (pc' = "command" => i' + 1 \in DOMAIN table'.list)
        /\ i' \in DOMAIN table'.list
    BY <1>1, <2>1
  <2>3. saved'.drive \in Drives
    BY <1>1, <1>2, <1>4 DEF FindTypes
  <2> QED
    BY <1>1, <1>2, <1>3, <1>4, <1>5, <2>2, <2>3 DEF FindTypes
<1>7. BufferOK'
  BY <1>5
<1>8. Trusting' => Trusting
  BY <1>1 DEF Trusting
<1>9. CASE ~Trusting
  BY <1>6, <1>7, <1>8, <1>9 DEF FindIInv, SearchOK, ShownOK, RootOK
<1>10. CASE Trusting
  <2>0. table' = table /\ faults' = faults
    <3>1. current.drive = Drive /\ table.drive = Drive
      BY <1>1, <1>10 DEF FindIInv, SearchOK
    <3> QED
      BY <1>1, <3>1 DEF ListPartitions
  <2>1. PICK l : l = ListOf(Disk(Drive))
    OBVIOUS
  <2>2. IsListed /\ (HasFile <=> Fits(Drive, table.list[i]))
    BY <1>1, <1>10, <2>0, EntryTried
  <2>3. /\ Disk(Drive) \in AnyMedium /\ l \in Seq(EntryType) /\ i \in Nat /\ i \in DOMAIN l
        /\ i + 1 =< Len(l) + 1 /\ i =< Len(l) + 1
    BY <1>1, <1>2, <1>10, <2>1, AtEntry
  <2>4. ListOf(Disk(Drive))' = l
    BY <1>1, <1>3, <2>1 DEF ListOf, Disk
  <2>5. ~table.spoiled /\ current.drive = Drive /\ table.drive = Drive
    BY <1>1, <1>10 DEF FindIInv, SearchOK
  <2>6. CASE HasFile
    <3>1. pc' = "command" /\ i' = i
      BY <1>1, <2>6
    <3>2. SearchOK'
      BY <1>1, <1>3, <1>4, <2>0, <2>2, <2>3, <2>4, <2>5, <2>6, <3>1, SameWanted DEF SearchOK
    <3>3. ShownOK'
      BY <1>1, <1>3, <1>10, <2>1, <2>4, <3>1, SameWanted DEF FindIInv, ShownOK, Hit
    <3>4. RootOK'
      BY <1>1, <1>3, <1>4, <1>10, <3>1, SameWanted DEF FindIInv, RootOK
    <3> QED
      BY <1>6, <1>7, <3>2, <3>3, <3>4 DEF FindIInv
  <2>7. CASE ~HasFile
    <3>1. pc' = "entry" /\ i' = i + 1
      BY <1>1, <2>7
    <3>2. SearchOK'
      BY <1>1, <1>3, <1>4, <2>0, <2>3, <2>4, <2>5, <3>1 DEF SearchOK
    <3>3. ShownOK'
      BY <1>1, <1>2, <1>10, <2>2, <2>7, <3>1, NextEntryShown
    <3>4. opt.setroot /\ NoHybrid => ~got
      <4> SUFFICES ASSUME opt.setroot, NoHybrid, got PROVE FALSE
        OBVIOUS
      <4>1. i > 1 /\ Fits(Drive, WholeDrive)
        BY <1>1, <1>10 DEF FindIInv, RootOK
      <4>2. opt.name
        BY <2>7 DEF HasFile
      <4>3. 0 \in Disk(Drive).files /\ Drive \in Drives
        BY <1>1, <1>2, <4>1, <4>2, DriveOK DEF Fits, WholeDrive, FindTypes
      <4>4. Disk(Drive).entries = <<>>
        BY <4>3 DEF NoHybrid, IsHybrid
      <4>5. Len(l) = 1
        <5>1. Len(l) = Len(Disk(Drive).entries) + 1
          BY <2>1, <2>3, ListOfMedium
        <5>2. Len(Disk(Drive).entries) = 0
          BY <4>4
        <5> QED
          BY <5>1, <5>2
      <4> QED
        BY <2>3, <4>1, <4>5
    <3>5. RootOK'
      BY <1>1, <1>3, <1>10, <3>1, <3>4, SameWanted DEF FindIInv, RootOK
    <3> QED
      BY <1>6, <1>7, <3>2, <3>3, <3>5 DEF FindIInv
  <2> QED
    BY <2>6, <2>7
<1> QED
  BY <1>9, <1>10

LEMMA RunCommandKeeps == ASSUME FindIInv, RunCommand PROVE FindIInv'
<1>1. /\ pc = "command" /\ opt.command.kind \in {"yes", "no"}
      /\ IF opt.command.kind = "yes" THEN Report(Entry.num) ELSE Reject
      /\ UNCHANGED <<medium, hooked, table, current, saved, opt, tmp, drive, faults, trusted>>
  BY DEF RunCommand, disks
<1>2. FindTypes /\ BufferOK /\ i + 1 \in DOMAIN table.list
  BY <1>1 DEF FindIInv, FindTypes
<1>3. Order' = Order /\ Drive' = Drive
  BY <1>1 DEF Order, Drive
<1>4. /\ pc' \in {"entry", "found"} /\ i' \in {i, i + 1}
      /\ got' <=> shown' # {}
      /\ pc' = "found" => i' = i /\ Stop(Entry.num) /\ opt.command.kind = "yes"
      /\ pc' = "entry" => i' = i + 1
      /\ pc' = "entry" /\ opt.command.kind = "yes" => ~Stop(Entry.num)
  <2>1. CASE opt.command.kind = "yes"
    BY <1>1, <2>1 DEF Report
  <2>2. CASE opt.command.kind # "yes"
    BY <1>1, <1>2, <2>2 DEF Reject, FindTypes
  <2> QED
    BY <2>1, <2>2
<1>5. i' \in DOMAIN table'.list
  <2>1. table' \in Buffer /\ Len(table'.list) >= Len(table.list)
    BY <1>1, <1>2 DEF FindTypes, Buffer
  <2> QED
    BY <1>1, <1>2, <1>4, <2>1, PlaceStays
<1>6. FindTypes'
  BY <1>1, <1>2, <1>3, <1>4, <1>5 DEF FindTypes
<1>7. BufferOK'
  BY <1>1, <1>2 DEF BufferOK, ListOf, Holds, Disk
<1>8. Trusting' => Trusting
  BY <1>1 DEF Trusting
<1>9. CASE ~Trusting
  BY <1>6, <1>7, <1>8, <1>9 DEF FindIInv, SearchOK, ShownOK, RootOK
<1>10. CASE Trusting
  <2>1. PICK l : l = ListOf(Disk(Drive))
    OBVIOUS
  <2>0. table.list[i] # End
    BY <1>1, <1>10 DEF FindIInv, SearchOK, Fits, End
  <2>2. /\ Disk(Drive) \in AnyMedium /\ l \in Seq(EntryType) /\ i \in Nat /\ i \in DOMAIN l
        /\ i + 1 =< Len(l) + 1 /\ table.list[i] = l[i] /\ drive \in DOMAIN Order
    BY <1>1, <1>2, <1>10, <2>0, <2>1, AtEntry
  <2>3. /\ ~table.spoiled /\ current.drive = Drive /\ table.drive = Drive
        /\ Fits(Drive, l[i]) /\ current.part = l[i].num
    BY <1>1, <1>10, <2>2 DEF FindIInv, SearchOK
  <2>4. l[i] \in Wanted(Drive)
    BY <2>1, <2>2, <2>3, WantedIs
  <2>5. ListOf(Disk(Drive))' = l
    BY <1>1, <1>3, <2>1 DEF ListOf, Disk
  <2>6. SearchOK'
    BY <1>1, <1>3, <1>4, <2>2, <2>3, <2>5 DEF SearchOK
  <2>7. /\ shown \subseteq shown'
        /\ \A p \in shown' \ shown : p = Hit(Drive, l[i])
        /\ opt.command.kind # "no" => Hit(Drive, l[i]) \in shown'
    BY <1>1, <2>2 DEF Report, Reject, Hit, Entry
  <2>8. ShownOK'
    <3>1. CASE pc' = "entry"
      BY <1>1, <1>2, <1>4, <1>10, <2>0, <2>2, <2>4, <2>7, <3>1, NextEntryShown
    <3>2. CASE pc' = "found"
      <4>1. opt.setroot
        BY <1>4, <3>2 DEF Stop
      <4>2. ASSUME NEW p \in shown'
            PROVE  \E k \in DOMAIN Order : \E e \in Wanted(Order[k]) : p = Hit(Order[k], e)
        <5>1. CASE p \in shown
          BY <1>10, <5>1 DEF FindIInv, ShownOK
        <5>2. CASE p \notin shown
          BY <2>2, <2>4, <2>7, <5>2 DEF Drive
        <5> QED
          BY <5>1, <5>2
      <4>3. ASSUME opt.command.kind # "no", NEW k \in DOMAIN Order, k < drive,
                   NEW e \in Wanted(Order[k])
            PROVE  Hit(Order[k], e) \in shown'
        BY <1>10, <2>7, <4>3 DEF FindIInv, ShownOK
      <4> QED
        BY <1>1, <1>3, <3>2, <4>1, <4>2, <4>3, SameWanted DEF ShownOK, Hit
    <3> QED
      BY <1>4, <3>1, <3>2
  <2>9. RootOK'
    <3> SUFFICES ASSUME Trusting', opt'.setroot, NoHybrid' PROVE RootOK'
      BY DEF RootOK
    <3>1. opt.setroot /\ NoHybrid
      BY <1>1, SameWanted
    <3>2. got => opt.command.kind = "yes"
      BY <1>10, <3>1 DEF FindIInv, RootOK
    <3>3. got' => opt.command.kind = "yes"
      BY <1>1, <3>2 DEF Reject
    <3>4. drive =< Len(Order)
      BY <1>1, <1>2 DEF FindTypes
    <3>5. opt.command.kind # "no" => \A k \in DOMAIN Order : k < drive => Wanted(Order[k]) = {}
      BY <1>10, <3>1 DEF FindIInv, RootOK
    <3>6. CASE pc' = "entry"
      <4>1. got' => i' > 1 /\ current.part = Whole /\ Fits(Drive, WholeDrive)
        <5> SUFFICES ASSUME got' PROVE i' > 1 /\ current.part = Whole /\ Fits(Drive, WholeDrive)
          OBVIOUS
        <5>1. l[i].num = Whole
          BY <1>4, <2>2, <3>1, <3>3, <3>6 DEF Stop, Entry
        <5>2. i = 1 /\ l[1] = WholeDrive
          BY <2>1, <2>2, <5>1, ListOfRight, ListOfMedium
        <5> QED
          BY <1>4, <2>3, <3>6, <5>1, <5>2
      <4> QED
        BY <1>1, <1>3, <2>3, <3>3, <3>4, <3>5, <3>6, <4>1, SameWanted DEF RootOK
    <3>7. CASE pc' = "found"
      <4>1. \E e \in Wanted(Drive) : e.num = current.part
        BY <2>3, <2>4
      <4>2. Wanted(Drive)' = Wanted(Drive)
        BY <1>1, <1>3 DEF Wanted, ListOf, Disk
      <4>3. \E e \in Wanted(Drive)' : e.num = current'.part
        BY <1>1, <4>1, <4>2
      <4> QED
        BY <1>1, <1>3, <2>3, <3>3, <3>4, <3>5, <3>7, <4>3, SameWanted DEF RootOK
    <3> QED
      BY <1>4, <3>6, <3>7
  <2> QED
    BY <1>6, <1>7, <2>6, <2>8, <2>9 DEF FindIInv
<1> QED
  BY <1>9, <1>10

LEMMA RunRootKeeps == ASSUME FindIInv, RunRoot PROVE FindIInv'
<1>1. /\ pc = "command" /\ opt.command.kind = "root"
      /\ SetRoot(opt.command.drive, opt.command.num)
      /\ IF saved' = current' THEN Report(table'.list[i].num) ELSE Reject
      /\ trusted' = FALSE
      /\ UNCHANGED <<medium, hooked, opt, tmp, drive>>
  BY DEF RunRoot, disks
<1>2. FindTypes /\ BufferOK /\ i + 1 \in DOMAIN table.list
  BY <1>1 DEF FindIInv, FindTypes
<1>3. opt.command.drive \in Drives
  BY <1>1, <1>2, OptionsOK DEF FindTypes
<1>4. /\ table' \in Buffer /\ table'.list # <<>> /\ table'.list[Len(table'.list)] = End
      /\ Len(table'.list) >= Len(table.list) /\ faults' \in Nat /\ BufferOK'
      /\ current' = [drive |-> current'.drive, part |-> current'.part]
      /\ current'.drive \in Drives /\ saved'.drive \in Drives
  BY <1>1, <1>2, <1>3, SetRootOK
<1>5. pc' \in {"entry", "found"} /\ i' \in {i, i + 1} /\ (got' <=> shown' # {})
  <2>1. CASE saved' = current'
    BY <1>1, <2>1 DEF Report
  <2>2. CASE saved' # current'
    BY <1>1, <1>2, <2>2 DEF Reject, FindTypes
  <2> QED
    BY <2>1, <2>2
<1>6. i' \in DOMAIN table'.list
  BY <1>2, <1>4, <1>5, PlaceStays
<1>7. FindTypes'
  BY <1>1, <1>2, <1>4, <1>5, <1>6 DEF FindTypes, Order
<1>8. SearchOK' /\ ShownOK' /\ RootOK'
  BY <1>1 DEF SearchOK, ShownOK, RootOK, Trusting
<1> QED
  BY <1>4, <1>7, <1>8 DEF FindIInv

LEMMA RunHookKeeps == ASSUME FindIInv, RunHook PROVE FindIInv'
<1>1. /\ pc = "command" /\ trusted' = FALSE
      /\ UNCHANGED <<medium, current, saved, opt, tmp, drive, faults>>
  BY DEF RunHook
<1>2. FindTypes /\ BufferOK /\ i + 1 \in DOMAIN table.list
  BY <1>1 DEF FindIInv, FindTypes
<1>3. /\ hooked' \in [Drives -> Drives] /\ table' \in Buffer /\ table'.list = table.list /\ BufferOK'
      /\ pc' \in {"entry", "found"} /\ i' \in {i, i + 1} /\ (got' <=> shown' # {})
  <2>1. \/ (\E map \in DriveMaps : Hook(map)) /\ Report(Entry.num)
        \/ HookNothing /\ Reject
    BY DEF RunHook
  <2>2. CASE (\E map \in DriveMaps : Hook(map)) /\ Report(Entry.num)
    <3>1. PICK map \in DriveMaps : Hook(map)
      BY <2>2
    <3>2. map \in [Drives -> Drives]
      BY WeeFindAssumption
    <3>3. hooked' = map /\ table' \in Buffer /\ table'.list = table.list /\ BufferOK'
      BY <1>1, <1>2, <3>1, <3>2, HookOK
    <3> QED
      BY <2>2, <3>2, <3>3 DEF Report
  <2>3. CASE HookNothing /\ Reject
    <3>1. hooked' \in [Drives -> Drives] /\ table' \in Buffer /\ table'.list = table.list /\ BufferOK'
      BY <1>1, <1>2, <2>3, HookNothingOK
    <3> QED
      BY <1>2, <2>3, <3>1 DEF Reject, FindTypes
  <2> QED
    BY <2>1, <2>2, <2>3
<1>4. i' \in DOMAIN table'.list
  <2>1. Len(table'.list) >= Len(table.list)
    BY <1>2, <1>3 DEF FindTypes, Buffer
  <2> QED
    BY <1>2, <1>3, <2>1, PlaceStays
<1>5. FindTypes'
  BY <1>1, <1>2, <1>3, <1>4 DEF FindTypes, Order
<1>6. SearchOK' /\ ShownOK' /\ RootOK'
  BY <1>1 DEF SearchOK, ShownOK, RootOK, Trusting
<1> QED
  BY <1>3, <1>5, <1>6 DEF FindIInv

LEMMA FinishKeeps == ASSUME FindIInv, Finish PROVE FindIInv'
<1>1. /\ pc = "found" /\ pc' = "idle"
      /\ saved' = IF got /\ opt.setroot THEN current ELSE tmp
      /\ opt' = NoOptions /\ tmp' = saved' /\ drive' = 1 /\ i' = 1
      /\ got' = FALSE /\ shown' = {} /\ trusted' = TRUE
      /\ UNCHANGED <<medium, hooked, table, current, faults>>
  BY DEF Finish, Leave, disks
<1>2. FindTypes'
  <2>1. drive' \in 1 .. Len(Order') + 1
    <3>1. Hard \in Seq(Drives) /\ Floppy \in Seq(Drives) /\ Hard \o Floppy \in Seq(Drives)
      BY WeeFindAssumption
    <3>2. Len(Order') \in Nat
      BY <3>1 DEF Order
    <3> QED
      BY <1>1, <3>2
  <2>2. i' \in DOMAIN table'.list
    BY <1>1 DEF FindIInv, FindTypes, Buffer
  <2> QED
    BY <1>1, <2>1, <2>2 DEF FindIInv, FindTypes
<1>3. BufferOK'
  BY <1>1 DEF FindIInv, BufferOK, ListOf, Holds, Disk
<1>4. SearchOK' /\ ShownOK' /\ RootOK'
  BY <1>1 DEF SearchOK, ShownOK, RootOK, Trusting
<1> QED
  BY <1>2, <1>3, <1>4 DEF FindIInv

\* A step in which nothing changes.
LEMMA StutterKeeps == ASSUME FindIInv, UNCHANGED vars PROVE FindIInv'
<1>1. UNCHANGED <<medium, hooked, table, current, saved, opt, tmp, drive, i, got, shown, pc, faults, trusted>>
  BY DEF vars, disks
<1>2. Order' = Order /\ Drive' = Drive
  BY <1>1 DEF Order, Drive
<1>3. FindTypes'
  BY <1>1, <1>2 DEF FindIInv, FindTypes
<1>4. BufferOK'
  BY <1>1 DEF FindIInv, BufferOK, ListOf, Holds, Disk
<1>5. SearchOK'
  BY <1>1, <1>2, SameWanted DEF FindIInv, SearchOK, Trusting, ListOf, Disk
<1>6. ShownOK'
  <2>1. ListOf(Disk(Drive))' = ListOf(Disk(Drive))
    BY <1>1, <1>2 DEF ListOf, Disk
  <2> QED
    BY <1>1, <1>2, <2>1, SameWanted DEF FindIInv, ShownOK, Hit, Trusting
<1>7. RootOK'
  <2>1. Wanted(Drive)' = Wanted(Drive)
    BY <1>1, <1>2 DEF Wanted, ListOf, Disk
  <2> QED
    BY <1>1, <1>2, <2>1, SameWanted DEF FindIInv, RootOK, Trusting
<1> QED
  BY <1>3, <1>4, <1>5, <1>6, <1>7 DEF FindIInv

LEMMA FindNextKeeps ==
    ASSUME FindIInv, [Next]_vars
    PROVE  FindIInv'
<1>1. ASSUME FindStep PROVE FindIInv'
  BY <1>1, OpenDriveKeeps, DriveDoneKeeps, AllDrivesKeeps, SkipEntryKeeps, TryEntryKeeps,
     RunCommandKeeps, RunRootKeeps, RunHookKeeps, FinishKeeps DEF FindStep
<1>2. ASSUME NEW o \in Options, StartFind(o) PROVE FindIInv'
  BY <1>2, StartFindKeeps
<1>3. ASSUME NEW d \in Drives, NEW num \in RootParts, Root(d, num) PROVE FindIInv'
  BY <1>3, RootKeeps
<1>4. ASSUME NEW map \in DriveMaps \cup {NoMap}, Map(map) PROVE FindIInv'
  BY <1>4, MapKeeps
<1>7. ASSUME MapFails PROVE FindIInv'
  BY <1>7, MapFailsKeeps
<1>5. ASSUME NEW d \in Removable, ChangeMedium(d) PROVE FindIInv'
  <2>1. d \in Drives
    BY WeeFindAssumption
  <2> QED
    BY <1>5, <2>1, ChangeMediumKeeps
<1>6. ASSUME UNCHANGED vars PROVE FindIInv'
  BY <1>6, StutterKeeps
<1> QED
  BY <1>1, <1>2, <1>3, <1>4, <1>5, <1>6, <1>7 DEF Next

-----------------------------------------------------------------------------
(***************************************************************************)
(* What find promises.                                                     *)
(***************************************************************************)

LEMMA FindTypeOK == ASSUME FindIInv PROVE TypeOK
BY DEF FindIInv, FindTypes, Buffer, TypeOK

\* The numbers find prints.
LEMMA WantedNumbers ==
    ASSUME NEW d \in Drives, Disk(d) \in AnyMedium, NEW e \in Wanted(d)
    PROVE  e.num \in 0 .. Whole
<1>1. PICK l : l = ListOf(Disk(d))
  OBVIOUS
<1>2. PICK k \in DOMAIN l : e = l[k] /\ Fits(d, e)
  BY <1>1, WantedIs
<1>3. e.num \in 0 .. 127 \/ e = WholeDrive
  BY <1>1, <1>2, ListOfRight DEF Fits
<1> QED
  BY <1>3 DEF WholeDrive, Whole

LEMMA FindsAllHolds == ASSUME FindIInv PROVE FindsAll
<1> SUFFICES ASSUME trusted, pc = "found", ~opt.setroot, opt.command.kind # "no"
             PROVE  shown = {[drive |-> d, num |-> n] : d \in Searched, n \in 0 .. Whole} \intersect
                            UNION {{[drive |-> d, num |-> e.num] : e \in Wanted(d)} : d \in Searched}
  BY DEF FindsAll, SearchEnds
<1>1. /\ Trusting /\ drive > Len(Order) /\ drive \in Nat /\ Order \in Seq(Drives)
      /\ \A k \in DOMAIN Order : Order[k] \in Drives
      /\ \A d \in Drives : Disk(d) \in AnyMedium
  <2>1. opt.floppies \in BOOLEAN
    BY OptionsOK DEF FindIInv, FindTypes
  <2>2. Order \in Seq(Drives) /\ Len(Order) \in Nat /\ \A k \in DOMAIN Order : Order[k] \in Drives
    BY <2>1, OrderOK
  <2>3. Trusting
    BY DEF Trusting
  <2>4. \A d \in Drives : Disk(d) \in AnyMedium
    BY DEF FindIInv, FindTypes, Disk
  <2> QED
    BY <2>2, <2>3, <2>4 DEF FindIInv, FindTypes, ShownOK
<1>2. ASSUME NEW p \in shown
      PROVE  \E d \in Searched : \E e \in Wanted(d) : p = [drive |-> d, num |-> e.num]
  BY <1>1 DEF FindIInv, ShownOK, Hit, Searched
<1>3. ASSUME NEW d \in Searched, NEW e \in Wanted(d)
      PROVE  [drive |-> d, num |-> e.num] \in shown /\ e.num \in 0 .. Whole
  <2>1. PICK k \in DOMAIN Order : d = Order[k]
    BY DEF Searched
  <2>2. k < drive
    BY <1>1
  <2>3. Hit(d, e) \in shown
    BY <1>1, <2>1, <2>2 DEF FindIInv, ShownOK
  <2>4. e.num \in 0 .. Whole
    BY <1>1, <2>1, WantedNumbers
  <2> QED
    BY <2>3, <2>4 DEF Hit
<1> QED
  BY <1>2, <1>3

LEMMA RootHasFileHolds == ASSUME FindIInv PROVE RootHasFile
<1> SUFFICES ASSUME trusted, NoHybrid, pc = "found", opt.setroot, got
             PROVE  /\ \E e \in Wanted(current.drive) : e.num = current.part
                    /\ \A k \in DOMAIN Order : Wanted(Order[k]) # {} =>
                          \E j \in 1 .. k : Order[j] = current.drive
  BY DEF RootHasFile, SearchEnds, NoHybrid
<1>1. Trusting
  BY DEF Trusting
<1>2. /\ drive =< Len(Order) /\ current.drive = Drive
      /\ \A k \in DOMAIN Order : k < drive => Wanted(Order[k]) = {}
      /\ \E e \in Wanted(Drive) : e.num = current.part
  BY <1>1 DEF FindIInv, RootOK
<1>3. ASSUME NEW k \in DOMAIN Order, Wanted(Order[k]) # {}
      PROVE  \E j \in 1 .. k : Order[j] = current.drive
  <2>1. drive \in DOMAIN Order
    BY <1>2, DriveOK DEF FindIInv
  <2>2. opt.floppies \in BOOLEAN
    BY OptionsOK DEF FindIInv, FindTypes
  <2>3. Order \in Seq(Drives)
    BY <2>2, OrderOK
  <2>4. drive \in 1 .. k
    BY <1>2, <1>3, <2>1, <2>3
  <2> QED
    BY <1>2, <2>4 DEF Drive
<1> QED
  BY <1>2, <1>3

\* Find prints the partitions that have the file, all of them and no others, and the
\* root it sets has the file and is on the first drive that has it, whatever was
\* mapped, searched or made root before, as long as the list it begins with is not one
\* that a failed map or, in the 127-sector build, any map left behind (find_func and
\* list_partitions in grubutils/wee/builtins.c and asm.S).
THEOREM FindAlways == Spec => []FindInv
<1>1. Init => FindIInv
  BY FindStarts
<1>2. FindIInv /\ [Next]_vars => FindIInv'
  BY FindNextKeeps
<1>3. FindIInv => FindInv
  BY FindTypeOK, FindsAllHolds, RootHasFileHolds DEF FindInv
<1> QED
  BY <1>1, <1>2, <1>3, PTL DEF Spec

\* A find that finds nothing, or does not set the root, puts back the root it found,
\* in every build (the end of find_func in grubutils/wee/builtins.c).
THEOREM RootAlwaysRestored == Spec => RootRestored
<1>1. [Next]_vars => [pc = "found" /\ ~(got /\ opt.setroot) => saved' = tmp]_vars
  <2> SUFFICES ASSUME Next, pc = "found", ~(got /\ opt.setroot) PROVE saved' = tmp
    OBVIOUS
  <2>1. Finish
    BY DEF Next, FindStep, OpenDrive, DriveDone, AllDrives, SkipEntry, TryEntry, RunCommand,
           RunRoot, RunHook, StartFind, Root, Map, MapFails, ChangeMedium
  <2> QED
    BY <2>1 DEF Finish
<1> QED
  BY <1>1, PTL DEF Spec, RootRestored

\* A set of naturals that is not empty has a least one.
LEMMA LeastNumber ==
    ASSUME NEW N, N \subseteq Nat, N # {}
    PROVE  \E n \in N : \A m \in N : n =< m
<1>. DEFINE R == OpToRel(<, Nat)
<1>1. \E n \in N : \A m \in N : <<m, n>> \notin R
  <2>1. IsWellFoundedOn(R, Nat)
    BY NatLessThanWellFounded
  <2>. HIDE DEF R
  <2> QED
    BY <2>1, WFMin
<1>2. \A m, n \in Nat : m < n => <<m, n>> \in R
  <2>1. R = {p \in Nat \X Nat : p[1] < p[2]}
    BY DEF OpToRel
  <2>. HIDE DEF R
  <2> QED
    BY <2>1
<1>. HIDE DEF R
<1>3. PICK n \in N : \A m \in N : <<m, n>> \notin R
  BY <1>1
<1>4. \A m \in N : n =< m
  <2>1. ASSUME NEW m \in N, m < n PROVE FALSE
    BY <1>2, <1>3, <2>1
  <2> QED
    BY <2>1
<1> QED
  BY <1>4

-----------------------------------------------------------------------------
(***************************************************************************)
(* The tables of a disk.                                                   *)
(***************************************************************************)

\* An entry of a table.
LEMMA EntryTyped ==
    ASSUME NEW e \in Entries
    PROVE  /\ e.at \in Nat /\ e.len \in Nat
           /\ e.type \in {"none", "data", "ext", "foreign", "gpt"}
           /\ e = Free <=> e.type = "none"
  BY DEF Entries, Free

\* What the disks are assumed to be.
LEMMA DiskFacts ==
    ASSUME disk \in Disks
    PROVE  /\ DOMAIN disk \subseteq Nat /\ IsFiniteSet(DOMAIN disk) /\ 0 \in DOMAIN disk
           /\ disk[0] \in [Slots -> Entries]
           /\ IsMbrDisk(disk) \/ IsGptDisk(disk)
           /\ \A j, k \in ExtSlots(disk[0]) : j = k
           /\ ExtSlots(disk[0]) # {} =>
                 IsMbrDisk(disk) /\ \A s \in DOMAIN disk \ {0} : IsChainTable(disk[s])
  BY DisksAssumption DEF IsMbrDisk, IsGptDisk

\* The types xd_enum knows: it finds the extended partition or takes it for another
\* one, and in the tables of the chain it sees the same links.
LEMMA KnownTypes ==
    ASSUME disk \in Disks
    PROVE  /\ IsForeign => XdSlots(disk[0]) = {}
           /\ ~IsForeign => XdSlots(disk[0]) = ExtSlots(disk[0])
           /\ ~IsForeign => FirstXd(disk[0]) = FirstExt(disk[0])
           /\ \A t : IsChainTable(t) => \A k \in Slots : XdExt(t[k]) <=> IsExt(t[k])
<1>1. ASSUME IsForeign PROVE XdSlots(disk[0]) = {}
  <2>1. PICK k \in Slots : disk[0][k].type = "foreign"
    BY <1>1 DEF IsForeign
  <2>2. k \in ExtSlots(disk[0])
    BY <2>1 DEF ExtSlots, IsExt
  <2>3. \A j \in ExtSlots(disk[0]) : j = k
    BY <2>2, DiskFacts
  <2>4. \A j \in Slots : ~XdExt(disk[0][j])
    BY <2>1, <2>3 DEF ExtSlots, IsExt, XdExt
  <2> QED
    BY <2>4 DEF XdSlots
<1>2. ASSUME ~IsForeign PROVE XdSlots(disk[0]) = ExtSlots(disk[0])
  BY <1>2 DEF IsForeign, XdSlots, XdExt, ExtSlots, IsExt
<1>3. ASSUME ~IsForeign PROVE FirstXd(disk[0]) = FirstExt(disk[0])
  BY <1>2, <1>3 DEF FirstXd, FirstExt
<1>4. \A t : IsChainTable(t) => \A k \in Slots : XdExt(t[k]) <=> IsExt(t[k])
  BY DEF IsChainTable, XdExt, IsExt
<1> QED
  BY <1>1, <1>2, <1>3, <1>4

\* The first extended entry of a table is one of its extended entries.
LEMMA FirstExtIs ==
    ASSUME NEW t, ExtSlots(t) # {}
    PROVE  FirstExt(t) \in ExtSlots(t) /\ \A j \in ExtSlots(t) : FirstExt(t) =< j
<1>1. ExtSlots(t) \subseteq Nat
  BY DEF ExtSlots, Slots
<1>2. PICK k \in ExtSlots(t) : \A j \in ExtSlots(t) : k =< j
  BY <1>1, LeastNumber
<1> QED
  BY <1>2, Zenon DEF FirstExt

\* The links of a table of the chain.
LEMMA ChainTableFacts ==
    ASSUME NEW t, IsChainTable(t)
    PROVE  /\ t \in [Slots -> Entries]
           /\ \A k \in Slots : t[k].at \in Nat /\ t[k].len \in Nat
           /\ t[0].type \in {"none", "data", "ext"}
           /\ t[0].type = "none" <=> t[0] = Free
           /\ ExtSlots(t) = {} <=> ~IsExt(t[0]) /\ ~IsExt(t[1])
           /\ IsExt(t[0]) => ExtSlots(t) = {0} /\ FirstExt(t) = 0 /\ t[1] = Free
           /\ IsExt(t[1]) => ExtSlots(t) = {1} /\ FirstExt(t) = 1
           /\ ~IsExt(t[1]) => t[1] = Free
           /\ t[2] = Free /\ t[3] = Free
<1>1. /\ t \in [Slots -> Entries] /\ t[0].type # "gpt"
      /\ t[1] = Free \/ (IsExt(t[1]) /\ ~IsExt(t[0]))
      /\ t[2] = Free /\ t[3] = Free
      /\ \A k \in Slots : t[k].type # "foreign"
  BY DEF IsChainTable
<1>2. Slots = {0, 1, 2, 3}
  BY DEF Slots
<1>3. \A k \in Slots : t[k] \in Entries
  BY <1>1
<1>4. \A k \in Slots : t[k].at \in Nat /\ t[k].len \in Nat
  BY <1>3, EntryTyped
<1>5. t[0].type \in {"none", "data", "ext"} /\ (t[0].type = "none" <=> t[0] = Free)
  BY <1>1, <1>2, <1>3, EntryTyped
<1>6. ~IsExt(t[2]) /\ ~IsExt(t[3]) /\ ~IsExt(Free)
  BY <1>1 DEF IsExt, Free
<1>7. ExtSlots(t) = {} <=> ~IsExt(t[0]) /\ ~IsExt(t[1])
  BY <1>2, <1>6 DEF ExtSlots
<1>8. IsExt(t[0]) => ExtSlots(t) = {0} /\ t[1] = Free
  BY <1>1, <1>2, <1>6 DEF ExtSlots
<1>9. IsExt(t[1]) => ExtSlots(t) = {1}
  BY <1>1, <1>2, <1>6 DEF ExtSlots
<1>10. /\ ExtSlots(t) = {0} => FirstExt(t) = 0
       /\ ExtSlots(t) = {1} => FirstExt(t) = 1
  BY FirstExtIs
<1> QED
  BY <1>1, <1>4, <1>5, <1>7, <1>8, <1>9, <1>10

\* The next table of the chain.
LEMMA NextTyped ==
    ASSUME disk \in Disks, ExtSlots(disk[0]) # {}, NEW first \in Nat, NEW s \in Nat
    PROVE  /\ NextTable(first, s) \in Seq(Nat)
           /\ NextTable(first, s) = <<>> \/ \E n \in Nat : NextTable(first, s) = <<n>> /\ n >= first
<1>1. CASE ~(s \in DOMAIN disk /\ ExtSlots(disk[s]) # {})
  <2>1. NextTable(first, s) = <<>>
    BY <1>1 DEF NextTable
  <2> QED
    BY <2>1
<1>2. CASE s \in DOMAIN disk /\ ExtSlots(disk[s]) # {}
  <2>1. disk[s] \in [Slots -> Entries]
    BY <1>2, DiskFacts DEF IsChainTable
  <2>2. FirstExt(disk[s]) \in Slots
    BY <1>2, FirstExtIs DEF ExtSlots
  <2>3. disk[s][FirstExt(disk[s])].at \in Nat
    BY <2>1, <2>2, EntryTyped
  <2>4. PICK n : n = first + disk[s][FirstExt(disk[s])].at
    OBVIOUS
  <2>5. n \in Nat /\ n >= first
    BY <2>3, <2>4
  <2>6. NextTable(first, s) = <<n>>
    BY <1>2, <2>4 DEF NextTable
  <2> QED
    BY <2>5, <2>6
<1> QED
  BY <1>1, <1>2

-----------------------------------------------------------------------------
(***************************************************************************)
(* The path along the chain.                                               *)
(***************************************************************************)

\* c[k] are the first k sectors of the chain.
IsChain(c, first, n) ==
    c = [k \in 1 .. n |-> IF k = 1 THEN <<first>>
                          ELSE c[k - 1] \o NextTable(first, Last(c[k - 1]))]

\* There are such sequences: the definition goes down to the first.
LEMMA ChainExists ==
    ASSUME disk \in Disks, ExtSlots(disk[0]) # {}, NEW first \in Nat, NEW n \in Nat \ {0}
    PROVE  \E c \in [1 .. n -> Seq(Nat) \ {<<>>}] : IsChain(c, first, n)
<1>. DEFINE P(k) == \E c \in [1 .. k -> Seq(Nat) \ {<<>>}] : IsChain(c, first, k)
            Bad == {k \in Nat \ {0} : ~P(k)}
<1>1. SUFFICES ASSUME Bad # {} PROVE FALSE
  OBVIOUS
<1>2. PICK m \in Bad : \A k \in Bad : m =< k
  <2>1. Bad \subseteq Nat
    OBVIOUS
  <2>. HIDE DEF Bad
  <2> QED
    BY <1>1, <2>1, LeastNumber
<1>3. m \in Nat \ {0} /\ ~P(m)
  BY <1>2
<1>4. CASE m = 1
  <2>1. PICK c : c = [k \in 1 .. 1 |-> <<first>>]
    OBVIOUS
  <2>2. c \in [1 .. 1 -> Seq(Nat) \ {<<>>}]
    BY <2>1
  <2>3. IsChain(c, first, 1)
    BY <2>1 DEF IsChain
  <2> QED
    BY <1>3, <1>4, <2>2, <2>3
<1>5. CASE m # 1
  <2>1. m - 1 \in Nat \ {0} /\ m - 1 < m
    BY <1>3, <1>5
  <2>2. P(m - 1)
    <3>1. ~(m =< m - 1)
      BY <1>3
    <3>2. m - 1 \notin Bad
      <4>. HIDE DEF Bad
      <4> QED
        BY <1>2, <3>1
    <3>. HIDE DEF P
    <3> QED
      BY <2>1, <3>2
  <2>3. PICK c \in [1 .. m - 1 -> Seq(Nat) \ {<<>>}] : IsChain(c, first, m - 1)
    BY <2>2
  <2>4. PICK x : x = c[m - 1] \o NextTable(first, Last(c[m - 1]))
    OBVIOUS
  <2>5. x \in Seq(Nat) \ {<<>>}
    <3>1. m - 1 \in 1 .. m - 1
      BY <2>1
    <3>2. c[m - 1] \in Seq(Nat) /\ c[m - 1] # <<>>
      BY <2>3, <3>1
    <3>3. PICK q : q = c[m - 1]
      OBVIOUS
    <3>4. q \in Seq(Nat) /\ Len(q) \in Nat \ {0}
      BY <3>2, <3>3, EmptySeq
    <3>5. Last(q) \in Nat
      BY <3>4 DEF Last
    <3>6. NextTable(first, Last(q)) \in Seq(Nat)
      BY <3>5, NextTyped
    <3>7. PICK r : r = NextTable(first, Last(q))
      OBVIOUS
    <3>8. r \in Seq(Nat) /\ x = q \o r
      BY <2>4, <3>3, <3>6, <3>7
    <3>9. x \in Seq(Nat) /\ Len(x) = Len(q) + Len(r) /\ Len(r) \in Nat
      BY <3>4, <3>8
    <3>10. Len(x) # 0
      BY <3>4, <3>9
    <3> QED
      BY <3>9, <3>10
  <2>6. PICK d : d = [k \in 1 .. m |-> IF k = m THEN x ELSE c[k]]
    OBVIOUS
  <2>7. d \in [1 .. m -> Seq(Nat) \ {<<>>}]
    BY <2>1, <2>3, <2>5, <2>6
  <2>8. ASSUME NEW k \in 1 .. m
        PROVE  d[k] = IF k = 1 THEN <<first>>
                      ELSE d[k - 1] \o NextTable(first, Last(d[k - 1]))
    <3>1. CASE k = m
      <4>1. d[m] = x /\ d[m - 1] = c[m - 1]
        BY <2>1, <2>6
      <4> QED
        BY <1>5, <2>4, <3>1, <4>1
    <3>2. CASE k # m
      <4>1. k \in 1 .. m - 1
        BY <2>1, <3>2
      <4>2. d[k] = c[k]
        BY <2>6, <3>2
      <4>3. k # 1 => d[k - 1] = c[k - 1]
        BY <2>1, <2>6, <4>1
      <4>4. c[k] = IF k = 1 THEN <<first>>
                   ELSE c[k - 1] \o NextTable(first, Last(c[k - 1]))
        BY <2>3, <4>1, Zenon DEF IsChain
      <4> QED
        BY <4>2, <4>3, <4>4
    <3> QED
      BY <3>1, <3>2
  <2>9. IsChain(d, first, m)
    <3>1. d = [k \in 1 .. m |-> d[k]]
      BY <2>6
    <3> QED
      BY <2>8, <3>1, Zenon DEF IsChain
  <2> QED
    BY <1>3, <2>7, <2>9
<1> QED
  BY <1>4, <1>5

\* What a path is, as far as k sectors go.
IsPath(p, first, k) ==
    /\ p \in Seq(Nat) /\ Len(p) \in 1 .. k
    /\ p[1] = first
    /\ \A h \in 1 .. Len(p) - 1 : NextTable(first, p[h]) = <<p[h + 1]>>
    /\ Len(p) = k \/ NextTable(first, p[Len(p)]) = <<>>

\* A path that goes on, or stays as it is when it has ended.
LEMMA PathGoesOn ==
    ASSUME disk \in Disks, ExtSlots(disk[0]) # {}, NEW first \in Nat, NEW k \in Nat \ {0},
           NEW p, IsPath(p, first, k)
    PROVE  IsPath(p \o NextTable(first, Last(p)), first, k + 1)
<1>1. PICK m : m = Len(p)
  OBVIOUS
<1>2. /\ p \in Seq(Nat) /\ m \in 1 .. k /\ p[1] = first /\ p[m] \in Nat
      /\ \A h \in 1 .. m - 1 : NextTable(first, p[h]) = <<p[h + 1]>>
      /\ m = k \/ NextTable(first, p[m]) = <<>>
  <2>1. /\ p \in Seq(Nat) /\ m \in 1 .. k /\ p[1] = first
        /\ \A h \in 1 .. m - 1 : NextTable(first, p[h]) = <<p[h + 1]>>
        /\ m = k \/ NextTable(first, p[m]) = <<>>
    BY <1>1 DEF IsPath
  <2>2. p[m] \in Nat
    BY <1>1, <2>1, ElementOfSeq
  <2> QED
    BY <2>1, <2>2
<1>3. Last(p) = p[m]
  BY <1>1 DEF Last
<1>4. CASE NextTable(first, p[m]) = <<>>
  <2>1. p \o NextTable(first, Last(p)) = p
    BY <1>2, <1>3, <1>4, ConcatEmptySeq
  <2>2. m \in 1 .. k + 1
    BY <1>2
  <2>3. IsPath(p, first, k + 1)
    BY <1>1, <1>2, <1>4, <2>2 DEF IsPath
  <2> QED
    BY <2>1, <2>3
<1>5. CASE NextTable(first, p[m]) # <<>>
  <2>1. PICK n \in Nat : NextTable(first, p[m]) = <<n>>
    BY <1>2, <1>5, NextTyped
  <2>2. PICK q : q = Append(p, n)
    OBVIOUS
  <2>3. p \o NextTable(first, Last(p)) = q
    BY <1>2, <1>3, <2>1, <2>2, AppendIsConcat
  <2>4. /\ q \in Seq(Nat) /\ Len(q) = m + 1 /\ q[m + 1] = n
        /\ \A h \in 1 .. m : q[h] = p[h]
    BY <1>1, <1>2, <2>2, AppendProperties
  <2>5. m = k
    BY <1>2, <1>5
  <2>6. ASSUME NEW h \in 1 .. m PROVE NextTable(first, q[h]) = <<q[h + 1]>>
    <3>1. CASE h = m
      BY <2>1, <2>4, <3>1
    <3>2. CASE h # m
      <4>1. h \in 1 .. m - 1 /\ h + 1 \in 1 .. m
        BY <1>2, <3>2
      <4> QED
        BY <1>2, <2>4, <4>1
    <3> QED
      BY <3>1, <3>2
  <2>7. q[1] = first
    BY <1>2, <2>4
  <2>8. (m + 1) - 1 = m /\ m + 1 \in 1 .. k + 1 /\ m + 1 = k + 1
    BY <1>2, <2>5
  <2>9. IsPath(q, first, k + 1)
    BY <2>4, <2>6, <2>7, <2>8 DEF IsPath
  <2> QED
    BY <2>3, <2>9
<1> QED
  BY <1>4, <1>5

LEMMA ChainIsPath ==
    ASSUME disk \in Disks, ExtSlots(disk[0]) # {}, NEW first \in Nat, NEW n \in Nat \ {0}
    PROVE  IsPath(Chain(first, n), first, n)
<1>1. PICK d \in [1 .. n -> Seq(Nat) \ {<<>>}] : IsChain(d, first, n)
  BY ChainExists
<1>2. PICK c : c = CHOOSE x : IsChain(x, first, n)
  OBVIOUS
<1>3. IsChain(c, first, n)
  BY <1>1, <1>2, Zenon
<1>4. Chain(first, n) = c[n]
  BY <1>2, Zenon DEF Chain, IsChain
<1>5. \A k \in 1 .. n : c[k] = IF k = 1 THEN <<first>>
                               ELSE c[k - 1] \o NextTable(first, Last(c[k - 1]))
  BY <1>3, Zenon DEF IsChain
<1>. DEFINE Bad == {k \in 1 .. n : ~IsPath(c[k], first, k)}
<1>6. ASSUME Bad # {} PROVE FALSE
  <2>1. PICK m \in Bad : \A k \in Bad : m =< k
    <3>1. Bad \subseteq Nat
      OBVIOUS
    <3>. HIDE DEF Bad
    <3> QED
      BY <1>6, <3>1, LeastNumber
  <2>2. m \in 1 .. n /\ ~IsPath(c[m], first, m)
    BY <2>1
  <2>3. CASE m = 1
    <3>1. c[1] = <<first>>
      BY <1>5, <2>2, <2>3
    <3>2. PICK p : p = <<first>>
      OBVIOUS
    <3>3. p \in Seq(Nat) /\ Len(p) = 1 /\ p[1] = first
      BY <3>2
    <3>4. IsPath(p, first, 1)
      BY <3>3 DEF IsPath
    <3> QED
      BY <2>2, <2>3, <3>1, <3>2, <3>4
  <2>4. CASE m # 1
    <3>1. m - 1 \in 1 .. n /\ m - 1 < m /\ m - 1 \in Nat \ {0} /\ (m - 1) + 1 = m
      BY <2>2, <2>4
    <3>2. IsPath(c[m - 1], first, m - 1)
      BY <2>1, <3>1
    <3>3. IsPath(c[m - 1] \o NextTable(first, Last(c[m - 1])), first, (m - 1) + 1)
      BY <3>1, <3>2, PathGoesOn
    <3>4. c[m] = c[m - 1] \o NextTable(first, Last(c[m - 1]))
      BY <1>5, <2>2, <2>4
    <3> QED
      BY <2>2, <3>1, <3>3, <3>4
  <2> QED
    BY <2>3, <2>4
<1>7. n \in 1 .. n
  OBVIOUS
<1> QED
  BY <1>4, <1>6, <1>7

\* No number is in two places.
Injective(p) == \A h, j \in 1 .. Len(p) : p[h] = p[j] => h = j

\* The path from the extended partition, on a disk that has one.
LEMMA PathShape ==
    ASSUME disk \in Disks, ExtSlots(disk[0]) # {}
    PROVE  /\ Cardinality(DOMAIN disk) \in Nat \ {0} /\ ExtStart \in Nat
           /\ IsPath(Path, ExtStart, Cardinality(DOMAIN disk))
<1>1. Cardinality(DOMAIN disk) \in Nat \ {0}
  <2>1. IsFiniteSet(DOMAIN disk) /\ 0 \in DOMAIN disk
    BY DiskFacts
  <2>2. Cardinality(DOMAIN disk) \in Nat
    BY <2>1, FS_CardinalityType
  <2>3. Cardinality(DOMAIN disk) # 0
    BY <2>1, FS_EmptySet
  <2> QED
    BY <2>2, <2>3
<1>2. ExtStart \in Nat
  <2>1. FirstExt(disk[0]) \in Slots
    BY FirstExtIs DEF ExtSlots
  <2>2. disk[0][FirstExt(disk[0])] \in Entries
    BY <2>1, DiskFacts
  <2> QED
    BY <2>2, EntryTyped DEF ExtStart
<1>3. Path = Chain(ExtStart, Cardinality(DOMAIN disk))
  BY DEF Path
<1> QED
  BY <1>1, <1>2, <1>3, ChainIsPath, Zenon

\* Without an extended partition there is no path.
LEMMA PathNone ==
    ASSUME ExtSlots(disk[0]) = {}
    PROVE  Path = <<>> /\ DOMAIN Path = {} /\ LogicalAt = {}
<1>1. Path = <<>>
  BY DEF Path
<1>2. DOMAIN Path = {}
  BY <1>1
<1> QED
  BY <1>1, <1>2 DEF LogicalAt

\* What the path has of IsPath, and that a place before its end has a table.
LEMMA PathFacts ==
    ASSUME disk \in Disks, ExtSlots(disk[0]) # {}
    PROVE  /\ ExtStart \in Nat
           /\ Len(Path) \in 1 .. Cardinality(DOMAIN disk)
           /\ DOMAIN Path = 1 .. Len(Path)
           /\ Path[1] = ExtStart
           /\ \A h \in 1 .. Len(Path) : Path[h] \in Nat /\ Path[h] >= ExtStart
           /\ \A h \in 1 .. Len(Path) - 1 :
                 /\ NextTable(ExtStart, Path[h]) = <<Path[h + 1]>>
                 /\ Path[h] \in DOMAIN disk
<1>1. /\ Cardinality(DOMAIN disk) \in Nat \ {0} /\ ExtStart \in Nat
      /\ IsPath(Path, ExtStart, Cardinality(DOMAIN disk))
  BY PathShape
<1>2. PICK n : n = Len(Path)
  OBVIOUS
<1>3. /\ Path \in Seq(Nat) /\ n \in 1 .. Cardinality(DOMAIN disk) /\ Path[1] = ExtStart
      /\ \A h \in 1 .. n - 1 : NextTable(ExtStart, Path[h]) = <<Path[h + 1]>>
  BY <1>1, <1>2 DEF IsPath
<1>4. n \in Nat \ {0}
  BY <1>1, <1>3
<1>5. DOMAIN Path = 1 .. n /\ \A h \in 1 .. n : Path[h] \in Nat
  <2>1. DOMAIN Path = 1 .. n
    BY <1>2, <1>3
  <2>2. \A h \in 1 .. n : Path[h] \in Nat
    BY <1>2, <1>3, ElementOfSeq
  <2> QED
    BY <2>1, <2>2
<1>6. \A h \in 1 .. n - 1 : Path[h] \in DOMAIN disk
  <2>1. TAKE h \in 1 .. n - 1
  <2>2. NextTable(ExtStart, Path[h]) # <<>>
    <3>1. PICK x : x = Path[h + 1]
      OBVIOUS
    <3>2. NextTable(ExtStart, Path[h]) = <<x>>
      BY <1>3, <3>1
    <3>3. <<x>> # <<>>
      OBVIOUS
    <3> QED
      BY <3>2, <3>3
  <2> QED
    BY <2>2 DEF NextTable
<1>7. ASSUME NEW h \in 1 .. n PROVE Path[h] >= ExtStart
  <2>1. CASE h = 1
    BY <1>1, <1>3, <2>1
  <2>2. CASE h # 1
    <3>1. h - 1 \in 1 .. n - 1 /\ h - 1 \in 1 .. n /\ (h - 1) + 1 = h
      BY <1>4, <2>2
    <3>2. NextTable(ExtStart, Path[h - 1]) = <<Path[h]>>
      BY <1>3, <3>1
    <3>3. PICK a : a = Path[h - 1]
      OBVIOUS
    <3>4. a \in Nat
      BY <1>5, <3>1, <3>3
    <3>5. NextTable(ExtStart, a) = <<>> \/ \E x \in Nat : NextTable(ExtStart, a) = <<x>> /\ x >= ExtStart
      BY <1>1, <3>4, NextTyped
    <3>6. PICK b : b = Path[h]
      OBVIOUS
    <3>7. NextTable(ExtStart, a) = <<b>>
      BY <3>2, <3>3, <3>6
    <3>8. <<b>> # <<>>
      OBVIOUS
    <3>9. PICK x \in Nat : <<b>> = <<x>> /\ x >= ExtStart
      BY <3>5, <3>7, <3>8
    <3>10. b = x
      BY <3>9
    <3> QED
      BY <3>6, <3>9, <3>10
  <2> QED
    BY <2>1, <2>2
<1> QED
  BY <1>1, <1>2, <1>3, <1>5, <1>6, <1>7

-----------------------------------------------------------------------------
(***************************************************************************)
(* The invariant of xd_enum.                                               *)
(***************************************************************************)

\* The logical partitions of the first h tables of the chain.
LogicalOf(j) == [num |-> 3 + UpTo(LogicalAt, j), start |-> Path[j] + disk[Path[j]][0].at]
LogicalsTo(h) == {LogicalOf(j) : j \in {x \in LogicalAt : x =< h}}

\* The primary partitions up to slot n.
PrimariesTo(n) == {p \in Primaries : p.num =< n}

\* The first h tables are behind the call: their partitions are returned, or none
\* of them is the one looked for.
Passed(h) ==
    IF xe.nxt = All THEN found = Primaries \union LogicalsTo(h)
    ELSE xe.nxt >= 4 /\ \A j \in LogicalAt : j =< h => xe.nxt # 3 + UpTo(LogicalAt, j)

\* The outer loop comes from the h-th table with number c.
FromTable(h, c, k) ==
    /\ h \in DOMAIN Path /\ Path[h] \in DOMAIN disk
    /\ ebuf = disk[Path[h]] /\ ~IsExt(ebuf[0]) /\ xe.ebs = ExtStart
    /\ k <=> h \in LogicalAt
    /\ c = IF k THEN 3 + UpTo(LogicalAt, h) ELSE 4 + UpTo(LogicalAt, h)
    /\ Passed(h)

\* Where the outer loop can be: at the start, among the primary partitions, in the chain.
AtStart(c, k) == c = All /\ k /\ (xe.nxt = All => found = {})
AtPrimary(c, k) ==
    /\ c \in Slots /\ k /\ xe.nxt = All /\ Sound(disk[0])
    /\ ebuf = disk[0] /\ found = PrimariesTo(c)
AtTable(c, k) ==
    /\ c \in 4 .. All - 1 /\ Sound(disk[0]) /\ ExtSlots(disk[0]) # {} /\ ~IsForeign
    /\ \E h \in DOMAIN Path : FromTable(h, c, k)
Resumes(c, k) == AtStart(c, k) \/ AtPrimary(c, k) \/ AtTable(c, k)

\* The inner loop is at the h-th table.
InChain(h) ==
    /\ xe.bse = Path[h] /\ xe.ebs = ExtStart
    /\ cc = 4 + UpTo(LogicalAt, h - 1) /\ Passed(h - 1)

EnumTypes ==
    /\ xe \in [cur : Numbers \union {All}, nxt : 0 .. All, bse : Nat, ebs : Nat]
    /\ epc \in {"idle", "top", "chain"}
    /\ cc \in 0 .. All /\ kk \in BOOLEAN
    /\ jumped.num \in 0 .. All /\ jumped.result \in {"none", "found", "missing"}

EnumGoal == IF Sound(disk[0]) THEN Reachable ELSE {}

EnumIInv ==
    /\ disk \in Disks /\ EnumTypes
    /\ xe.nxt = All => jumped.result = "none"
    /\ (xe.cur = All /\ xe.nxt = All /\ epc = "idle") \/ ~IsCyclic
    /\ xe.nxt # All => found = EnumGoal
    /\ epc = "idle" /\ xe.nxt = All => Resumes(xe.cur, TRUE)
    /\ epc = "top" => Resumes(cc, kk)
    /\ epc = "chain" =>
          /\ Sound(disk[0]) /\ ExtSlots(disk[0]) # {} /\ ~IsForeign
          /\ \E h \in DOMAIN Path : InChain(h)
    /\ JumpMatches

-----------------------------------------------------------------------------
(***************************************************************************)
(* The invariant of list_partitions.                                       *)
(***************************************************************************)

\* The entries and the counter.
ListEntry == [lo : 0 .. 255, hi : 0 .. 255, type : {"data", "ext", "foreign", "gpt"},
              start : Nat, len : Int, base : Nat]

ListTypes ==
    /\ list \in Seq(ListEntry) /\ at \in DOMAIN list /\ list[1] = DriveEntry
    /\ partnum \in [lo : 0 .. 255, hi : Nat] /\ partnum.hi < Len(list)
    /\ slot \in Nat /\ lpc \in {"read", "copy", "gpt", "next", "done"}
    /\ Len(list) =< Capacity /\ (lpc \in {"read", "copy", "next"} => Len(list) < Capacity)

\* Numbers are given in order.
Before(m, n) == m.lo < n.lo \/ (m.lo = n.lo /\ m.hi < n.hi)

Ordered ==
    /\ Len(list) = 1 => partnum = [lo |-> 255, hi |-> 0]
    /\ Len(list) > 1 => partnum.lo \in 0 .. MaxNum
    /\ \A k \in 2 .. Len(list) :
          /\ list[k].lo \in 0 .. MaxNum /\ ~Before(partnum, list[k])
          /\ \A j \in 2 .. k - 1 : Before(list[j], list[k])

OnMbr ==
    /\ lpc # "gpt"
    /\ at = 1 \/ IsExt(list[at])
    /\ \A k \in 2 .. Len(list) : IsExt(list[k]) => Where(list[k]) > 0
    /\ lpc = "copy" => Sector \in DOMAIN disk /\ IsValid(ListTable) /\ slot \in Slots

OnGpt ==
    /\ lpc \in {"read", "gpt", "done"} /\ at = 1 /\ (lpc = "read" => slot = 0)
    /\ Len(list) = slot + 1 /\ partnum.hi = 0
    /\ partnum.lo = IF slot = 0 THEN 255 ELSE slot - 1

\* The numbers of both programs are the same.
Aligned == disk[0][0] # Free /\ (Path # <<>> /\ Path[1] \in DOMAIN disk => 1 \in LogicalAt)
Given(n) == IF Aligned THEN n ELSE 0

\* What there is to say of a partition: its rank, its number and its place.
RowOf(k) == <<UpTo(InList, k), Given(list[k].lo), Where(list[k])>>
Rows == {RowOf(k) : k \in InList}
PrimaryRow(k) == <<UpTo(PrimaryAt, k), Given(k), disk[0][k].at>>
PrimaryRows(s) == {PrimaryRow(k) : k \in {j \in PrimaryAt : j < s}}
LogicalRow(j) == <<Cardinality(PrimaryAt) + UpTo(LogicalAt, j), Given(3 + UpTo(LogicalAt, j)),
                   Path[j] + disk[Path[j]][0].at>>
LogicalRows(h) == {LogicalRow(j) : j \in {x \in LogicalAt : x =< h}}

\* The entries of the table that are copied, and the table whose partition was last.
Copied == IF lpc = "copy" THEN slot ELSE IF lpc = "read" THEN 0 ELSE 4
LastTable(h, s) == IF s = 0 THEN h - 1 ELSE h

\* An entry leads to the table behind the h-th.
Leads(k, h) ==
    /\ h + 1 \in DOMAIN Path /\ Where(list[k]) = Path[h + 1]
    /\ list[k].base = IF h = 0 THEN 0 ELSE ExtStart

\* The links in the first s entries of a table, and the extended entries that are not
\* expanded when these links are copied and lead to the table behind the h-th.
SeenLinks(t, s) == {k \in Slots : k < s /\ IsExt(t[k])}
Ahead(links, h) ==
    IF links = {} THEN Unexpanded = {} ELSE \E k \in Unexpanded : Unexpanded = {k} /\ Leads(k, h)

\* s entries of the first table are copied.
InFirst(s) ==
    /\ at = 1 /\ (s = 0 => Len(list) = 1)
    /\ Rows = PrimaryRows(s) /\ Cardinality(InList) = UpTo(PrimaryAt, s - 1)
    /\ Aligned /\ s > 0 => partnum.lo = s - 1
    /\ Ahead(SeenLinks(disk[0], s), 0)

\* s entries of the h-th table of the chain are copied.
InTable(h, s) ==
    /\ at > 1 /\ Leads(at, h - 1) /\ (s > 0 => Path[h] \in DOMAIN disk)
    /\ Rows = PrimaryRows(4) \union LogicalRows(LastTable(h, s))
    /\ Cardinality(InList) = Cardinality(PrimaryAt) + UpTo(LogicalAt, LastTable(h, s))
    /\ Aligned => partnum.lo = 3 + UpTo(LogicalAt, LastTable(h, s))
    /\ Ahead(SeenLinks(ListTable, s), h)

Walked ==
    IF lpc = "done" THEN Found => Rows = PrimaryRows(4) \union LogicalRows(Len(Path))
    ELSE InFirst(Copied) \/ \E h \in DOMAIN Path : InTable(h, Copied)

ListIInv ==
    /\ disk \in Disks /\ ListTypes /\ Ordered
    /\ IF IsGpt(disk[0]) THEN OnGpt ELSE OnMbr /\ (IsOrderly => Walked)

\* The chain ends, on a disk on which it does not come back.
LEMMA PathApart ==
    ASSUME disk \in Disks, ExtSlots(disk[0]) # {}, ~IsCyclic, ExtStart # 0
    PROVE  /\ \A h \in 1 .. Len(Path) : Path[h] > 0
           /\ Injective(Path)
           /\ NextTable(ExtStart, Path[Len(Path)]) = <<>>
<1>1. PICK n : n = Len(Path)
  OBVIOUS
<1>2. PICK c : c = Cardinality(DOMAIN disk)
  OBVIOUS
<1>3. /\ n \in 1 .. c /\ ExtStart \in Nat /\ Path[1] = ExtStart
      /\ \A h \in 1 .. n : Path[h] \in Nat /\ Path[h] >= ExtStart
      /\ \A h \in 1 .. n - 1 : NextTable(ExtStart, Path[h]) = <<Path[h + 1]>>
      /\ \A h \in 1 .. n - 1 : Path[h] \in DOMAIN disk
  BY <1>1, <1>2, PathFacts
<1>4. c \in Nat \ {0}
  BY <1>2, PathShape
<1>5. n \in Nat \ {0}
  BY <1>3, <1>4
<1>6. \A h \in 1 .. n : Path[h] > 0
  BY <1>3
<1>7. ASSUME NEW h \in 1 .. n, NEW j \in 1 .. n, h < j, Path[h] = Path[j] PROVE FALSE
  <2>. DEFINE tables == {Path[x] : x \in 1 .. j - 1}
  <2>1. \A x \in 1 .. j - 1 : x \in 1 .. n - 1
    BY <1>5
  <2>2. tables \in SUBSET (DOMAIN disk \ {0})
    <3>1. \A x \in 1 .. j - 1 : Path[x] \in DOMAIN disk /\ Path[x] # 0
      <4>1. TAKE x \in 1 .. j - 1
      <4>2. x \in 1 .. n - 1 /\ x \in 1 .. n
        BY <1>5
      <4>3. Path[x] > 0 /\ Path[x] \in Nat
        BY <1>3, <1>6, <4>2
      <4> QED
        BY <1>3, <4>2, <4>3
    <3> QED
      BY <3>1
  <2>3. ExtStart \in tables
    <3>1. 1 \in 1 .. j - 1
      BY <1>7, <1>5
    <3> QED
      BY <1>3, <3>1
  <2>4. \A x \in 1 .. j - 1 : Path[x + 1] \in tables
    <3>1. TAKE x \in 1 .. j - 1
    <3>2. CASE x + 1 = j
      <4>1. h \in 1 .. j - 1
        BY <1>7
      <4> QED
        BY <1>7, <3>2, <4>1
    <3>3. CASE x + 1 # j
      <4>1. x + 1 \in 1 .. j - 1
        BY <1>5, <3>3
      <4> QED
        BY <4>1
    <3> QED
      BY <3>2, <3>3
  <2>5. \A s \in tables : ToSet(NextTable(ExtStart, s)) \cap tables # {}
    <3>1. TAKE s \in tables
    <3>2. PICK x \in 1 .. j - 1 : s = Path[x]
      OBVIOUS
    <3>3. PICK v : v = Path[x + 1]
      OBVIOUS
    <3>4. NextTable(ExtStart, s) = <<v>>
      BY <1>3, <2>1, <3>2, <3>3
    <3>5. v \in ToSet(<<v>>)
      BY DEF ToSet
    <3>6. v \in tables
      BY <2>4, <3>3
    <3> QED
      BY <3>4, <3>5, <3>6
  <2>. HIDE DEF tables
  <2>6. IsCyclic
    BY <2>2, <2>3, <2>5 DEF IsCyclic
  <2> QED
    BY <2>6
<1>8. Injective(Path)
  <2>1. SUFFICES ASSUME NEW h \in 1 .. n, NEW j \in 1 .. n, Path[h] = Path[j], h # j PROVE FALSE
    BY <1>1 DEF Injective
  <2>2. h < j \/ j < h
    BY <2>1
  <2> QED
    BY <1>7, <2>1, <2>2
<1>9. ASSUME NextTable(ExtStart, Path[n]) # <<>> PROVE FALSE
  <2>1. n = c
    <3>1. IsPath(Path, ExtStart, c)
      BY <1>2, PathShape
    <3> QED
      BY <1>1, <1>9, <3>1 DEF IsPath
  <2>2. Path[n] \in DOMAIN disk
    BY <1>9 DEF NextTable
  <2>3. \A h \in 1 .. n : Path[h] \in DOMAIN disk \ {0}
    <3>1. TAKE h \in 1 .. n
    <3>2. h = n \/ h \in 1 .. n - 1
      BY <1>5
    <3>3. Path[h] \in DOMAIN disk
      BY <1>3, <2>2, <3>2
    <3>4. Path[h] # 0
      BY <1>3, <1>6
    <3> QED
      BY <3>3, <3>4
  <2>4. PICK f : f = [h \in 1 .. n |-> Path[h]]
    OBVIOUS
  <2>5. f \in [1 .. n -> DOMAIN disk \ {0}]
    BY <2>3, <2>4
  <2>6. IsFiniteSet(DOMAIN disk) /\ 0 \in DOMAIN disk
    BY DiskFacts
  <2>7. IsFiniteSet(DOMAIN disk \ {0}) /\ Cardinality(DOMAIN disk \ {0}) = c - 1
    BY <1>2, <2>6, FS_RemoveElement
  <2>8. IsFiniteSet(1 .. n) /\ Cardinality(1 .. n) = n
    <3>1. 1 \in Int /\ n \in Int /\ ~(1 > n) /\ (n - 1) + 1 = n
      BY <1>5
    <3> QED
      BY <3>1, FS_Interval
  <2>9. Cardinality(DOMAIN disk \ {0}) < Cardinality(1 .. n)
    BY <1>4, <2>1, <2>7, <2>8
  <2>10. \E x, y \in 1 .. n : x # y /\ f[x] = f[y]
    <3>1. PICK D : D = DOMAIN disk \ {0}
      OBVIOUS
    <3>2. PICK N : N = 1 .. n
      OBVIOUS
    <3>3. f \in [N -> D] /\ IsFiniteSet(D) /\ IsFiniteSet(N) /\ Cardinality(D) < Cardinality(N)
      BY <2>5, <2>7, <2>8, <2>9, <3>1, <3>2
    <3>4. \E x, y \in N : x # y /\ f[x] = f[y]
      BY <3>3, FS_PigeonHole, Zenon
    <3> QED
      BY <3>2, <3>4
  <2> QED
    BY <1>1, <1>8, <2>4, <2>10 DEF Injective
<1> QED
  BY <1>1, <1>6, <1>8, <1>9

-----------------------------------------------------------------------------
(***************************************************************************)
(* Counting.                                                               *)
(***************************************************************************)

LEMMA UpToTyped ==
    ASSUME NEW S, IsFiniteSet(S), NEW k
    PROVE  UpTo(S, k) \in Nat /\ UpTo(S, k) =< Cardinality(S) /\ Cardinality(S) \in Nat
<1>1. PICK T : T = {j \in S : j =< k}
  OBVIOUS
<1>2. T \in SUBSET S /\ UpTo(S, k) = Cardinality(T)
  BY <1>1 DEF UpTo
<1>3. IsFiniteSet(T) /\ Cardinality(T) =< Cardinality(S)
  BY <1>2, FS_Subset
<1> QED
  BY <1>2, <1>3, FS_CardinalityType

\* One more number.
LEMMA UpToStep ==
    ASSUME NEW S, IsFiniteSet(S), S \subseteq Int, NEW k \in Int
    PROVE  UpTo(S, k) = IF k \in S THEN UpTo(S, k - 1) + 1 ELSE UpTo(S, k - 1)
<1>1. PICK T : T = {j \in S : j =< k - 1}
  OBVIOUS
<1>2. IsFiniteSet(T) /\ UpTo(S, k - 1) = Cardinality(T)
  <2>1. T \in SUBSET S
    BY <1>1
  <2> QED
    BY <1>1, <2>1, FS_Subset DEF UpTo
<1>3. k \notin T
  BY <1>1
<1>4. CASE k \in S
  <2>1. {j \in S : j =< k} = T \cup {k}
    <3>1. \A x \in S : x \in Int
      OBVIOUS
    <3>2. \A x \in S : x =< k <=> x =< k - 1 \/ x = k
      BY <3>1
    <3> QED
      BY <1>1, <1>4, <3>2
  <2>2. Cardinality(T \cup {k}) = Cardinality(T) + 1
    BY <1>2, <1>3, FS_AddElement
  <2> QED
    BY <1>2, <1>4, <2>1, <2>2 DEF UpTo
<1>5. CASE k \notin S
  <2>1. {j \in S : j =< k} = T
    <3>1. \A x \in S : x \in Int
      OBVIOUS
    <3>2. \A x \in S : x =< k <=> x =< k - 1
      BY <1>5, <3>1
    <3> QED
      BY <1>1, <3>2
  <2> QED
    BY <1>2, <1>5, <2>1 DEF UpTo
<1> QED
  BY <1>4, <1>5

\* Members are counted in their order.
LEMMA UpToOrder ==
    ASSUME NEW S, IsFiniteSet(S), S \subseteq Int, NEW j \in Int, NEW k \in S, j < k
    PROVE  UpTo(S, j) < UpTo(S, k)
<1>1. PICK T : T = {x \in S : x =< j}
  OBVIOUS
<1>2. PICK U : U = {x \in S : x =< k}
  OBVIOUS
<1>3. T \in SUBSET U /\ k \in U /\ k \notin T /\ U \in SUBSET S
  <2>1. \A x \in S : x \in Int
    OBVIOUS
  <2>2. \A x \in S : x =< j => x =< k
    BY <2>1
  <2>3. k \in U /\ k \notin T
    BY <1>1, <1>2, <2>1
  <2> QED
    BY <1>1, <1>2, <2>2, <2>3
<1>4. IsFiniteSet(U)
  BY <1>3, FS_Subset
<1>5. IsFiniteSet(T) /\ Cardinality(T) =< Cardinality(U) /\ (Cardinality(U) = Cardinality(T) => U = T)
  BY <1>3, <1>4, FS_Subset
<1>6. Cardinality(T) \in Nat /\ Cardinality(U) \in Nat
  BY <1>4, <1>5, FS_CardinalityType
<1>7. Cardinality(T) < Cardinality(U)
  BY <1>3, <1>5, <1>6
<1> QED
  BY <1>1, <1>2, <1>7 DEF UpTo

LEMMA UpToInjective ==
    ASSUME NEW S, IsFiniteSet(S), S \subseteq Int, NEW j \in S, NEW k \in S, UpTo(S, j) = UpTo(S, k)
    PROVE  j = k
<1>1. UpTo(S, j) \in Nat
  BY UpToTyped
<1>2. j \in Int /\ k \in Int
  OBVIOUS
<1>3. ASSUME j < k PROVE FALSE
  <2>1. UpTo(S, j) < UpTo(S, k)
    BY <1>2, <1>3, UpToOrder
  <2> QED
    BY <1>1, <2>1
<1>4. ASSUME k < j PROVE FALSE
  <2>1. UpTo(S, k) < UpTo(S, j)
    BY <1>2, <1>4, UpToOrder
  <2> QED
    BY <1>1, <2>1
<1> QED
  BY <1>2, <1>3, <1>4

\* Below the first and behind the last.
LEMMA UpToEnds ==
    ASSUME NEW S, IsFiniteSet(S), S \subseteq Int, NEW k \in Int
    PROVE  /\ (\A j \in S : j > k) => UpTo(S, k) = 0
           /\ (\A j \in S : j =< k) => UpTo(S, k) = Cardinality(S)
           /\ k \in S => UpTo(S, k) > 0
<1>1. ASSUME \A j \in S : j > k PROVE UpTo(S, k) = 0
  <2>1. {j \in S : j =< k} = {}
    <3>1. \A x \in S : x \in Int
      OBVIOUS
    <3>2. \A x \in S : ~(x =< k)
      BY <1>1, <3>1
    <3> QED
      BY <3>2
  <2> QED
    BY <2>1, FS_EmptySet DEF UpTo
<1>2. ASSUME \A j \in S : j =< k PROVE UpTo(S, k) = Cardinality(S)
  <2>1. {j \in S : j =< k} = S
    BY <1>2
  <2> QED
    BY <2>1 DEF UpTo
<1>3. ASSUME k \in S PROVE UpTo(S, k) > 0
  <2>1. UpTo(S, k) = UpTo(S, k - 1) + 1
    BY <1>3, UpToStep
  <2>2. UpTo(S, k - 1) \in Nat
    BY UpToTyped
  <2> QED
    BY <2>1, <2>2
<1> QED
  BY <1>1, <1>2, <1>3

-----------------------------------------------------------------------------
(***************************************************************************)
(* The logical partitions.                                                 *)
(***************************************************************************)

LEMMA LogicalFacts ==
    ASSUME disk \in Disks
    PROVE  LogicalAt \subseteq Int /\ IsFiniteSet(LogicalAt) /\ LogicalAt \subseteq DOMAIN Path
           /\ \A j \in LogicalAt : j > 0
<1>1. CASE ExtSlots(disk[0]) = {}
  <2>1. LogicalAt = {}
    BY <1>1, PathNone
  <2> QED
    BY <2>1, FS_EmptySet
<1>2. CASE ExtSlots(disk[0]) # {}
  <2>1. PICK n : n = Len(Path)
    OBVIOUS
  <2>2. PICK c : c = Cardinality(DOMAIN disk)
    OBVIOUS
  <2>3. c \in Nat \ {0} /\ n \in 1 .. c /\ DOMAIN Path = 1 .. n
    BY <1>2, <2>1, <2>2, PathFacts, PathShape
  <2>4. LogicalAt \in SUBSET (1 .. n)
    BY <2>3 DEF LogicalAt
  <2>5. IsFiniteSet(1 .. n)
    BY <2>3, FS_Interval
  <2>6. IsFiniteSet(LogicalAt)
    BY <2>4, <2>5, FS_Subset
  <2> QED
    BY <2>3, <2>4, <2>6
<1> QED
  BY <1>1, <1>2

\* Each logical partition has a table of its own, and sector 0 has none.
LEMMA LogicalBound ==
    ASSUME disk \in Disks, ExtSlots(disk[0]) # {}, ~IsCyclic, ExtStart # 0
    PROVE  Cardinality(LogicalAt) =< Cardinality(DOMAIN disk) - 1
<1>1. IsFiniteSet(DOMAIN disk) /\ 0 \in DOMAIN disk
  BY DiskFacts
<1>2. IsFiniteSet(DOMAIN disk \ {0}) /\ Cardinality(DOMAIN disk \ {0}) = Cardinality(DOMAIN disk) - 1
  BY <1>1, FS_RemoveElement
<1>3. PICK f : f = [h \in LogicalAt |-> Path[h]]
  OBVIOUS
<1>4. DOMAIN Path = 1 .. Len(Path)
  BY PathFacts
<1>5. ASSUME NEW h \in LogicalAt PROVE Path[h] \in DOMAIN disk \ {0} /\ h \in 1 .. Len(Path)
  <2>1. h \in DOMAIN Path /\ Path[h] \in DOMAIN disk
    BY DEF LogicalAt
  <2>2. Path[h] > 0 /\ Path[h] \in Nat
    BY <1>4, <2>1, PathApart, PathFacts
  <2> QED
    BY <1>4, <2>1, <2>2
<1>6. Injective(Path)
  BY PathApart
<1>7. f \in [LogicalAt -> DOMAIN disk \ {0}]
  BY <1>3, <1>5
<1>8. \A h, j \in LogicalAt : f[h] = f[j] => h = j
  BY <1>3, <1>5, <1>6 DEF Injective
<1>9. f \in Injection(LogicalAt, DOMAIN disk \ {0})
  BY <1>7, <1>8 DEF Injection, IsInjective
<1> QED
  BY <1>2, <1>9, FS_Injection

-----------------------------------------------------------------------------
(***************************************************************************)
(* What depends on the disk alone stays as it is.                          *)
(***************************************************************************)

LEMMA DiskStays ==
    ASSUME disk' = disk
    PROVE  /\ ExtStart' = ExtStart /\ Path' = Path /\ LogicalAt' = LogicalAt
           /\ (IsCyclic <=> IsCyclic') /\ Numbers' = Numbers
           /\ Primaries' = Primaries /\ Logicals' = Logicals
           /\ Sound(disk[0])' = Sound(disk[0])
           /\ (IsForeign <=> IsForeign') /\ Reachable' = Reachable
<1>0. disk[0]' = disk[0]
  OBVIOUS
<1>1. ExtStart' = ExtStart
  BY DEF ExtStart
<1>2. Path' = Path
  <2>1. \A a, b : NextTable(a, b)' = NextTable(a, b)
    BY DEF NextTable
  <2>2. PICK e : e = ExtStart
    OBVIOUS
  <2>3. PICK n : n = Cardinality(DOMAIN disk)
    OBVIOUS
  <2>4. Chain(e, n)' = Chain(e, n)
    BY <2>1, Zenon DEF Chain
  <2> QED
    BY <1>1, <2>2, <2>3, <2>4 DEF Path, ExtSlots, IsExt
<1>3. LogicalAt' = LogicalAt
  BY <1>2 DEF LogicalAt
<1>4. IsCyclic <=> IsCyclic'
  BY <1>1 DEF IsCyclic, NextTable
<1>5. Numbers' = Numbers
  BY DEF Numbers
<1>6. Primaries' = Primaries
  BY DEF Primaries
<1>7. Logicals' = Logicals
  BY <1>2, <1>3 DEF Logicals
<1>8. Sound(disk[0])' = Sound(disk[0])
  BY DEF Sound, Used
<1>9. IsForeign <=> IsForeign'
  BY DEF IsForeign
<1>10. Reachable' = Reachable
  BY <1>6, <1>7, <1>9 DEF Reachable
<1> QED
  BY <1>1, <1>2, <1>3, <1>4, <1>5, <1>6, <1>7, <1>8, <1>9, <1>10

-----------------------------------------------------------------------------
(***************************************************************************)
(* The tables of the path.                                                 *)
(***************************************************************************)

\* A disk whose chain has an end, and begins behind sector 0.
HasChain == disk \in Disks /\ ExtSlots(disk[0]) # {} /\ ~IsCyclic /\ ExtStart # 0

\* A partition in use is not in sector 0.
LEMMA UsedStart ==
    ASSUME disk \in Disks, ExtSlots(disk[0]) # {}, ~IsCyclic, Sound(disk[0]) \/ IsValid(disk[0])
    PROVE  HasChain
<1>1. PICK k : k = FirstExt(disk[0])
  OBVIOUS
<1>2. k \in Slots /\ disk[0][k].type \in {"ext", "foreign"}
  BY <1>1, FirstExtIs DEF ExtSlots, IsExt
<1>3. disk[0][k].at # 0
  <2>1. CASE Sound(disk[0])
    <3>1. k \in Used(disk[0])
      BY <1>2 DEF Used
    <3> QED
      BY <2>1, <3>1 DEF Sound
  <2>2. CASE IsValid(disk[0])
    <3>1. disk[0][k] # Free
      BY <1>2 DEF Free
    <3> QED
      BY <1>2, <2>2, <3>1 DEF IsValid
  <2> QED
    BY <2>1, <2>2
<1> QED
  BY <1>1, <1>3 DEF HasChain, ExtStart

\* The h-th table, what it has and where it leads.
TableFacts(h, t) ==
    /\ t = disk[Path[h]] /\ IsChainTable(t)
    /\ IsExt(t[0]) \/ IsExt(t[1]) => h + 1 \in DOMAIN Path
    /\ ~IsExt(t[0]) /\ ~IsExt(t[1]) => h = Len(Path)
    /\ IsExt(t[0]) => Path[h + 1] = ExtStart + t[0].at /\ t[0].at # 0
    /\ IsExt(t[1]) => Path[h + 1] = ExtStart + t[1].at /\ t[1].at # 0
    /\ h \in LogicalAt <=> t[0].type = "data"

LEMMA TableAt ==
    ASSUME HasChain, NEW h \in DOMAIN Path, Path[h] \in DOMAIN disk
    PROVE  TableFacts(h, disk[Path[h]])
<1>1. PICK n : n = Len(Path)
  OBVIOUS
<1>2. PICK c : c = Cardinality(DOMAIN disk)
  OBVIOUS
<1>3. /\ ExtStart \in Nat /\ n \in 1 .. c /\ DOMAIN Path = 1 .. n
      /\ \A x \in 1 .. n - 1 : NextTable(ExtStart, Path[x]) = <<Path[x + 1]>>
      /\ Path[1] = ExtStart
  BY <1>1, <1>2, PathFacts DEF HasChain
<1>4. c \in Nat \ {0}
  BY <1>2, PathShape DEF HasChain
<1>5. /\ \A x \in 1 .. n : Path[x] > 0
      /\ Injective(Path)
      /\ NextTable(ExtStart, Path[n]) = <<>>
  BY <1>1, PathApart DEF HasChain
<1>6. PICK t : t = disk[Path[h]]
  OBVIOUS
<1>7. IsChainTable(t)
  <2>1. Path[h] # 0
    BY <1>3, <1>5
  <2> QED
    BY <1>6, <2>1, DiskFacts DEF HasChain
<1>8. NextTable(ExtStart, Path[h]) =
         IF ExtSlots(t) # {} THEN <<ExtStart + t[FirstExt(t)].at>> ELSE <<>>
  BY <1>6 DEF NextTable
<1>9. \A x : <<x>> # <<>>
  OBVIOUS
<1>10. ASSUME ExtSlots(t) # {}
       PROVE  /\ h + 1 \in 1 .. n /\ h \in 1 .. n - 1
              /\ Path[h + 1] = ExtStart + t[FirstExt(t)].at
  <2>1. h # n
    BY <1>5, <1>8, <1>9, <1>10
  <2>2. h \in 1 .. n - 1 /\ h + 1 \in 1 .. n
    BY <1>3, <1>4, <2>1
  <2>3. PICK a : a = Path[h + 1]
    OBVIOUS
  <2>4. PICK b : b = ExtStart + t[FirstExt(t)].at
    OBVIOUS
  <2>5. <<a>> = <<b>>
    BY <1>3, <1>8, <1>10, <2>2, <2>3, <2>4
  <2>6. a = b
    BY <2>5
  <2> QED
    BY <2>2, <2>3, <2>4, <2>6
<1>11. ASSUME ExtSlots(t) # {} PROVE t[FirstExt(t)].at # 0
  <2>1. SUFFICES ASSUME t[FirstExt(t)].at = 0 PROVE FALSE
    OBVIOUS
  <2>2. Path[h + 1] = Path[1]
    BY <1>3, <1>10, <1>11, <2>1
  <2>3. 1 \in 1 .. n /\ h + 1 \in 1 .. n
    BY <1>3, <1>4, <1>10, <1>11
  <2>4. h + 1 = 1
    BY <1>1, <1>5, <2>2, <2>3 DEF Injective
  <2> QED
    BY <1>3, <2>4
<1>12. ASSUME ExtSlots(t) = {} PROVE h = n
  <2>1. SUFFICES ASSUME h # n PROVE FALSE
    OBVIOUS
  <2>2. h \in 1 .. n - 1
    BY <1>3, <1>4, <2>1
  <2>3. NextTable(ExtStart, Path[h]) # <<>>
    BY <1>3, <1>9, <2>2
  <2> QED
    BY <1>8, <1>12, <2>3
<1>13. /\ ExtSlots(t) = {} <=> ~IsExt(t[0]) /\ ~IsExt(t[1])
       /\ IsExt(t[0]) => FirstExt(t) = 0
       /\ IsExt(t[1]) => FirstExt(t) = 1
  BY <1>7, ChainTableFacts
<1>14. h \in LogicalAt <=> t[0].type = "data"
  BY <1>6 DEF LogicalAt
<1>15. IsExt(t[0]) => Path[h + 1] = ExtStart + t[0].at /\ t[0].at # 0 /\ h + 1 \in DOMAIN Path
  BY <1>3, <1>10, <1>11, <1>13
<1>16. IsExt(t[1]) => Path[h + 1] = ExtStart + t[1].at /\ t[1].at # 0 /\ h + 1 \in DOMAIN Path
  BY <1>3, <1>10, <1>11, <1>13
<1> QED
  BY <1>1, <1>6, <1>7, <1>12, <1>13, <1>14, <1>15, <1>16 DEF TableFacts

\* A place without a table is the last.
LEMMA OffTable ==
    ASSUME HasChain, NEW h \in DOMAIN Path, Path[h] \notin DOMAIN disk
    PROVE  h = Len(Path) /\ h \notin LogicalAt
<1>1. PICK n : n = Len(Path)
  OBVIOUS
<1>2. PICK c : c = Cardinality(DOMAIN disk)
  OBVIOUS
<1>3. n \in 1 .. c /\ DOMAIN Path = 1 .. n /\ \A x \in 1 .. n - 1 : Path[x] \in DOMAIN disk
  BY <1>1, <1>2, PathFacts DEF HasChain
<1>4. c \in Nat
  BY <1>2, PathShape DEF HasChain
<1>5. h = n
  BY <1>3, <1>4
<1> QED
  BY <1>1, <1>5 DEF LogicalAt

-----------------------------------------------------------------------------
(***************************************************************************)
(* Numbers of the logical partitions.                                      *)
(***************************************************************************)

\* How many there are in the first h tables.
LEMMA CountTo ==
    ASSUME disk \in Disks, NEW h \in Int
    PROVE  /\ UpTo(LogicalAt, h) \in Nat
           /\ UpTo(LogicalAt, h) = IF h \in LogicalAt THEN UpTo(LogicalAt, h - 1) + 1
                                   ELSE UpTo(LogicalAt, h - 1)
           /\ h \in LogicalAt => UpTo(LogicalAt, h) > 0
           /\ h =< 0 => UpTo(LogicalAt, h) = 0
<1>1. LogicalAt \subseteq Int /\ IsFiniteSet(LogicalAt) /\ \A j \in LogicalAt : j > 0
  BY LogicalFacts
<1>2. h =< 0 => \A j \in LogicalAt : j > h
  BY <1>1
<1> QED
  BY <1>1, <1>2, UpToTyped, UpToStep, UpToEnds

\* A byte is enough for their numbers.
LEMMA CountBound ==
    ASSUME HasChain, NEW h \in Int
    PROVE  /\ UpTo(LogicalAt, h) \in 0 .. Cardinality(DOMAIN disk) - 1
           /\ UpTo(LogicalAt, h) + 4 < All
           /\ 3 + UpTo(LogicalAt, h) \in Numbers
<1>1. UpTo(LogicalAt, h) \in Nat /\ UpTo(LogicalAt, h) =< Cardinality(LogicalAt)
      /\ Cardinality(LogicalAt) \in Nat
  BY LogicalFacts, UpToTyped DEF HasChain
<1>2. Cardinality(LogicalAt) =< Cardinality(DOMAIN disk) - 1
  BY LogicalBound DEF HasChain
<1>3. Cardinality(DOMAIN disk) \in Nat \ {0}
  BY PathShape DEF HasChain
<1>4. Cardinality(DOMAIN disk) + 3 < All /\ All \in Nat
  BY AllAssumption DEF HasChain
<1> QED
  BY <1>1, <1>2, <1>3, <1>4 DEF Numbers

\* One more table.
LEMMA LogicalsStep ==
    ASSUME disk \in Disks, NEW h \in DOMAIN Path
    PROVE  /\ h \in LogicalAt => LogicalsTo(h) = LogicalsTo(h - 1) \union {LogicalOf(h)}
           /\ h \notin LogicalAt => LogicalsTo(h) = LogicalsTo(h - 1)
<1>1. LogicalAt \subseteq Int /\ LogicalAt \subseteq DOMAIN Path
  BY LogicalFacts
<1>2. h \in Int
  <2>1. ExtSlots(disk[0]) # {}
    BY PathNone
  <2> QED
    BY <2>1, PathFacts
<1>3. \A x \in LogicalAt : x \in Int
  BY <1>1
<1>4. \A x \in LogicalAt : x =< h <=> x =< h - 1 \/ x = h
  BY <1>2, <1>3
<1>5. ASSUME h \in LogicalAt PROVE {x \in LogicalAt : x =< h} = {x \in LogicalAt : x =< h - 1} \union {h}
  BY <1>2, <1>4, <1>5
<1>6. ASSUME h \notin LogicalAt PROVE {x \in LogicalAt : x =< h} = {x \in LogicalAt : x =< h - 1}
  BY <1>4, <1>6
<1> QED
  BY <1>5, <1>6, Zenon DEF LogicalsTo

\* None, and all of them.
LEMMA LogicalsEnds ==
    ASSUME disk \in Disks
    PROVE  /\ LogicalsTo(0) = {}
           /\ LogicalsTo(Len(Path)) = Logicals
<1>1. LogicalAt \subseteq Int /\ LogicalAt \subseteq DOMAIN Path /\ \A j \in LogicalAt : j > 0
  BY LogicalFacts
<1>2. LogicalsTo(0) = {}
  <2>1. \A j \in LogicalAt : j \in Int /\ ~(j =< 0)
    BY <1>1
  <2> QED
    BY <2>1 DEF LogicalsTo
<1>3. \A j \in LogicalAt : j =< Len(Path)
  <2>1. CASE ExtSlots(disk[0]) = {}
    BY <2>1, PathNone
  <2>2. CASE ExtSlots(disk[0]) # {}
    <3>1. DOMAIN Path = 1 .. Len(Path) /\ Len(Path) \in Int
      BY <2>2, PathFacts
    <3> QED
      BY <1>1, <3>1
  <2> QED
    BY <2>1, <2>2
<1>4. {x \in LogicalAt : x =< Len(Path)} = LogicalAt
  BY <1>3
<1> QED
  BY <1>2, <1>4 DEF LogicalsTo, LogicalOf, Logicals

\* No number twice.
LEMMA NumbersApart ==
    ASSUME disk \in Disks
    PROVE  /\ \A p \in Primaries : p.num \in Slots
           /\ \A p \in Logicals : p.num \in Int /\ p.num >= 4
           /\ \A p, q \in Numbered : p.num = q.num => p = q
           /\ \A p, q \in Reachable : p.num = q.num => p = q
<1>1. \A p \in Primaries : p.num \in Slots /\ p = [num |-> p.num, start |-> disk[0][p.num].at]
  BY DEF Primaries
<1>2. \A j \in LogicalAt : j \in Int /\ UpTo(LogicalAt, j) \in Nat /\ UpTo(LogicalAt, j) > 0
  BY LogicalFacts, CountTo
<1>3. \A p \in Logicals : \E j \in LogicalAt : p = LogicalOf(j)
  BY DEF Logicals, LogicalOf
<1>4. \A p \in Logicals : p.num \in Int /\ p.num >= 4
  BY <1>2, <1>3 DEF LogicalOf
<1>5. \A p, q \in Primaries : p.num = q.num => p = q
  BY <1>1
<1>6. \A p, q \in Logicals : p.num = q.num => p = q
  <2>1. TAKE p, q \in Logicals
  <2>2. PICK j \in LogicalAt : p = LogicalOf(j)
    BY <1>3
  <2>3. PICK k \in LogicalAt : q = LogicalOf(k)
    BY <1>3
  <2>4. p.num = q.num => UpTo(LogicalAt, j) = UpTo(LogicalAt, k)
    BY <1>2, <2>2, <2>3 DEF LogicalOf
  <2>5. p.num = q.num => j = k
    BY <2>4, LogicalFacts, UpToInjective
  <2> QED
    BY <2>2, <2>3, <2>5
<1>7. \A p \in Primaries, q \in Logicals : p.num # q.num
  BY <1>1, <1>4 DEF Slots
<1>8. \A p, q \in Numbered : p.num = q.num => p = q
  BY <1>5, <1>6, <1>7 DEF Numbered
<1> QED
  BY <1>1, <1>4, <1>8 DEF Reachable, Numbered

-----------------------------------------------------------------------------
(***************************************************************************)
(* The primary partitions.                                                 *)
(***************************************************************************)

\* The next slot in use.
LEMMA NextUsedIs ==
    ASSUME NEW t, NEW c \in Nat, HasUsed(t, c)
    PROVE  /\ NextUsed(t, c) \in Used(t) /\ NextUsed(t, c) \in Slots /\ NextUsed(t, c) >= c
           /\ \A j \in Used(t) : j >= c => NextUsed(t, c) =< j
<1>1. PICK S : S = {k \in Used(t) : k >= c}
  OBVIOUS
<1>2. S \subseteq Nat /\ S # {}
  BY <1>1 DEF HasUsed, Used, Slots
<1>3. PICK n \in S : \A m \in S : n =< m
  BY <1>2, LeastNumber
<1>4. /\ NextUsed(t, c) \in Used(t) /\ NextUsed(t, c) >= c
      /\ \A j \in Used(t) : j >= c => NextUsed(t, c) =< j
  BY <1>1, <1>3, Zenon DEF NextUsed
<1> QED
  BY <1>4 DEF Used

PrimaryIn(k) == [num |-> k, start |-> disk[0][k].at]

LEMMA PrimariesAre ==
    Primaries = {PrimaryIn(k) : k \in Used(disk[0])}
  BY DEF Primaries, Used, PrimaryIn

\* One more of them, the last one, and all at the start.
LEMMA PrimariesStep ==
    ASSUME NEW c \in Nat
    PROVE  /\ \A k \in Used(disk[0]) :
                 k >= c /\ (\A j \in Used(disk[0]) : j >= c => k =< j) =>
                    PrimariesTo(k) = PrimariesTo(c - 1) \union {PrimaryIn(k)}
           /\ ~HasUsed(disk[0], c) => PrimariesTo(c - 1) = Primaries
           /\ PrimariesTo(0 - 1) = {}
<1>1. \A p \in Primaries : p.num \in Used(disk[0]) /\ p = PrimaryIn(p.num) /\ p.num \in Nat
  BY PrimariesAre DEF PrimaryIn, Used, Slots
<1>2. ASSUME NEW k \in Used(disk[0]), k >= c, \A j \in Used(disk[0]) : j >= c => k =< j
      PROVE  PrimariesTo(k) = PrimariesTo(c - 1) \union {PrimaryIn(k)}
  <2>1. k \in Nat /\ PrimaryIn(k) \in Primaries /\ PrimaryIn(k).num = k
    BY PrimariesAre DEF PrimaryIn, Used, Slots
  <2>2. \A p \in Primaries : p.num =< k <=> p.num =< c - 1 \/ p = PrimaryIn(k)
    <3>1. TAKE p \in Primaries
    <3>2. p.num \in Nat /\ p.num \in Used(disk[0]) /\ p = PrimaryIn(p.num)
      BY <1>1
    <3>3. p.num >= c => k =< p.num
      BY <1>2, <3>2
    <3>4. p.num = k => p = PrimaryIn(k)
      BY <3>2
    <3>5. p = PrimaryIn(k) => p.num = k
      BY <2>1
    <3> QED
      BY <1>2, <2>1, <3>2, <3>3, <3>4, <3>5
  <2> QED
    BY <2>1, <2>2 DEF PrimariesTo
<1>3. ASSUME ~HasUsed(disk[0], c) PROVE PrimariesTo(c - 1) = Primaries
  <2>1. \A p \in Primaries : p.num =< c - 1
    BY <1>1, <1>3 DEF HasUsed
  <2> QED
    BY <2>1 DEF PrimariesTo
<1>4. PrimariesTo(0 - 1) = {}
  <2>1. \A p \in Primaries : ~(p.num =< 0 - 1)
    BY <1>1
  <2> QED
    BY <2>1 DEF PrimariesTo
<1> QED
  BY <1>2, <1>3, <1>4

-----------------------------------------------------------------------------
(***************************************************************************)
(* The steps of xd_enum.                                                   *)
(***************************************************************************)

LEMMA PassedStays ==
    ASSUME disk' = disk, found' = found, xe'.nxt = xe.nxt, NEW h
    PROVE  Passed(h)' <=> Passed(h)
<1>1. Path' = Path /\ LogicalAt' = LogicalAt /\ Primaries' = Primaries
  BY DiskStays
<1>2. LogicalsTo(h)' = LogicalsTo(h)
  BY <1>1 DEF LogicalsTo, LogicalOf
<1> QED
  BY <1>1, <1>2 DEF Passed

\* A call that has come to an end, after the enumeration.
LEMMA CallEnds ==
    ASSUME EnumIInv, disk' = disk, ~IsCyclic, EnumTypes', epc' = "idle", xe'.nxt # All,
           found' = EnumGoal, JumpMatches'
    PROVE  EnumIInv'
<1>1. EnumGoal' = EnumGoal /\ ~IsCyclic'
  BY DiskStays DEF EnumGoal
<1>2. disk' \in Disks
  BY DEF EnumIInv
<1> QED
  BY <1>1, <1>2 DEF EnumIInv

\* The types in words: xe is a record of four fields.
LEMMA XeIs ==
    ASSUME EnumTypes
    PROVE  /\ xe = [cur |-> xe.cur, nxt |-> xe.nxt, bse |-> xe.bse, ebs |-> xe.ebs]
           /\ xe.cur \in Numbers \union {All} /\ xe.nxt \in 0 .. All
           /\ xe.bse \in Nat /\ xe.ebs \in Nat
  BY DEF EnumTypes

\* Nothing was found.
LEMMA NothingFound ==
    ASSUME EnumIInv, disk' = disk, ~IsCyclic, ReturnNone, cc' \in 0 .. All, kk' \in BOOLEAN,
           xe.nxt = All => found = EnumGoal,
           xe.nxt # All => \A p \in found : p.num # xe.nxt
    PROVE  EnumIInv'
<1>1. /\ EnumTypes /\ disk \in Disks /\ (xe.nxt = All => jumped.result = "none") /\ JumpMatches
      /\ (xe.nxt # All => found = EnumGoal)
  BY DEF EnumIInv
<1>2. All \in Nat /\ 0 # All
  <2>1. Cardinality(DOMAIN disk) \in Nat
    BY <1>1, DiskFacts, FS_CardinalityType
  <2> QED
    BY <1>1, <2>1, AllAssumption
<1>3. Numbers' = Numbers
  BY DiskStays
<1>4. epc' = "idle" /\ found' = found /\ xe'.nxt # All /\ found' = EnumGoal
  <2>1. CASE xe.nxt = All
    <3>1. xe' = [xe EXCEPT !.nxt = 0]
      BY <2>1 DEF ReturnNone
    <3>2. xe'.nxt = 0
      BY <1>1, <3>1, XeIs DEF EnumTypes
    <3> QED
      BY <1>2, <2>1, <3>2 DEF ReturnNone
  <2>2. CASE xe.nxt # All
    BY <1>1, <2>2 DEF ReturnNone
  <2> QED
    BY <2>1, <2>2
<1>5. EnumTypes'
  <2>1. CASE xe.nxt = All
    <3>1. xe' = [xe EXCEPT !.nxt = 0] /\ jumped' = jumped
      BY <2>1 DEF ReturnNone
    <3> QED
      BY <1>1, <1>2, <1>3, <1>4, <3>1 DEF EnumTypes
  <2>2. CASE xe.nxt # All
    <3>1. xe' = xe /\ jumped' = [num |-> xe.nxt, result |-> "missing", start |-> 0]
      BY <2>2 DEF ReturnNone
    <3> QED
      BY <1>1, <1>2, <1>3, <1>4, <3>1, XeIs DEF EnumTypes
  <2> QED
    BY <2>1, <2>2
<1>6. JumpMatches'
  <2>1. CASE xe.nxt = All
    <3>1. jumped' = jumped
      BY <2>1 DEF ReturnNone
    <3> QED
      BY <1>1, <2>1, <3>1 DEF JumpMatches
  <2>2. CASE xe.nxt # All
    <3>1. jumped' = [num |-> xe.nxt, result |-> "missing", start |-> 0]
      BY <2>2 DEF ReturnNone
    <3>2. jumped'.num = xe.nxt /\ jumped'.result = "missing"
      BY <3>1
    <3>3. {p \in found' : p.num = jumped'.num} = {}
      BY <1>4, <2>2, <3>2
    <3> QED
      BY <3>2, <3>3 DEF JumpMatches
  <2> QED
    BY <2>1, <2>2
<1> QED
  BY <1>4, <1>5, <1>6, CallEnds

\* The partition of the jump was found.
LEMMA JumpFound ==
    ASSUME EnumIInv, disk' = disk, ~IsCyclic, xe.nxt # All, NEW num, NEW start,
           Return(num, start), num = xe.nxt, Sound(disk[0]),
           [num |-> num, start |-> start] \in Reachable,
           cc' \in 0 .. All, kk' \in BOOLEAN,
           NEW c \in Numbers, NEW b \in Nat, xe' = [xe EXCEPT !.cur = c, !.bse = b]
    PROVE  EnumIInv'
<1>1. EnumTypes /\ disk \in Disks /\ found = EnumGoal
  BY DEF EnumIInv
<1>2. found' = found /\ epc' = "idle" /\ jumped' = [num |-> num, result |-> "found", start |-> start]
  BY DEF Return
<1>3. xe'.nxt = xe.nxt
  BY <1>1 DEF EnumTypes
<1>4. Numbers' = Numbers
  BY DiskStays
<1>5. EnumTypes'
  BY <1>1, <1>2, <1>4 DEF EnumTypes
<1>6. JumpMatches'
  <2>1. found = Reachable
    BY <1>1 DEF EnumGoal
  <2>2. PICK r : r = [num |-> num, start |-> start]
    OBVIOUS
  <2>3. r \in Reachable /\ r.num = num
    BY <2>2
  <2>4. \A p \in Reachable : p.num = num <=> p = r
    BY <1>1, <2>3, NumbersApart
  <2>5. jumped'.num = num /\ jumped'.result = "found" /\ jumped'.start = start
    BY <1>2
  <2>6. {p \in found' : p.num = num} = {r}
    BY <1>2, <2>1, <2>3, <2>4
  <2> QED
    BY <2>2, <2>5, <2>6 DEF JumpMatches
<1> QED
  BY <1>1, <1>2, <1>3, <1>5, <1>6, CallEnds

\* No partition has the number: the tables passed and those behind them have others.
LEMMA NotNumbered ==
    ASSUME disk \in Disks, xe.nxt \in Nat, xe.nxt # All, NEW h, Passed(h),
           \A j \in LogicalAt : ~(j =< h) => xe.nxt # 3 + UpTo(LogicalAt, j)
    PROVE  \A p \in Reachable : p.num # xe.nxt
<1>1. xe.nxt >= 4 /\ \A j \in LogicalAt : xe.nxt # 3 + UpTo(LogicalAt, j)
  BY DEF Passed
<1>2. \A p \in Primaries : p.num # xe.nxt
  BY <1>1, NumbersApart DEF Slots
<1>3. \A p \in Logicals : p.num # xe.nxt
  BY <1>1 DEF Logicals
<1> QED
  BY <1>2, <1>3 DEF Reachable

\* All tables are passed.
LEMMA PassedAll ==
    ASSUME EnumIInv, Sound(disk[0]), ~IsForeign, Passed(Len(Path))
    PROVE  /\ xe.nxt = All => found = EnumGoal
           /\ xe.nxt # All => \A p \in found : p.num # xe.nxt
<1>1. disk \in Disks /\ EnumTypes /\ (xe.nxt # All => found = EnumGoal)
  BY DEF EnumIInv
<1>2. EnumGoal = Reachable
  BY DEF EnumGoal
<1>3. xe.nxt = All => found = EnumGoal
  BY <1>1, <1>2, LogicalsEnds DEF Passed, Reachable
<1>4. ASSUME xe.nxt # All PROVE \A p \in found : p.num # xe.nxt
  <2>1. \A j \in LogicalAt : j =< Len(Path)
    <3>1. CASE ExtSlots(disk[0]) = {}
      BY <3>1, PathNone
    <3>2. CASE ExtSlots(disk[0]) # {}
      <4>1. DOMAIN Path = 1 .. Len(Path) /\ Len(Path) \in Int
        BY <1>1, <3>2, PathFacts
      <4> QED
        BY <1>1, <4>1, LogicalFacts
    <3> QED
      BY <3>1, <3>2
  <2>2. xe.nxt \in Nat
    <3>1. All \in Nat
      BY AllAssumption
    <3> QED
      BY <1>1, <3>1, XeIs
  <2> QED
    BY <1>1, <1>2, <1>4, <2>1, <2>2, NotNumbered
<1> QED
  BY <1>3, <1>4

\* The byte has room for the numbers of the slots.
LEMMA AllBig ==
    ASSUME disk \in Disks
    PROVE  All \in Nat /\ All > 4 /\ \A n \in Slots : n \in Numbers
<1>1. IsFiniteSet(DOMAIN disk) /\ 0 \in DOMAIN disk
  BY DiskFacts
<1>2. Cardinality(DOMAIN disk) \in Nat
  BY <1>1, FS_CardinalityType
<1>3. Cardinality(DOMAIN disk) # 0
  BY <1>1, FS_EmptySet
<1>4. All \in Nat /\ Cardinality(DOMAIN disk) + 3 < All
  BY AllAssumption
<1> QED
  BY <1>2, <1>3, <1>4 DEF Numbers, Slots

\* The cases of the outer loop.
OnFirst ==
    /\ kk /\ EnumTable = disk[0] /\ (cc = All => Number = 0) /\ Number \in 0 .. 4
    /\ xe.nxt = All => found = PrimariesTo(Number - 1)
    /\ xe.nxt # All => Number = 0
    /\ cc # All => Sound(disk[0])

OnTable(h) ==
    /\ HasChain /\ Sound(disk[0]) /\ ~IsForeign /\ FromTable(h, cc, kk) /\ EnumTable = ebuf
    /\ Number = 4 + UpTo(LogicalAt, h) /\ Number \in 4 .. All - 1 /\ (kk => Number # 4)
    /\ cc # All

LEMMA TopIs ==
    ASSUME EnumIInv, epc = "top"
    PROVE  OnFirst \/ \E h \in DOMAIN Path : OnTable(h)
<1>1. /\ disk \in Disks /\ ~IsCyclic
      /\ AtStart(cc, kk) \/ AtPrimary(cc, kk) \/ AtTable(cc, kk)
  BY DEF EnumIInv, Resumes
<1>2. All \in Nat /\ All > 4
  BY <1>1, AllBig
<1>3. CASE AtStart(cc, kk)
  <2>1. cc = All /\ kk /\ Number = 0 /\ EnumTable = disk[0]
    BY <1>3 DEF AtStart, Number, EnumTable
  <2>2. PrimariesTo(Number - 1) = {}
    BY <2>1, PrimariesStep
  <2> QED
    BY <1>3, <2>1, <2>2 DEF AtStart, OnFirst
<1>4. CASE AtPrimary(cc, kk)
  <2>1. cc \in 0 .. 3 /\ kk /\ xe.nxt = All /\ Sound(disk[0]) /\ ebuf = disk[0] /\ found = PrimariesTo(cc)
    BY <1>4 DEF AtPrimary, Slots
  <2>2. cc # All /\ Number = cc + 1 /\ EnumTable = disk[0]
    BY <1>2, <2>1 DEF Number, EnumTable
  <2>3. Number - 1 = cc
    BY <2>1, <2>2
  <2> QED
    BY <2>1, <2>2, <2>3 DEF OnFirst
<1>5. CASE AtTable(cc, kk)
  <2>1. /\ cc \in 4 .. All - 1 /\ Sound(disk[0]) /\ ExtSlots(disk[0]) # {} /\ ~IsForeign
        /\ \E h \in DOMAIN Path : FromTable(h, cc, kk)
    BY <1>5 DEF AtTable
  <2>2. HasChain
    BY <1>1, <2>1, UsedStart
  <2>3. PICK h \in DOMAIN Path : FromTable(h, cc, kk)
    BY <2>1
  <2>4. h \in Int
    BY <1>1, <2>1, PathFacts
  <2>5. UpTo(LogicalAt, h) \in Nat /\ 4 + UpTo(LogicalAt, h) < All
    BY <2>2, <2>4, CountBound, <1>1, CountTo
  <2>6. /\ kk <=> h \in LogicalAt
        /\ cc = IF kk THEN 3 + UpTo(LogicalAt, h) ELSE 4 + UpTo(LogicalAt, h)
    BY <2>3 DEF FromTable
  <2>7. cc # All /\ EnumTable = ebuf /\ Number = 4 + UpTo(LogicalAt, h)
    BY <1>2, <2>1, <2>5, <2>6 DEF EnumTable, Number
  <2>8. kk => UpTo(LogicalAt, h) > 0
    BY <1>1, <2>4, <2>6, CountTo
  <2>9. OnTable(h)
    BY <1>2, <2>1, <2>2, <2>3, <2>5, <2>7, <2>8 DEF OnTable
  <2> QED
    BY <2>9
<1> QED
  BY <1>1, <1>3, <1>4, <1>5

LEMMA StopsStep ==
    ASSUME EnumIInv, Stops
    PROVE  EnumIInv'
<1>1. /\ disk \in Disks /\ ~IsCyclic /\ EnumTypes /\ (xe.nxt # All => found = EnumGoal)
      /\ Resumes(cc, kk)
  BY DEF EnumIInv, Stops
<1>2. All \in Nat /\ All > 4
  BY <1>1, AllBig
<1>3. /\ epc = "top" /\ ReturnNone /\ disk' = disk /\ cc' = cc /\ kk' = kk
      /\ (cc = All /\ ~Sound(disk[0])) \/ Number > xe.nxt
  BY DEF Stops
<1>4. xe.nxt \in Nat /\ xe.nxt =< All
  BY <1>1, <1>2, XeIs
<1>5. /\ xe.nxt = All => found = EnumGoal
      /\ xe.nxt # All => \A p \in found : p.num # xe.nxt
  <2>1. CASE cc = All /\ ~Sound(disk[0])
    <3>1. EnumGoal = {}
      BY <2>1 DEF EnumGoal
    <3>2. AtStart(cc, kk)
      BY <1>1, <1>2, <2>1 DEF Resumes, AtPrimary, AtTable, Slots
    <3> QED
      BY <1>1, <3>1, <3>2 DEF AtStart
  <2>2. CASE Number > xe.nxt
    <3>1. OnFirst \/ \E h \in DOMAIN Path : OnTable(h)
      BY <1>3, TopIs
    <3>2. ~OnFirst
      BY <1>2, <1>4, <2>2 DEF OnFirst
    <3>3. PICK h \in DOMAIN Path : OnTable(h)
      BY <3>1, <3>2
    <3>4. HasChain /\ Sound(disk[0]) /\ Passed(h) /\ Number = 4 + UpTo(LogicalAt, h) /\ Number < All
      BY <1>2, <3>3 DEF OnTable, FromTable
    <3>5. xe.nxt # All
      BY <1>2, <1>4, <2>2, <3>4
    <3>6. h \in Int
      BY <1>1, <3>4, PathFacts DEF HasChain
    <3>7. ASSUME NEW j \in LogicalAt, ~(j =< h) PROVE xe.nxt # 3 + UpTo(LogicalAt, j)
      <4>1. LogicalAt \subseteq Int /\ IsFiniteSet(LogicalAt) /\ j \in Int
        BY <1>1, LogicalFacts
      <4>2. UpTo(LogicalAt, h) < UpTo(LogicalAt, j)
        <5>1. h < j
          BY <3>6, <3>7, <4>1
        <5> QED
          BY <3>6, <4>1, <5>1, UpToOrder
      <4>3. UpTo(LogicalAt, h) \in Nat /\ UpTo(LogicalAt, j) \in Nat
        BY <1>1, <3>6, <4>1, CountTo
      <4> QED
        BY <1>4, <2>2, <3>4, <4>2, <4>3
    <3>8. \A p \in Reachable : p.num # xe.nxt
      BY <1>1, <1>4, <3>4, <3>5, <3>7, NotNumbered
    <3> QED
      BY <1>1, <3>4, <3>5, <3>8 DEF EnumGoal
  <2> QED
    BY <1>3, <2>1, <2>2
<1>6. cc' \in 0 .. All /\ kk' \in BOOLEAN
  BY <1>1, <1>3 DEF EnumTypes
<1> QED
  BY <1>1, <1>3, <1>5, <1>6, NothingFound

LEMMA JumpPrimaryStep ==
    ASSUME EnumIInv, JumpPrimary
    PROVE  EnumIInv'
<1>1. /\ disk \in Disks /\ ~IsCyclic /\ EnumTypes /\ (xe.nxt # All => found = EnumGoal)
  BY DEF EnumIInv, JumpPrimary, Goes
<1>2. All \in Nat /\ All > 4 /\ \A n \in Slots : n \in Numbers
  BY <1>1, AllBig
<1>3. /\ epc = "top" /\ (cc = All => Sound(disk[0])) /\ Number < 4 /\ xe.nxt < 4
      /\ disk' = disk /\ cc' = Number /\ kk' = kk
  BY DEF JumpPrimary, Goes
<1>4. xe.nxt \in Nat /\ xe.nxt # All /\ xe.nxt \in Slots
  BY <1>1, <1>2, <1>3, XeIs DEF Slots
<1>5. OnFirst
  <2>1. OnFirst \/ \E h \in DOMAIN Path : OnTable(h)
    BY <1>3, TopIs
  <2>2. ASSUME NEW h \in DOMAIN Path, OnTable(h) PROVE FALSE
    <3>1. Number \in 4 .. All - 1
      BY <2>2 DEF OnTable
    <3> QED
      BY <1>2, <1>3, <3>1
  <2> QED
    BY <2>1, <2>2
<1>6. EnumTable = disk[0] /\ Sound(disk[0]) /\ cc' \in 0 .. All /\ kk' \in BOOLEAN
  BY <1>1, <1>2, <1>3, <1>5 DEF OnFirst, EnumTypes
<1>7. found = Reachable
  BY <1>1, <1>4, <1>6 DEF EnumGoal
<1>8. PICK n : n = xe.nxt
  OBVIOUS
<1>9. CASE disk[0][n].type = "none"
  <2>1. ReturnNone
    BY <1>6, <1>8, <1>9 DEF JumpPrimary
  <2>2. \A p \in found : p.num # xe.nxt
    <3>1. \A p \in Primaries : p.num # n
      BY <1>9 DEF Primaries
    <3>2. \A p \in Logicals : p.num # n
      BY <1>1, <1>3, <1>4, <1>8, NumbersApart
    <3> QED
      BY <1>7, <1>8, <3>1, <3>2 DEF Reachable
  <2> QED
    BY <1>1, <1>3, <1>4, <1>6, <2>1, <2>2, NothingFound
<1>10. CASE disk[0][n].type # "none"
  <2>1. PICK s : s = disk[0][n].at
    OBVIOUS
  <2>2. s \in Nat
    <3>1. disk[0][n] \in Entries
      BY <1>1, <1>4, <1>8, DiskFacts
    <3> QED
      BY <2>1, <3>1, EntryTyped
  <2>3. xe' = [xe EXCEPT !.cur = n, !.bse = s] /\ Return(n, s)
    BY <1>6, <1>8, <1>10, <2>1 DEF JumpPrimary
  <2>4. [num |-> n, start |-> s] \in Reachable
    BY <1>4, <1>8, <1>10, <2>1 DEF Reachable, Primaries
  <2>5. n \in Numbers
    BY <1>2, <1>4, <1>8
  <2> QED
    BY <1>1, <1>3, <1>4, <1>6, <1>8, <2>2, <2>3, <2>4, <2>5, JumpFound
<1> QED
  BY <1>9, <1>10

LEMMA NextPrimaryStep ==
    ASSUME EnumIInv, NextPrimary
    PROVE  EnumIInv'
<1>1. /\ disk \in Disks /\ ~IsCyclic /\ EnumTypes /\ JumpMatches
      /\ (xe.nxt = All => jumped.result = "none")
  BY DEF EnumIInv, NextPrimary, Goes
<1>2. All \in Nat /\ All > 4 /\ \A n \in Slots : n \in Numbers
  BY <1>1, AllBig
<1>3. /\ epc = "top" /\ (cc = All => Sound(disk[0])) /\ Number < 4 /\ xe.nxt = All
      /\ HasUsed(EnumTable, Number) /\ disk' = disk /\ kk' = kk /\ ebuf' = EnumTable
  BY DEF NextPrimary, Goes
<1>4. OnFirst
  <2>1. OnFirst \/ \E h \in DOMAIN Path : OnTable(h)
    BY <1>3, TopIs
  <2>2. ASSUME NEW h \in DOMAIN Path, OnTable(h) PROVE FALSE
    <3>1. Number \in 4 .. All - 1
      BY <2>2 DEF OnTable
    <3> QED
      BY <1>2, <1>3, <3>1
  <2> QED
    BY <2>1, <2>2
<1>5. /\ kk /\ EnumTable = disk[0] /\ Sound(disk[0]) /\ Number \in Nat
      /\ found = PrimariesTo(Number - 1)
  BY <1>3, <1>4 DEF OnFirst
<1>6. PICK k : k = NextUsed(disk[0], Number)
  OBVIOUS
<1>7. /\ k \in Used(disk[0]) /\ k \in Slots /\ k >= Number
      /\ \A j \in Used(disk[0]) : j >= Number => k =< j
  BY <1>3, <1>5, <1>6, NextUsedIs
<1>8. /\ xe' = [xe EXCEPT !.cur = k, !.bse = disk[0][k].at]
      /\ cc' = k /\ Return(k, disk[0][k].at)
  BY <1>5, <1>6 DEF NextPrimary
<1>9. epc' = "idle" /\ found' = found \union {PrimaryIn(k)} /\ jumped' = jumped
  BY <1>3, <1>8 DEF Return, PrimaryIn
<1>10. found' = PrimariesTo(k)
  BY <1>5, <1>7, <1>9, PrimariesStep
<1>11. disk[0][k].at \in Nat
  <2>1. disk[0][k] \in Entries
    BY <1>1, <1>7, DiskFacts
  <2> QED
    BY <2>1, EntryTyped
<1>12. xe'.nxt = All /\ xe'.cur = k
  BY <1>1, <1>3, <1>8, XeIs
<1>13. /\ ~IsCyclic' /\ Sound(disk[0])' /\ PrimariesTo(k)' = PrimariesTo(k) /\ Numbers' = Numbers
  BY <1>1, <1>3, <1>5, DiskStays DEF PrimariesTo
<1>14. AtPrimary(xe.cur, TRUE)'
  <2>1. ebuf' = disk[0] /\ disk' = disk
    BY <1>3, <1>5
  <2> QED
    BY <1>7, <1>10, <1>12, <1>13, <2>1 DEF AtPrimary, PrimariesTo
<1>15. EnumTypes'
  <2>1. k \in Numbers /\ k \in 0 .. All
    BY <1>2, <1>7 DEF Slots
  <2> QED
    BY <1>1, <1>3, <1>8, <1>9, <1>11, <1>13, <2>1 DEF EnumTypes
<1>16. JumpMatches'
  BY <1>1, <1>3, <1>9 DEF JumpMatches
<1>17. disk' \in Disks /\ jumped'.result = "none"
  BY <1>1, <1>3, <1>9
<1> QED
  BY <1>9, <1>12, <1>13, <1>14, <1>15, <1>16, <1>17 DEF EnumIInv, Resumes

\* To the h-th table of the chain, the ones before it passed.
LEMMA IntoTable ==
    ASSUME EnumIInv, disk' = disk, HasChain, Sound(disk[0]), ~IsForeign, epc' = "chain", NEW h \in DOMAIN Path,
           xe' = [xe EXCEPT !.bse = Path[h]] \/ xe' = [xe EXCEPT !.ebs = ExtStart, !.bse = Path[h]],
           xe'.ebs = ExtStart, kk' \in BOOLEAN,
           cc' = 4 + UpTo(LogicalAt, h - 1), Passed(h - 1),
           UNCHANGED <<found, jumped>>
    PROVE  EnumIInv'
<1>1. /\ disk \in Disks /\ ~IsCyclic /\ EnumTypes /\ JumpMatches
      /\ (xe.nxt = All => jumped.result = "none") /\ (xe.nxt # All => found = EnumGoal)
  BY DEF EnumIInv, HasChain
<1>2. h \in Int /\ Path[h] \in Nat /\ ExtStart \in Nat
  <2>1. DOMAIN Path = 1 .. Len(Path) /\ ExtStart \in Nat /\ \A x \in 1 .. Len(Path) : Path[x] \in Nat
    BY PathFacts DEF HasChain
  <2> QED
    BY <2>1
<1>3. xe'.nxt = xe.nxt /\ xe'.bse = Path[h] /\ xe'.cur = xe.cur
  BY <1>1, XeIs
<1>4. xe' \in [cur : Numbers \union {All}, nxt : 0 .. All, bse : Nat, ebs : Nat]
  BY <1>1, <1>2, XeIs
<1>5. 4 + UpTo(LogicalAt, h - 1) \in 0 .. All
  <2>1. h - 1 \in Int
    BY <1>2
  <2>2. UpTo(LogicalAt, h - 1) \in Nat /\ UpTo(LogicalAt, h - 1) + 4 < All
    BY <2>1, <1>1, CountBound, CountTo
  <2> QED
    BY <2>2, <1>1, AllBig
<1>6. /\ ~IsCyclic' /\ Sound(disk[0])' /\ Path' = Path /\ LogicalAt' = LogicalAt
      /\ ExtStart' = ExtStart /\ Numbers' = Numbers /\ EnumGoal' = EnumGoal /\ ~IsForeign'
  BY <1>1, DiskStays DEF EnumGoal
<1>7. EnumTypes'
  BY <1>1, <1>4, <1>5, <1>6 DEF EnumTypes
<1>8. Passed(h - 1)'
  BY <1>3, PassedStays
<1>9. InChain(h)'
  BY <1>3, <1>6, <1>8 DEF InChain, Passed
<1>10. ExtSlots(disk[0])' # {}
  <2>1. ExtSlots(disk[0])' = ExtSlots(disk[0])
    BY DEF ExtSlots, IsExt
  <2> QED
    BY <2>1 DEF HasChain
<1>11. JumpMatches'
  BY <1>1 DEF JumpMatches
<1>12. \E x \in DOMAIN Path' : InChain(x)'
  BY <1>6, <1>9
<1>13. disk' \in Disks
  BY <1>1
<1> QED
  BY <1>1, <1>3, <1>6, <1>7, <1>10, <1>11, <1>12, <1>13 DEF EnumIInv

LEMMA EnterChainStep ==
    ASSUME EnumIInv, EnterChain
    PROVE  EnumIInv'
<1>1. /\ disk \in Disks /\ ~IsCyclic /\ EnumTypes /\ (xe.nxt # All => found = EnumGoal)
  BY DEF EnumIInv, EnterChain, PastPrimaries, Goes
<1>2. All \in Nat /\ All > 4
  BY <1>1, AllBig
<1>3. /\ epc = "top" /\ (cc = All => Sound(disk[0])) /\ Logical = 4 /\ kk
      /\ (Number < 4 => xe.nxt >= 4 /\ (xe.nxt = All => ~HasUsed(EnumTable, Number)))
      /\ disk' = disk /\ kk' = kk /\ cc' = 4
  BY DEF EnterChain, PastPrimaries, Goes
<1>4. OnFirst
  <2>1. OnFirst \/ \E h \in DOMAIN Path : OnTable(h)
    BY <1>3, TopIs
  <2>2. ASSUME NEW h \in DOMAIN Path, OnTable(h) PROVE FALSE
    <3>1. Number \in 4 .. All - 1 /\ Number # 4
      BY <1>3, <2>2 DEF OnTable
    <3> QED
      BY <1>2, <1>3, <3>1 DEF Logical
  <2> QED
    BY <2>1, <2>2
<1>5. EnumTable = disk[0] /\ Sound(disk[0]) /\ Number \in 0 .. 4
  BY <1>3, <1>4 DEF OnFirst
<1>6. xe.nxt \in Nat
  BY <1>1, <1>2, XeIs
<1>7. xe.nxt = All => found = Primaries
  <2>1. SUFFICES ASSUME xe.nxt = All PROVE found = Primaries
    OBVIOUS
  <2>2. found = PrimariesTo(Number - 1)
    BY <1>4, <2>1 DEF OnFirst
  <2>3. ~HasUsed(disk[0], Number)
    <3>1. CASE Number < 4
      BY <1>3, <1>5, <2>1, <3>1
    <3>2. CASE Number = 4
      BY <3>2 DEF HasUsed, Used, Slots
    <3> QED
      BY <1>5, <3>1, <3>2
  <2> QED
    BY <1>5, <2>2, <2>3, PrimariesStep
<1>8. xe.nxt # All => xe.nxt >= 4
  BY <1>3, <1>4 DEF OnFirst
<1>9. Passed(0)
  <2>1. \A j \in LogicalAt : ~(j =< 0)
    BY <1>1, LogicalFacts
  <2> QED
    BY <1>1, <1>7, <1>8, <2>1, LogicalsEnds DEF Passed
<1>10. kk' \in BOOLEAN /\ cc' \in 0 .. All
  BY <1>1, <1>2, <1>3 DEF EnumTypes
<1>11. CASE IsForeign
  <2>1. ReturnNone
    BY <1>1, <1>5, <1>11, KnownTypes DEF EnterChain
  <2>2. xe.nxt = All => found = EnumGoal
    BY <1>5, <1>7, <1>11 DEF EnumGoal, Reachable
  <2>3. xe.nxt # All => \A p \in found : p.num # xe.nxt
    <3>1. xe.nxt # All => found = Primaries
      BY <1>1, <1>5, <1>11 DEF EnumGoal, Reachable
    <3> QED
      BY <1>1, <1>8, <3>1, NumbersApart DEF Slots
  <2> QED
    BY <1>1, <1>3, <1>10, <2>1, <2>2, <2>3, NothingFound
<1>12. CASE ExtSlots(disk[0]) = {} /\ ~IsForeign
  <2>1. ReturnNone
    BY <1>1, <1>5, <1>12, KnownTypes DEF EnterChain
  <2>2. Passed(Len(Path))
    <3>1. Path = <<>>
      BY <1>12, PathNone
    <3>2. Len(Path) = 0
      BY <3>1
    <3> QED
      BY <1>9, <3>2
  <2> QED
    BY <1>1, <1>3, <1>5, <1>10, <1>12, <2>1, <2>2, PassedAll, NothingFound
<1>13. CASE ExtSlots(disk[0]) # {} /\ ~IsForeign
  <2>1. /\ xe' = [xe EXCEPT !.ebs = ExtStart, !.bse = ExtStart] /\ epc' = "chain"
        /\ UNCHANGED <<found, jumped>>
    <3>1. XdSlots(disk[0]) # {} /\ disk[0][FirstXd(disk[0])].at = ExtStart
      BY <1>1, <1>13, KnownTypes DEF ExtStart
    <3> QED
      BY <1>5, <3>1 DEF EnterChain
  <2>2. HasChain
    BY <1>1, <1>5, <1>13, UsedStart
  <2>3. Path[1] = ExtStart /\ 1 \in DOMAIN Path
    <3>1. PICK n : n = Len(Path)
      OBVIOUS
    <3>2. PICK c : c = Cardinality(DOMAIN disk)
      OBVIOUS
    <3>3. c \in Nat /\ n \in 1 .. c /\ DOMAIN Path = 1 .. n /\ Path[1] = ExtStart
      BY <1>1, <1>13, <3>1, <3>2, PathFacts, PathShape
    <3> QED
      BY <3>3
  <2>4. 1 - 1 = 0 /\ UpTo(LogicalAt, 0) = 0
    BY <1>1, CountTo
  <2>5. cc' = 4 + UpTo(LogicalAt, 1 - 1) /\ Passed(1 - 1)
    BY <1>3, <1>9, <2>4
  <2>6. xe'.ebs = ExtStart
    BY <1>1, <2>1, XeIs
  <2>7. xe' = [xe EXCEPT !.ebs = ExtStart, !.bse = Path[1]]
    BY <2>1, <2>3
  <2> QED
    BY <1>3, <1>5, <1>10, <1>13, <2>1, <2>2, <2>3, <2>5, <2>6, <2>7, IntoTable
<1> QED
  BY <1>11, <1>12, <1>13

LEMMA NextInChainStep ==
    ASSUME EnumIInv, NextInChain
    PROVE  EnumIInv'
<1>1. /\ disk \in Disks /\ ~IsCyclic /\ EnumTypes
  BY DEF EnumIInv, NextInChain, PastPrimaries, Goes
<1>2. All \in Nat /\ All > 4
  BY <1>1, AllBig
<1>3. /\ epc = "top" /\ ~(Logical = 4 /\ kk) /\ disk' = disk /\ kk' = kk /\ cc' = Logical
  BY DEF NextInChain, PastPrimaries, Goes
<1>4. PICK h \in DOMAIN Path : OnTable(h)
  <2>1. OnFirst \/ \E h \in DOMAIN Path : OnTable(h)
    BY <1>3, TopIs
  <2>2. ~OnFirst
    BY <1>3 DEF OnFirst, Logical
  <2> QED
    BY <2>1, <2>2
<1>5. /\ HasChain /\ Sound(disk[0]) /\ ~IsForeign /\ FromTable(h, cc, kk) /\ EnumTable = ebuf
      /\ Number = 4 + UpTo(LogicalAt, h) /\ Number \in 4 .. All - 1
  BY <1>4 DEF OnTable
<1>6. /\ Path[h] \in DOMAIN disk /\ ebuf = disk[Path[h]] /\ ~IsExt(ebuf[0])
      /\ xe.ebs = ExtStart /\ Passed(h)
  BY <1>5 DEF FromTable
<1>7. TableFacts(h, ebuf)
  BY <1>5, <1>6, TableAt
<1>8. cc' = 4 + UpTo(LogicalAt, h) /\ cc' \in 0 .. All /\ kk' \in BOOLEAN
  BY <1>1, <1>2, <1>3, <1>5 DEF Logical, EnumTypes
<1>0. XdExt(ebuf[1]) <=> IsExt(ebuf[1])
  BY <1>1, <1>7, KnownTypes DEF TableFacts, Slots
<1>9. CASE ~IsExt(ebuf[1])
  <2>1. ReturnNone
    BY <1>0, <1>5, <1>9 DEF NextInChain
  <2>2. h = Len(Path)
    BY <1>6, <1>7, <1>9 DEF TableFacts
  <2>3. Passed(Len(Path))
    BY <1>6, <2>2
  <2> QED
    BY <1>1, <1>3, <1>5, <1>8, <2>1, <2>3, PassedAll, NothingFound
<1>10. CASE IsExt(ebuf[1])
  <2>1. h + 1 \in DOMAIN Path /\ Path[h + 1] = ExtStart + ebuf[1].at /\ ebuf[1].at # 0
    BY <1>7, <1>10 DEF TableFacts
  <2>2. /\ xe' = [xe EXCEPT !.bse = Path[h + 1]] /\ epc' = "chain"
        /\ UNCHANGED <<found, jumped>>
    BY <1>0, <1>5, <1>6, <1>10, <2>1 DEF NextInChain
  <2>3. h \in Int
    BY <1>5, PathFacts DEF HasChain
  <2>4. (h + 1) - 1 = h
    BY <2>3
  <2>5. cc' = 4 + UpTo(LogicalAt, (h + 1) - 1) /\ Passed((h + 1) - 1)
    BY <1>6, <1>8, <2>4
  <2>6. xe'.ebs = ExtStart
    BY <1>1, <1>6, <2>2, XeIs
  <2> QED
    BY <1>3, <1>5, <1>8, <2>1, <2>2, <2>5, <2>6, IntoTable
<1> QED
  BY <1>9, <1>10

\* What the inner loop has read.
LEMMA ChainIs ==
    ASSUME EnumIInv, epc = "chain"
    PROVE  /\ disk \in Disks /\ ~IsCyclic /\ EnumTypes /\ (xe.nxt # All => found = EnumGoal)
           /\ HasChain /\ Sound(disk[0]) /\ ~IsForeign /\ cc \in 0 .. All /\ kk \in BOOLEAN
           /\ \E h \in DOMAIN Path : InChain(h)
<1>1. /\ disk \in Disks /\ ~IsCyclic /\ EnumTypes /\ (xe.nxt # All => found = EnumGoal)
      /\ Sound(disk[0]) /\ ExtSlots(disk[0]) # {} /\ ~IsForeign
      /\ \E h \in DOMAIN Path : InChain(h)
  BY DEF EnumIInv
<1>2. HasChain
  BY <1>1, UsedStart
<1> QED
  BY <1>1, <1>2 DEF EnumTypes

\* In a table of the chain xd_enum sees the links that are there.
LEMMA LinksKnown ==
    ASSUME HasChain, NEW h \in DOMAIN Path, Path[h] \in DOMAIN disk, NEW k \in Slots
    PROVE  XdExt(disk[Path[h]][k]) <=> IsExt(disk[Path[h]][k])
<1>1. IsChainTable(disk[Path[h]]) /\ disk \in Disks
  BY TableAt DEF TableFacts, HasChain
<1> QED
  BY <1>1, KnownTypes

\* The h-th table is passed when it has no partition, or not the one looked for.
LEMMA PassedOne ==
    ASSUME disk \in Disks, NEW h \in DOMAIN Path, h \in Int, Passed(h - 1),
           h \in LogicalAt => xe.nxt # All /\ xe.nxt # 3 + UpTo(LogicalAt, h)
    PROVE  Passed(h)
<1>1. CASE xe.nxt = All
  <2>1. LogicalsTo(h) = LogicalsTo(h - 1)
    BY <1>1, LogicalsStep
  <2> QED
    BY <1>1, <2>1 DEF Passed
<1>2. CASE xe.nxt # All
  <2>1. \A j \in LogicalAt : j =< h => j =< h - 1 \/ j = h
    <3>1. \A j \in LogicalAt : j \in Int
      BY LogicalFacts
    <3> QED
      BY <3>1
  <2> QED
    BY <1>2, <2>1 DEF Passed
<1> QED
  BY <1>1, <1>2

LEMMA NoChainTableStep ==
    ASSUME EnumIInv, NoChainTable
    PROVE  EnumIInv'
<1>1. /\ epc = "chain" /\ xe.bse \notin DOMAIN disk /\ ReturnNone
      /\ disk' = disk /\ cc' = cc /\ kk' = kk
  BY DEF NoChainTable
<1>2. /\ disk \in Disks /\ ~IsCyclic /\ HasChain /\ Sound(disk[0]) /\ ~IsForeign
      /\ cc' \in 0 .. All /\ kk' \in BOOLEAN
  BY <1>1, ChainIs
<1>3. PICK h \in DOMAIN Path : InChain(h)
  BY <1>1, ChainIs
<1>4. h = Len(Path) /\ h \notin LogicalAt
  BY <1>1, <1>2, <1>3, OffTable DEF InChain
<1>5. h \in Int
  BY <1>2, PathFacts DEF HasChain
<1>6. Passed(h)
  BY <1>2, <1>3, <1>4, <1>5, PassedOne DEF InChain
<1> QED
  BY <1>1, <1>2, <1>4, <1>6, PassedAll, NothingFound

LEMMA FollowFirstStep ==
    ASSUME EnumIInv, FollowFirst
    PROVE  EnumIInv'
<1>1. /\ epc = "chain" /\ xe.bse \in DOMAIN disk /\ XdExt(disk[xe.bse][0])
      /\ disk' = disk /\ cc' = cc /\ kk' = kk
  BY DEF FollowFirst, Read
<1>2. /\ disk \in Disks /\ ~IsCyclic /\ HasChain /\ Sound(disk[0]) /\ ~IsForeign /\ EnumTypes
      /\ cc' \in 0 .. All /\ kk' \in BOOLEAN
  BY <1>1, ChainIs
<1>3. PICK h \in DOMAIN Path : InChain(h)
  BY <1>1, ChainIs
<1>4. PICK t : t = disk[Path[h]]
  OBVIOUS
<1>5. /\ xe.bse = Path[h] /\ xe.ebs = ExtStart /\ Passed(h - 1)
      /\ cc = 4 + UpTo(LogicalAt, h - 1)
  BY <1>3 DEF InChain
<1>6. TableFacts(h, t)
  BY <1>1, <1>2, <1>4, <1>5, TableAt
<1>7. IsExt(t[0])
  BY <1>1, <1>2, <1>3, <1>4, <1>5, LinksKnown DEF Slots
<1>8. /\ h + 1 \in DOMAIN Path /\ Path[h + 1] = ExtStart + t[0].at /\ t[0].at # 0
      /\ h \notin LogicalAt
  BY <1>6, <1>7 DEF TableFacts, IsExt
<1>9. /\ xe' = [xe EXCEPT !.bse = Path[h + 1]] /\ epc' = "chain" /\ UNCHANGED <<found, jumped>>
  BY <1>1, <1>4, <1>5, <1>8 DEF FollowFirst
<1>10. h \in Int
  BY <1>2, PathFacts DEF HasChain
<1>11. (h + 1) - 1 = h
  BY <1>10
<1>12. Passed(h)
  BY <1>2, <1>5, <1>8, <1>10, PassedOne
<1>13. UpTo(LogicalAt, h) = UpTo(LogicalAt, h - 1)
  BY <1>2, <1>8, <1>10, CountTo
<1>14. cc' = 4 + UpTo(LogicalAt, (h + 1) - 1) /\ Passed((h + 1) - 1)
  BY <1>1, <1>5, <1>11, <1>12, <1>13
<1>15. xe'.ebs = ExtStart
  BY <1>2, <1>5, <1>9, XeIs
<1> QED
  BY <1>1, <1>2, <1>8, <1>9, <1>14, <1>15, IntoTable

\* The call stops behind the h-th table, or goes on from it.
LEMMA FromTableStays ==
    ASSUME disk' = disk, NEW h, NEW c, NEW k, h \in DOMAIN Path, Path[h] \in DOMAIN disk,
           ebuf' = disk[Path[h]], ~IsExt(disk[Path[h]][0]), xe'.ebs = ExtStart,
           k <=> h \in LogicalAt,
           c = IF k THEN 3 + UpTo(LogicalAt, h) ELSE 4 + UpTo(LogicalAt, h), Passed(h)'
    PROVE  FromTable(h, c, k)'
<1>1. Path' = Path /\ LogicalAt' = LogicalAt /\ ExtStart' = ExtStart
  BY DiskStays
<1>2. /\ h \in DOMAIN Path' /\ Path'[h] \in DOMAIN disk' /\ ebuf' = disk'[Path'[h]]
      /\ xe'.ebs = ExtStart' /\ ~IsExt(ebuf'[0])
  BY <1>1
<1>3. /\ k <=> h \in LogicalAt'
      /\ c = IF k THEN 3 + UpTo(LogicalAt', h) ELSE 4 + UpTo(LogicalAt', h)
  BY <1>1
<1> QED
  BY <1>2, <1>3 DEF FromTable, IsExt

LEMMA SkipTableStep ==
    ASSUME EnumIInv, SkipTable
    PROVE  EnumIInv'
<1>1. /\ epc = "chain" /\ xe.bse \in DOMAIN disk /\ ~XdExt(disk[xe.bse][0])
      /\ ebuf' = disk[xe.bse] /\ kk' = (disk[xe.bse][0].type # "none")
      /\ ~(kk' /\ xe.nxt \in {All, cc}) /\ epc' = "top"
      /\ UNCHANGED <<disk, xe, cc, found, jumped>>
  BY DEF SkipTable, Read
<1>2. /\ disk \in Disks /\ ~IsCyclic /\ HasChain /\ Sound(disk[0]) /\ ~IsForeign /\ EnumTypes
      /\ (xe.nxt # All => found = EnumGoal)
  BY <1>1, ChainIs
<1>3. PICK h \in DOMAIN Path : InChain(h)
  BY <1>1, ChainIs
<1>4. PICK t : t = disk[Path[h]]
  OBVIOUS
<1>5. /\ xe.bse = Path[h] /\ xe.ebs = ExtStart /\ Passed(h - 1)
      /\ cc = 4 + UpTo(LogicalAt, h - 1)
  BY <1>3 DEF InChain
<1>6. TableFacts(h, t) /\ IsChainTable(t)
  BY <1>1, <1>2, <1>4, <1>5, TableAt DEF TableFacts
<1>0. ~IsExt(t[0])
  BY <1>1, <1>2, <1>4, <1>5, LinksKnown DEF Slots
<1>7. kk' <=> h \in LogicalAt
  <2>1. t[0].type \in {"none", "data", "ext"} /\ t[0].type # "ext"
    BY <1>0, <1>6, ChainTableFacts DEF IsExt
  <2> QED
    BY <1>1, <1>4, <1>5, <1>6, <2>1 DEF TableFacts
<1>8. h \in Int
  BY <1>2, PathFacts DEF HasChain
<1>9. UpTo(LogicalAt, h) \in Nat /\ UpTo(LogicalAt, h - 1) \in Nat
      /\ UpTo(LogicalAt, h) = IF h \in LogicalAt THEN UpTo(LogicalAt, h - 1) + 1
                              ELSE UpTo(LogicalAt, h - 1)
  BY <1>2, <1>8, CountTo
<1>10. cc = IF kk' THEN 3 + UpTo(LogicalAt, h) ELSE 4 + UpTo(LogicalAt, h)
  BY <1>5, <1>7, <1>9
<1>11. Passed(h)
  <2>1. h \in LogicalAt => xe.nxt # All /\ xe.nxt # 3 + UpTo(LogicalAt, h)
    BY <1>1, <1>7, <1>10
  <2> QED
    BY <1>2, <1>5, <1>8, <2>1, PassedOne
<1>12. Passed(h)'
  BY <1>1, <1>11, PassedStays
<1>13. kk' \in BOOLEAN
  BY <1>1
<1>14. FromTable(h, cc, kk)'
  <2>1. PICK k : k = kk'
    OBVIOUS
  <2>2. PICK c : c = cc
    OBVIOUS
  <2>3. FromTable(h, c, k)'
    <3>1. /\ Path[h] \in DOMAIN disk /\ ebuf' = disk[Path[h]] /\ ~IsExt(disk[Path[h]][0])
          /\ xe'.ebs = ExtStart
      BY <1>0, <1>1, <1>4, <1>5
    <3>2. /\ k <=> h \in LogicalAt
          /\ c = IF k THEN 3 + UpTo(LogicalAt, h) ELSE 4 + UpTo(LogicalAt, h)
      BY <1>7, <1>10, <2>1, <2>2
    <3> QED
      BY <1>1, <1>12, <3>1, <3>2, FromTableStays
  <2>4. c = cc'
    BY <1>1, <2>2
  <2> QED
    BY <2>1, <2>3, <2>4 DEF FromTable
<1>15. cc' \in 4 .. All - 1
  <2>1. UpTo(LogicalAt, h) + 4 < All
    BY <1>2, <1>8, CountBound
  <2>2. h \in LogicalAt => UpTo(LogicalAt, h) > 0
    BY <1>2, <1>8, CountTo
  <2>3. All \in Nat
    BY <1>2, AllBig
  <2>4. cc' = 4 + UpTo(LogicalAt, h - 1)
    BY <1>1, <1>5
  <2> QED
    BY <1>9, <2>1, <2>3, <2>4
<1>16. /\ ~IsCyclic' /\ Sound(disk[0])' /\ Path' = Path /\ Numbers' = Numbers
       /\ EnumGoal' = EnumGoal /\ ~IsForeign'
  BY <1>1, <1>2, DiskStays DEF EnumGoal
<1>17. ExtSlots(disk[0])' # {}
  <2>1. ExtSlots(disk[0])' = ExtSlots(disk[0])
    BY <1>1 DEF ExtSlots, IsExt
  <2> QED
    BY <1>2, <2>1 DEF HasChain
<1>18. AtTable(cc, kk)'
  <2>1. h \in DOMAIN Path'
    BY <1>16
  <2> QED
    BY <1>14, <1>15, <1>16, <1>17, <2>1 DEF AtTable
<1>19. EnumTypes'
  BY <1>1, <1>2, <1>13, <1>16 DEF EnumTypes
<1>20. JumpMatches' /\ disk' \in Disks /\ (xe'.nxt = All => jumped'.result = "none")
  <2>1. JumpMatches /\ (xe.nxt = All => jumped.result = "none")
    BY DEF EnumIInv
  <2> QED
    BY <1>1, <1>2, <2>1 DEF JumpMatches
<1>21. xe'.nxt # All => found' = EnumGoal'
  BY <1>1, <1>2, <1>16
<1> QED
  BY <1>1, <1>16, <1>18, <1>19, <1>20, <1>21 DEF EnumIInv, Resumes

LEMMA TakeLogicalStep ==
    ASSUME EnumIInv, TakeLogical
    PROVE  EnumIInv'
<1>1. /\ epc = "chain" /\ xe.bse \in DOMAIN disk /\ ~XdExt(disk[xe.bse][0])
      /\ disk[xe.bse][0].type # "none" /\ ebuf' = disk[xe.bse] /\ kk' = TRUE
      /\ xe.nxt \in {All, cc} /\ disk' = disk /\ cc' = cc
      /\ xe' = [xe EXCEPT !.cur = cc, !.bse = xe.bse + disk[xe.bse][0].at]
      /\ Return(cc, xe.bse + disk[xe.bse][0].at)
  BY DEF TakeLogical, Read
<1>2. /\ disk \in Disks /\ ~IsCyclic /\ HasChain /\ Sound(disk[0]) /\ ~IsForeign /\ EnumTypes
      /\ (xe.nxt # All => found = EnumGoal) /\ cc \in 0 .. All
  BY <1>1, ChainIs
<1>3. PICK h \in DOMAIN Path : InChain(h)
  BY <1>1, ChainIs
<1>4. PICK t : t = disk[Path[h]]
  OBVIOUS
<1>5. /\ xe.bse = Path[h] /\ xe.ebs = ExtStart /\ Passed(h - 1)
      /\ cc = 4 + UpTo(LogicalAt, h - 1)
  BY <1>3 DEF InChain
<1>6. TableFacts(h, t) /\ IsChainTable(t)
  BY <1>1, <1>2, <1>4, <1>5, TableAt DEF TableFacts
<1>0. ~IsExt(t[0])
  BY <1>1, <1>2, <1>4, <1>5, LinksKnown DEF Slots
<1>7. h \in LogicalAt /\ t[0].at \in Nat
  <2>1. t[0].type \in {"none", "data", "ext"} /\ t[0].type # "ext" /\ t[0].at \in Nat
    BY <1>0, <1>6, ChainTableFacts DEF IsExt, Slots
  <2> QED
    BY <1>1, <1>4, <1>5, <1>6, <2>1 DEF TableFacts
<1>8. h \in Int /\ Path[h] \in Nat
  <2>1. DOMAIN Path = 1 .. Len(Path) /\ \A x \in 1 .. Len(Path) : Path[x] \in Nat
    BY <1>2, PathFacts DEF HasChain
  <2> QED
    BY <2>1
<1>9. cc = 3 + UpTo(LogicalAt, h)
  <2>1. UpTo(LogicalAt, h - 1) \in Nat /\ UpTo(LogicalAt, h) = UpTo(LogicalAt, h - 1) + 1
    BY <1>2, <1>7, <1>8, CountTo
  <2> QED
    BY <1>5, <2>1
<1>10. cc \in Numbers /\ cc \in 4 .. All - 1
  <2>1. UpTo(LogicalAt, h) + 4 < All /\ 3 + UpTo(LogicalAt, h) \in Numbers
    BY <1>2, <1>8, CountBound
  <2>2. UpTo(LogicalAt, h) \in Nat /\ UpTo(LogicalAt, h) > 0
    BY <1>2, <1>7, <1>8, CountTo
  <2>3. All \in Nat
    BY <1>2, AllBig
  <2> QED
    BY <1>9, <2>1, <2>2, <2>3
<1>11. PICK s : s = Path[h] + t[0].at
  OBVIOUS
<1>12. s \in Nat
  BY <1>7, <1>8, <1>11
<1>13. xe' = [xe EXCEPT !.cur = cc, !.bse = s] /\ Return(cc, s)
  BY <1>1, <1>4, <1>5, <1>11
<1>14. [num |-> cc, start |-> s] = LogicalOf(h)
  BY <1>4, <1>9, <1>11 DEF LogicalOf
<1>15. CASE xe.nxt # All
  <2>1. LogicalOf(h) \in Reachable
    BY <1>2, <1>7 DEF Reachable, Logicals, LogicalOf
  <2>2. cc = xe.nxt
    BY <1>1, <1>15
  <2>3. cc' \in 0 .. All /\ kk' \in BOOLEAN
    BY <1>1, <1>2
  <2>4. PICK c : c = cc
    OBVIOUS
  <2> QED
    BY <1>1, <1>2, <1>10, <1>12, <1>13, <1>14, <1>15, <2>1, <2>2, <2>3, <2>4, JumpFound
<1>16. CASE xe.nxt = All
  <2>1. epc' = "idle" /\ found' = found \union {LogicalOf(h)} /\ jumped' = jumped
    BY <1>13, <1>14, <1>16 DEF Return
  <2>2. xe'.nxt = All /\ xe'.cur = cc /\ xe'.ebs = ExtStart
    BY <1>2, <1>5, <1>13, <1>16, XeIs
  <2>3. found' = Primaries \union LogicalsTo(h)
    <3>1. found = Primaries \union LogicalsTo(h - 1)
      BY <1>5, <1>16 DEF Passed
    <3>2. LogicalsTo(h) = LogicalsTo(h - 1) \union {LogicalOf(h)}
      BY <1>2, <1>7, LogicalsStep
    <3> QED
      BY <2>1, <3>1, <3>2
  <2>4. /\ ~IsCyclic' /\ Sound(disk[0])' /\ Path' = Path /\ Numbers' = Numbers
        /\ LogicalAt' = LogicalAt /\ Primaries' = Primaries /\ ~IsForeign'
    BY <1>1, <1>2, DiskStays
  <2>5. Passed(h)'
    <3>1. LogicalsTo(h)' = LogicalsTo(h)
      BY <1>1, <2>4 DEF LogicalsTo, LogicalOf
    <3> QED
      BY <2>2, <2>3, <2>4, <3>1 DEF Passed
  <2>6. FromTable(h, xe.cur, TRUE)'
    <3>1. PICK c : c = cc
      OBVIOUS
    <3>2. FromTable(h, c, TRUE)'
      <4>1. /\ Path[h] \in DOMAIN disk /\ ebuf' = disk[Path[h]] /\ ~IsExt(disk[Path[h]][0])
            /\ xe'.ebs = ExtStart
        BY <1>0, <1>1, <1>4, <1>5, <2>2
      <4>2. c = IF TRUE THEN 3 + UpTo(LogicalAt, h) ELSE 4 + UpTo(LogicalAt, h)
        BY <1>9, <3>1
      <4>3. TRUE <=> h \in LogicalAt
        BY <1>7
      <4> QED
        BY <1>1, <2>5, <4>1, <4>2, <4>3, FromTableStays
    <3> QED
      BY <2>2, <3>1, <3>2 DEF FromTable
  <2>7. ExtSlots(disk[0])' # {}
    <3>1. ExtSlots(disk[0])' = ExtSlots(disk[0])
      BY <1>1 DEF ExtSlots, IsExt
    <3> QED
      BY <1>2, <3>1 DEF HasChain
  <2>8. AtTable(xe.cur, TRUE)'
    <3>1. h \in DOMAIN Path' /\ xe'.cur \in 4 .. All - 1
      BY <1>10, <2>2, <2>4
    <3> QED
      BY <2>4, <2>6, <2>7, <3>1 DEF AtTable
  <2>9. EnumTypes'
    BY <1>1, <1>2, <1>10, <1>12, <1>13, <2>1, <2>4 DEF EnumTypes
  <2>10. JumpMatches' /\ disk' \in Disks /\ jumped'.result = "none"
    <3>1. JumpMatches /\ jumped.result = "none"
      BY <1>16 DEF EnumIInv
    <3> QED
      BY <1>1, <1>2, <2>1, <3>1 DEF JumpMatches
  <2> QED
    BY <2>1, <2>2, <2>4, <2>8, <2>9, <2>10 DEF EnumIInv, Resumes
<1> QED
  BY <1>15, <1>16

-----------------------------------------------------------------------------
(***************************************************************************)
(* The calls, and what does not touch xd_enum.                             *)
(***************************************************************************)

\* The state of the outer loop depends on this much.
LEMMA ResumesStay ==
    ASSUME disk' = disk, ebuf' = ebuf, xe' = xe, found' = found, NEW c, NEW k, Resumes(c, k)
    PROVE  Resumes(c, k)'
<1>1. /\ Path' = Path /\ LogicalAt' = LogicalAt /\ ExtStart' = ExtStart
      /\ Sound(disk[0])' = Sound(disk[0]) /\ Primaries' = Primaries
      /\ (IsForeign <=> IsForeign')
  BY DiskStays
<1>2. CASE AtStart(c, k)
  <2>1. AtStart(c, k)'
    BY <1>2 DEF AtStart
  <2> QED
    BY <2>1 DEF Resumes
<1>3. CASE AtPrimary(c, k)
  <2>1. AtPrimary(c, k)'
    BY <1>1, <1>3 DEF AtPrimary, PrimariesTo
  <2> QED
    BY <2>1 DEF Resumes
<1>4. CASE AtTable(c, k)
  <2>1. PICK h \in DOMAIN Path : FromTable(h, c, k)
    BY <1>4 DEF AtTable
  <2>2. Passed(h)'
    BY <2>1, PassedStays DEF FromTable
  <2>3. FromTable(h, c, k)'
    BY <1>1, <2>1, <2>2, FromTableStays DEF FromTable
  <2>4. ExtSlots(disk[0])' = ExtSlots(disk[0])
    BY DEF ExtSlots, IsExt
  <2>5. h \in DOMAIN Path'
    BY <1>1
  <2>6. AtTable(c, k)'
    BY <1>1, <1>4, <2>3, <2>4, <2>5 DEF AtTable
  <2> QED
    BY <2>6 DEF Resumes
<1> QED
  BY <1>2, <1>3, <1>4 DEF Resumes

LEMMA EnumRest ==
    ASSUME EnumIInv, UNCHANGED <<disk, evars>>
    PROVE  EnumIInv'
<1>1. UNCHANGED <<disk, xe, ebuf, epc, cc, kk, found, jumped>>
  BY DEF evars
<1>2. /\ (IsCyclic <=> IsCyclic') /\ Sound(disk[0])' = Sound(disk[0]) /\ Path' = Path /\ Numbers' = Numbers
      /\ LogicalAt' = LogicalAt /\ ExtStart' = ExtStart /\ EnumGoal' = EnumGoal
      /\ (IsForeign <=> IsForeign')
  BY <1>1, DiskStays DEF EnumGoal
<1>3. EnumTypes' /\ JumpMatches' /\ disk' \in Disks
  BY <1>1, <1>2 DEF EnumIInv, EnumTypes, JumpMatches
<1>4. epc' = "idle" /\ xe'.nxt = All => Resumes(xe.cur, TRUE)'
  <2>1. SUFFICES ASSUME epc' = "idle", xe'.nxt = All PROVE Resumes(xe.cur, TRUE)'
    OBVIOUS
  <2>2. PICK c : c = xe.cur
    OBVIOUS
  <2>3. Resumes(c, TRUE)
    BY <1>1, <2>1, <2>2 DEF EnumIInv
  <2>4. Resumes(c, TRUE)'
    BY <1>1, <2>3, ResumesStay
  <2>5. c = xe'.cur
    BY <1>1, <2>2
  <2> QED
    BY <2>4, <2>5 DEF Resumes, AtStart, AtPrimary, AtTable, FromTable
<1>5. epc' = "top" => Resumes(cc, kk)'
  <2>1. SUFFICES ASSUME epc' = "top" PROVE Resumes(cc, kk)'
    OBVIOUS
  <2>2. PICK c : c = cc
    OBVIOUS
  <2>3. PICK k : k = kk
    OBVIOUS
  <2>4. Resumes(c, k)
    BY <1>1, <2>1, <2>2, <2>3 DEF EnumIInv
  <2>5. Resumes(c, k)'
    BY <1>1, <2>4, ResumesStay
  <2>6. c = cc' /\ k = kk'
    BY <1>1, <2>2, <2>3
  <2> QED
    BY <2>5, <2>6 DEF Resumes, AtStart, AtPrimary, AtTable, FromTable
<1>6. epc' = "chain" =>
         /\ Sound(disk[0])' /\ ExtSlots(disk[0])' # {} /\ ~IsForeign'
         /\ \E h \in DOMAIN Path' : InChain(h)'
  <2>1. SUFFICES ASSUME epc' = "chain"
                 PROVE  /\ Sound(disk[0])' /\ ExtSlots(disk[0])' # {} /\ ~IsForeign'
                        /\ \E h \in DOMAIN Path' : InChain(h)'
    OBVIOUS
  <2>2. PICK h \in DOMAIN Path : InChain(h)
    BY <1>1, <2>1 DEF EnumIInv
  <2>3. Passed(h - 1)'
    BY <1>1, <2>2, PassedStays DEF InChain
  <2>4. InChain(h)'
    BY <1>1, <1>2, <2>2, <2>3 DEF InChain
  <2>5. ExtSlots(disk[0])' = ExtSlots(disk[0])
    BY <1>1 DEF ExtSlots, IsExt
  <2> QED
    BY <1>1, <1>2, <2>1, <2>2, <2>4, <2>5 DEF EnumIInv
<1>7. /\ xe'.nxt = All => jumped'.result = "none"
      /\ (xe'.cur = All /\ xe'.nxt = All /\ epc' = "idle") \/ ~IsCyclic'
      /\ xe'.nxt # All => found' = EnumGoal'
  BY <1>1, <1>2 DEF EnumIInv
<1> QED
  BY <1>3, <1>4, <1>5, <1>6, <1>7 DEF EnumIInv

LEMMA EnumerateStep ==
    ASSUME EnumIInv, Enumerate, ~IsCyclic
    PROVE  EnumIInv'
<1>1. /\ epc = "idle" /\ xe.nxt = All /\ epc' = "top" /\ cc' = xe.cur /\ kk' = TRUE
      /\ UNCHANGED <<disk, xe, ebuf, found, jumped>>
  BY DEF Enumerate
<1>2. /\ disk \in Disks /\ EnumTypes /\ JumpMatches /\ jumped.result = "none"
      /\ Resumes(xe.cur, TRUE)
  BY <1>1 DEF EnumIInv
<1>3. ~IsCyclic' /\ Numbers' = Numbers
  BY <1>1, DiskStays
<1>4. Resumes(cc, kk)'
  <2>1. PICK c : c = xe.cur
    OBVIOUS
  <2>2. Resumes(c, TRUE)'
    BY <1>1, <1>2, <2>1, ResumesStay
  <2>3. c = cc'
    BY <1>1, <2>1
  <2> QED
    BY <1>1, <2>2, <2>3 DEF Resumes, AtStart, AtPrimary, AtTable, FromTable
<1>5. xe.cur \in 0 .. All
  <2>1. xe.cur \in Numbers \union {All}
    BY <1>2, XeIs
  <2>2. Cardinality(DOMAIN disk) + 3 < All /\ All \in Nat
    BY <1>2, AllAssumption
  <2>3. Cardinality(DOMAIN disk) \in Nat
    BY <1>2, DiskFacts, FS_CardinalityType
  <2> QED
    BY <2>1, <2>2, <2>3 DEF Numbers
<1>6. EnumTypes'
  BY <1>1, <1>2, <1>3, <1>5 DEF EnumTypes
<1>7. JumpMatches' /\ disk' \in Disks
  BY <1>1, <1>2 DEF JumpMatches
<1> QED
  BY <1>1, <1>2, <1>3, <1>4, <1>6, <1>7 DEF EnumIInv

LEMMA JumpToStep ==
    ASSUME EnumIInv, NEW n \in Targets, JumpTo(n)
    PROVE  EnumIInv'
<1>1. /\ epc = "idle" /\ xe.nxt # All /\ epc' = "top" /\ cc' = All /\ kk' = TRUE
      /\ xe' = [xe EXCEPT !.cur = All, !.nxt = n] /\ UNCHANGED <<disk, ebuf, found, jumped>>
  BY DEF JumpTo
<1>2. disk \in Disks /\ EnumTypes /\ JumpMatches /\ ~IsCyclic /\ found = EnumGoal
  BY <1>1 DEF EnumIInv
<1>3. n \in 0 .. All /\ n # All /\ All \in Nat
  BY AllAssumption
<1>4. ~IsCyclic' /\ Numbers' = Numbers /\ EnumGoal' = EnumGoal
  BY <1>1, <1>2, DiskStays DEF EnumGoal
<1>5. xe'.nxt = n
  BY <1>1, <1>2, XeIs
<1>6. AtStart(cc, kk)'
  BY <1>1, <1>3, <1>5 DEF AtStart
<1>7. EnumTypes'
  <2>1. xe' \in [cur : Numbers \union {All}, nxt : 0 .. All, bse : Nat, ebs : Nat]
    BY <1>1, <1>2, <1>3 DEF EnumTypes
  <2>2. cc' \in 0 .. All /\ kk' \in BOOLEAN /\ epc' \in {"idle", "top", "chain"}
    BY <1>1, <1>3
  <2> QED
    BY <1>1, <1>2, <1>4, <2>1, <2>2 DEF EnumTypes
<1>8. JumpMatches' /\ disk' \in Disks
  BY <1>1, <1>2 DEF JumpMatches
<1> QED
  BY <1>1, <1>2, <1>3, <1>4, <1>5, <1>6, <1>7, <1>8 DEF EnumIInv, Resumes

-----------------------------------------------------------------------------
(***************************************************************************)
(* xd_enum returns the partitions of the disk under their numbers.         *)
(***************************************************************************)

LEMMA EnumInitially ==
    ASSUME disk \in Disks, EnumInit
    PROVE  EnumIInv
<1>1. All \in Nat /\ All > 4
  BY AllBig
<1>2. EnumTypes
  BY <1>1 DEF EnumInit, EnumTypes, NoJump
<1>3. AtStart(xe.cur, TRUE)
  BY DEF EnumInit, AtStart
<1>4. JumpMatches
  BY DEF EnumInit, JumpMatches, NoJump
<1> QED
  BY <1>2, <1>3, <1>4 DEF EnumInit, EnumIInv, Resumes, NoJump

LEMMA EnumSteps ==
    ASSUME EnumIInv, [WalksNext]_walkvars
    PROVE  EnumIInv'
<1>1. CASE UNCHANGED walkvars
  BY <1>1, EnumRest DEF walkvars
<1>2. CASE Boot
  <2>1. UNCHANGED <<disk, evars>>
    BY <1>2 DEF Boot, ListTurn, EndAtBadTable, ReadTable, CopyPartition, EndAtMaxNum, CopyLink, SkipFree,
                ExpandNext, EndOfEntries, CopyGpt, EndOfGpt, Done, Append1
  <2> QED
    BY <2>1, EnumRest
<1>3. CASE Install
  BY <1>3, EnumerateStep, StopsStep, JumpPrimaryStep, NextPrimaryStep, EnterChainStep, NextInChainStep,
     NoChainTableStep, FollowFirstStep, SkipTableStep, TakeLogicalStep DEF Install, Turn
<1>4. CASE Jump
  BY <1>4, JumpToStep DEF Jump
<1> QED
  BY <1>1, <1>2, <1>3, <1>4 DEF WalksNext

\* What the invariant says of the partitions returned.
LEMMA EnumIInvInv ==
    ASSUME EnumIInv
    PROVE  EnumInv
<1>1. /\ disk \in Disks /\ EnumTypes /\ JumpMatches /\ (xe.nxt # All => found = EnumGoal)
  BY DEF EnumIInv
<1>2. EnumeratesAll
  BY <1>1 DEF EnumeratesAll, Enumerated, EnumGoal
<1>3. found \subseteq Reachable
  <2>1. CASE xe.nxt # All
    BY <1>1, <2>1 DEF EnumGoal
  <2>2. CASE xe.nxt = All
    <3>1. ~IsForeign => \A h : Passed(h) => found \subseteq Reachable
      <4>1. \A h : LogicalsTo(h) \subseteq Logicals
        BY DEF LogicalsTo, LogicalOf, Logicals
      <4> QED
        BY <2>2, <4>1 DEF Passed, Reachable
    <3>2. \A c, k : Resumes(c, k) => found \subseteq Reachable
      <4>1. \A c : PrimariesTo(c) \subseteq Reachable
        BY DEF PrimariesTo, Reachable
      <4>2. \A c, k : AtStart(c, k) => found \subseteq Reachable
        BY <2>2 DEF AtStart
      <4>3. \A c, k : AtPrimary(c, k) => found \subseteq Reachable
        BY <4>1 DEF AtPrimary
      <4>4. \A c, k : AtTable(c, k) => found \subseteq Reachable
        BY <3>1 DEF AtTable, FromTable
      <4> QED
        BY <4>2, <4>3, <4>4 DEF Resumes
    <3>3. epc = "chain" => found \subseteq Reachable
      BY <3>1 DEF EnumIInv, InChain
    <3>4. epc \in {"idle", "top", "chain"}
      BY <1>1 DEF EnumTypes
    <3>5. epc = "idle" => Resumes(xe.cur, TRUE)
      BY <2>2 DEF EnumIInv
    <3>6. epc = "top" => Resumes(cc, kk)
      BY DEF EnumIInv
    <3> QED
      BY <3>2, <3>3, <3>4, <3>5, <3>6
  <2> QED
    BY <2>1, <2>2
<1>4. \A p \in Primaries : p.num \in Numbers /\ p.start \in Nat
  <2>1. \A k \in Slots : k \in Numbers /\ disk[0][k].at \in Nat
    <3>1. \A k \in Slots : disk[0][k] \in Entries
      BY <1>1, DiskFacts
    <3> QED
      BY <1>1, <3>1, AllBig, EntryTyped
  <2> QED
    BY <2>1 DEF Primaries
<1>5. found = {} \/ Logicals = {} \/ HasChain
  <2>1. CASE ExtSlots(disk[0]) = {}
    BY <2>1, PathNone DEF Logicals
  <2>2. CASE ExtSlots(disk[0]) # {} /\ ~Sound(disk[0])
    <3>1. xe.nxt # All => found = {}
      BY <1>1, <2>2 DEF EnumGoal
    <3>2. \A c, k : Resumes(c, k) /\ xe.nxt = All => found = {}
      BY <2>2 DEF Resumes, AtStart, AtPrimary, AtTable
    <3>3. epc # "chain"
      BY <2>2 DEF EnumIInv
    <3>4. epc \in {"idle", "top", "chain"}
      BY <1>1 DEF EnumTypes
    <3>5. epc = "idle" /\ xe.nxt = All => Resumes(xe.cur, TRUE)
      BY DEF EnumIInv
    <3>6. epc = "top" => Resumes(cc, kk)
      BY DEF EnumIInv
    <3> QED
      BY <3>1, <3>2, <3>3, <3>4, <3>5, <3>6
  <2>3. CASE ExtSlots(disk[0]) # {} /\ Sound(disk[0])
    <3>1. CASE IsCyclic
      <4>1. xe.cur = All /\ xe.nxt = All /\ epc = "idle"
        BY <3>1 DEF EnumIInv
      <4>2. Resumes(All, TRUE)
        BY <4>1 DEF EnumIInv
      <4>3. All \in Nat /\ All > 4
        BY <1>1, AllBig
      <4>4. AtStart(All, TRUE)
        <5>1. All \notin Slots /\ All \notin 4 .. All - 1
          BY <4>3 DEF Slots
        <5> QED
          BY <4>2, <5>1 DEF Resumes, AtPrimary, AtTable
      <4> QED
        BY <4>1, <4>4 DEF AtStart
    <3>2. CASE ~IsCyclic
      BY <1>1, <2>3, <3>2, UsedStart
    <3> QED
      BY <3>1, <3>2
  <2> QED
    BY <2>1, <2>2, <2>3
<1>6. HasChain => \A p \in Logicals : p.num \in Numbers /\ p.start \in Nat
  <2>1. SUFFICES ASSUME HasChain, NEW j \in LogicalAt
                 PROVE  LogicalOf(j).num \in Numbers /\ LogicalOf(j).start \in Nat
    BY DEF Logicals, LogicalOf
  <2>2. /\ j \in DOMAIN Path /\ Path[j] \in DOMAIN disk /\ j \in Int
    BY <1>1, LogicalFacts DEF LogicalAt
  <2>3. 3 + UpTo(LogicalAt, j) \in Numbers
    BY <2>1, <2>2, CountBound
  <2>4. IsChainTable(disk[Path[j]])
    BY <2>1, <2>2, TableAt DEF TableFacts
  <2>5. disk[Path[j]][0].at \in Nat
    BY <2>4, ChainTableFacts DEF Slots
  <2>6. Path[j] \in Nat
    <3>1. DOMAIN Path = 1 .. Len(Path) /\ \A x \in 1 .. Len(Path) : Path[x] \in Nat
      BY <2>1, PathFacts DEF HasChain
    <3> QED
      BY <2>2, <3>1
  <2> QED
    BY <2>3, <2>5, <2>6 DEF LogicalOf
<1>7. \A p \in found : p.num \in Numbers /\ p.start \in Nat
  BY <1>3, <1>4, <1>5, <1>6 DEF Reachable
<1>8. EnumTypeOK
  BY <1>1, <1>7, XeIs DEF EnumTypeOK, EnumTypes
<1> QED
  BY <1>1, <1>2, <1>8 DEF EnumInv

\* On every disk xd_enum enumerates each partition once under its number, although only
\* the last number and the last table live on between calls, and a jump finds the same.
THEOREM EnumerationIsComplete ==
    WalksSpec => []EnumInv
<1>1. WalksInit => EnumIInv
  BY EnumInitially DEF WalksInit
<1>2. EnumIInv /\ [WalksNext]_walkvars => EnumIInv'
  BY EnumSteps
<1>3. EnumIInv => EnumInv
  BY EnumIInvInv
<1> QED
  BY <1>1, <1>2, <1>3, PTL DEF WalksSpec

-----------------------------------------------------------------------------
(***************************************************************************)
(* The list and its numbers.                                               *)
(***************************************************************************)

ListBase ==
    /\ disk \in Disks /\ ListTypes /\ Ordered
    /\ IF IsGpt(disk[0]) THEN OnGpt ELSE OnMbr

\* What the types say.
LEMMA ListIs ==
    ASSUME ListTypes
    PROVE  /\ list \in Seq(ListEntry) /\ Len(list) \in Nat \ {0} /\ DOMAIN list = 1 .. Len(list)
           /\ at \in 1 .. Len(list)
           /\ \A k \in 1 .. Len(list) :
                 /\ list[k].lo \in 0 .. 255 /\ list[k].hi \in 0 .. 255
                 /\ list[k].start \in Nat /\ list[k].base \in Nat
                 /\ list[k].type \in {"data", "ext", "foreign", "gpt"} /\ Where(list[k]) \in Nat
           /\ partnum.lo \in 0 .. 255 /\ partnum.hi \in Nat
           /\ partnum = [lo |-> partnum.lo, hi |-> partnum.hi]
           /\ Sector \in Nat /\ (at = 1 => Sector = 0)
<1>1. list \in Seq(ListEntry) /\ at \in DOMAIN list /\ partnum \in [lo : 0 .. 255, hi : Nat]
      /\ list[1] = DriveEntry
  BY DEF ListTypes
<1>2. Len(list) \in Nat /\ DOMAIN list = 1 .. Len(list)
  BY <1>1
<1>3. \A k \in 1 .. Len(list) : list[k] \in ListEntry
  BY <1>1, <1>2, ElementOfSeq
<1>4. \A k \in 1 .. Len(list) :
         /\ list[k].lo \in 0 .. 255 /\ list[k].hi \in 0 .. 255
         /\ list[k].start \in Nat /\ list[k].base \in Nat
         /\ list[k].type \in {"data", "ext", "foreign", "gpt"}
  BY <1>3 DEF ListEntry
<1>5. \A k \in 1 .. Len(list) : Where(list[k]) \in Nat
  BY <1>4 DEF Where
<1>6. Sector \in Nat
  BY <1>1, <1>2, <1>5 DEF Sector
<1>7. at = 1 => Sector = 0
  BY <1>1 DEF Sector, Where, DriveEntry
<1>8. /\ partnum.lo \in 0 .. 255 /\ partnum.hi \in Nat
      /\ partnum = [lo |-> partnum.lo, hi |-> partnum.hi]
  BY <1>1
<1>9. at \in 1 .. Len(list) /\ Len(list) \in Nat \ {0}
  BY <1>1, <1>2
<1> QED
  BY <1>1, <1>2, <1>4, <1>5, <1>6, <1>7, <1>8, <1>9

\* The table of an entry, when the disk has no GUID partition table.
LEMMA MbrTable ==
    ASSUME ListBase, ~IsGpt(disk[0])
    PROVE  /\ IsMbrDisk(disk) /\ OnMbr
           /\ at = 1 <=> Sector = 0
           /\ Sector \in DOMAIN disk =>
                 ListTable \in [Slots -> Entries] /\ ~IsGpt(ListTable)
                 /\ (Sector # 0 => IsChainTable(ListTable))
<1>1. disk \in Disks /\ ListTypes /\ OnMbr
  BY DEF ListBase
<1>2. IsMbrDisk(disk)
  <2>1. IsMbrDisk(disk) \/ IsGptDisk(disk)
    BY <1>1, DisksAssumption
  <2> QED
    BY <2>1 DEF IsGptDisk, IsGpt
<1>3. at = 1 <=> Sector = 0
  <2>1. at \in 1 .. Len(list) /\ (at = 1 => Sector = 0)
    BY <1>1, ListIs
  <2>2. ASSUME at # 1 PROVE Sector > 0
    <3>1. at \in 2 .. Len(list) /\ IsExt(list[at])
      BY <1>1, <2>1, <2>2 DEF OnMbr
    <3> QED
      BY <1>1, <3>1 DEF OnMbr, Sector
  <2> QED
    BY <2>1, <2>2
<1>4. Sector \in DOMAIN disk => ListTable \in [Slots -> Entries] /\ ~IsGpt(ListTable)
                                /\ (Sector # 0 => IsChainTable(ListTable))
  BY <1>2 DEF IsMbrDisk, IsChainTable, IsGpt, ListTable
<1> QED
  BY <1>1, <1>2, <1>3, <1>4

\* An entry that is copied.
LEMMA CopiedEntry ==
    ASSUME ListBase, ~IsGpt(disk[0]), lpc = "copy"
    PROVE  /\ slot \in Slots /\ ListTable[slot] \in Entries /\ Len(list) < Capacity
           /\ Sector \in DOMAIN disk /\ IsValid(ListTable)
           /\ ListTable[slot] # Free => ListTable[slot].at \in Nat \ {0}
<1>1. OnMbr /\ (Sector \in DOMAIN disk => ListTable \in [Slots -> Entries])
  BY MbrTable
<1>2. slot \in Slots /\ ListTable[slot] \in Entries /\ IsValid(ListTable) /\ Sector \in DOMAIN disk
  BY <1>1 DEF OnMbr
<1>3. Len(list) < Capacity
  BY DEF ListBase, ListTypes
<1> QED
  BY <1>2, <1>3, EntryTyped DEF IsValid

LEMMA Bounds == Capacity \in Nat /\ Capacity =< 256 /\ Capacity >= 2 /\ MaxNum \in 5 .. 127
  BY BoundsAssumption

LEMMA InBounds ==
    /\ \A x \in 0 .. 255 : x \in Int
    /\ \A x \in 0 .. MaxNum : x \in Int /\ x \in 0 .. 255
    /\ \A x \in Nat : x < Capacity => x \in 0 .. 255
  BY Bounds

\* Numbers are in one order.
LEMMA BeforeOrder ==
    ASSUME NEW p, NEW q, NEW a, p.lo \in Int, p.hi \in Int, q.lo \in Int, q.hi \in Int,
           a.lo \in Int, a.hi \in Int, ~Before(p, a), Before(p, q)
    PROVE  Before(a, q) /\ ~Before(q, a)
  BY DEF Before

\* The number of the next entry is behind all numbers given.
LEMMA OrderedAppend ==
    ASSUME ListTypes, Ordered, NEW e \in ListEntry, list' = Append(list, e),
           partnum' \in [lo : 0 .. MaxNum, hi : Nat], e.lo = partnum'.lo, e.hi = partnum'.hi,
           Len(list) = 1 \/ Before(partnum, partnum')
    PROVE  Ordered'
<1>1. PICK n : n = Len(list)
  OBVIOUS
<1>2. /\ list \in Seq(ListEntry) /\ n \in Nat \ {0}
      /\ \A k \in 1 .. n : list[k].lo \in 0 .. 255 /\ list[k].hi \in 0 .. 255
      /\ partnum.lo \in 0 .. 255 /\ partnum.hi \in Nat
  BY <1>1, ListIs
<1>3. /\ Len(list') = n + 1 /\ list'[n + 1] = e /\ \A k \in 1 .. n : list'[k] = list[k]
  BY <1>1, <1>2, AppendProperties
<1>4. partnum'.lo \in 0 .. MaxNum /\ partnum'.hi \in Nat
  OBVIOUS
<1>5. /\ \A k \in 2 .. n : list[k].lo \in 0 .. MaxNum /\ ~Before(partnum, list[k])
      /\ \A k \in 2 .. n : \A j \in 2 .. k - 1 : Before(list[j], list[k])
  BY <1>1 DEF Ordered
<1>6. ASSUME NEW k \in 2 .. n PROVE Before(list[k], partnum') /\ ~Before(partnum', list[k])
  <2>1. n # 1 /\ k \in 1 .. n
    BY <1>2
  <2>2. Before(partnum, partnum') /\ ~Before(partnum, list[k])
    BY <1>1, <1>5, <2>1
  <2>3. list[k].lo \in 0 .. 255 /\ list[k].hi \in 0 .. 255
    BY <1>2, <2>1
  <2>4. list[k].lo \in Int /\ list[k].hi \in Int
    BY <2>3, InBounds, Zenon
  <2>5. partnum.lo \in Int /\ partnum.hi \in Int /\ partnum'.lo \in Int /\ partnum'.hi \in Int
    <3>1. partnum.lo \in Int /\ partnum'.lo \in Int
      BY <1>2, <1>4, InBounds, Zenon
    <3> QED
      BY <1>2, <1>4, <3>1
  <2> QED
    BY <2>2, <2>4, <2>5, BeforeOrder
<1>7. ~Before(partnum', e) /\ e.lo \in 0 .. MaxNum
  BY <1>4, Bounds DEF Before
<1>8. ASSUME NEW k \in 2 .. n + 1
      PROVE  /\ list'[k].lo \in 0 .. MaxNum /\ ~Before(partnum', list'[k])
             /\ \A j \in 2 .. k - 1 : Before(list'[j], list'[k])
  <2>1. CASE k = n + 1
    <3>1. \A j \in 2 .. n : Before(list'[j], e)
      <4>1. \A j \in 2 .. n : list'[j] = list[j]
        BY <1>2, <1>3
      <4> QED
        BY <1>6, <4>1 DEF Before
    <3>2. k - 1 = n
      BY <1>2, <2>1
    <3> QED
      BY <1>3, <1>7, <2>1, <3>1, <3>2
  <2>2. CASE k # n + 1
    <3>1. k \in 2 .. n /\ k \in 1 .. n
      BY <1>2, <2>2
    <3>2. \A j \in 2 .. k - 1 : j \in 1 .. n
      BY <1>2, <3>1
    <3> QED
      BY <1>3, <1>5, <1>6, <3>1, <3>2
  <2> QED
    BY <2>1, <2>2
<1>9. n + 1 # 1
  BY <1>2
<1> QED
  BY <1>3, <1>4, <1>8, <1>9 DEF Ordered, Before

\* An entry of a table goes to the end of the list.
LEMMA AppendStep ==
    ASSUME ListBase, ~IsGpt(disk[0]), lpc = "copy", ListTable[slot] # Free,
           NEW n \in [lo : 0 .. MaxNum, hi : Nat], n.hi =< Len(list),
           Len(list) = 1 \/ Before(partnum, n),
           NEW base \in Nat, Append1(ListTable[slot], n, base)
    PROVE  ListBase'
<1>1. PICK t : t = ListTable[slot]
  OBVIOUS
<1>2. PICK m : m = Len(list)
  OBVIOUS
<1>3. /\ slot \in Slots /\ t \in Entries /\ m < Capacity /\ t.at \in Nat \ {0} /\ t # Free
  BY <1>1, <1>2, CopiedEntry
<1>4. PICK e : e = [lo |-> n.lo, hi |-> n.hi, type |-> t.type, start |-> t.at, len |-> t.len, base |-> base]
  OBVIOUS
<1>5. /\ list' = Append(list, e) /\ partnum' = n /\ slot' = slot + 1
      /\ lpc' = (IF m + 1 >= Capacity THEN "done" ELSE IF slot = 3 THEN "next" ELSE "copy")
      /\ disk' = disk /\ at' = at
  BY <1>1, <1>2, <1>4 DEF Append1, AfterEntry
<1>6. /\ list \in Seq(ListEntry) /\ m \in Nat \ {0} /\ at \in 1 .. m /\ DOMAIN list = 1 .. m
      /\ list[1] = DriveEntry /\ disk \in Disks /\ Ordered /\ OnMbr /\ ListTypes
  BY <1>2, ListIs DEF ListBase, ListTypes
<1>7. e \in ListEntry
  <2>1. t.type \in {"data", "ext", "foreign", "gpt"} /\ t.len \in Nat
    BY <1>3, EntryTyped
  <2>2. n.lo \in 0 .. MaxNum /\ n.hi \in Nat /\ n.hi =< m
    BY <1>2
  <2>3. n.lo \in 0 .. 255 /\ n.hi \in 0 .. 255
    <3>1. n.hi < Capacity
      BY <1>3, <1>6, <2>2, Bounds
    <3> QED
      BY <2>2, <3>1, InBounds, Zenon
  <2> QED
    BY <1>3, <1>4, <2>1, <2>3 DEF ListEntry
<1>8. /\ list' \in Seq(ListEntry) /\ Len(list') = m + 1 /\ list'[m + 1] = e
      /\ \A k \in 1 .. m : list'[k] = list[k]
  <2>1. list' = Append(list, e)
    BY <1>5
  <2> QED
    BY <1>2, <1>6, <1>7, <2>1, AppendProperties
<1>9. DOMAIN list' = 1 .. m + 1
  BY <1>8
<1>10. ListTypes'
  <2>1. at' \in DOMAIN list' /\ list'[1] = DriveEntry
    BY <1>5, <1>6, <1>8, <1>9
  <2>2. partnum' \in [lo : 0 .. 255, hi : Nat] /\ partnum'.hi < Len(list')
    <3>1. 0 .. MaxNum \subseteq 0 .. 255
      BY Bounds
    <3>2. n \in [lo : 0 .. 255, hi : Nat]
      BY <3>1
    <3>3. n.hi \in Nat /\ n.hi < m + 1
      BY <1>2, <1>6
    <3> QED
      BY <1>5, <1>8, <3>2, <3>3
  <2>3. slot' \in Nat /\ lpc' \in {"read", "copy", "gpt", "next", "done"}
    BY <1>3, <1>5 DEF Slots
  <2>4. Len(list') =< Capacity /\ (lpc' \in {"read", "copy", "next"} => Len(list') < Capacity)
    BY <1>3, <1>5, <1>6, <1>8, Bounds
  <2> QED
    BY <1>8, <2>1, <2>2, <2>3, <2>4 DEF ListTypes
<1>11. Ordered'
  <2>1. e.lo = partnum'.lo /\ e.hi = partnum'.hi /\ partnum' \in [lo : 0 .. MaxNum, hi : Nat]
    BY <1>4, <1>5
  <2>2. Len(list) = 1 \/ Before(partnum, partnum')
    BY <1>5
  <2> QED
    BY <1>5, <1>6, <1>7, <2>1, <2>2, OrderedAppend
<1>12. OnMbr'
  <2>1. lpc' # "gpt"
    BY <1>5
  <2>2. at' = 1 \/ IsExt(list'[at'])
    BY <1>5, <1>6, <1>8 DEF OnMbr
  <2>3. Where(e) > 0
    BY <1>3, <1>4 DEF Where
  <2>4. ASSUME NEW k \in 2 .. m + 1, IsExt(list'[k]) PROVE Where(list'[k]) > 0
    <3>1. CASE k = m + 1
      BY <1>8, <2>3, <3>1
    <3>2. CASE k # m + 1
      <4>1. k \in 2 .. m /\ k \in 1 .. m
        BY <1>6, <3>2
      <4> QED
        BY <1>2, <1>6, <1>8, <2>4, <4>1 DEF OnMbr
    <3> QED
      BY <3>1, <3>2
  <2>5. lpc' = "copy" => slot' \in Slots
    BY <1>3, <1>5 DEF Slots
  <2>6. Sector' = Sector
    BY <1>5, <1>6, <1>8 DEF Sector
  <2>7. ListTable' = ListTable
    BY <1>5, <2>6 DEF ListTable
  <2>8. lpc' = "copy" => Sector' \in DOMAIN disk' /\ IsValid(ListTable')
    BY <1>5, <1>6, <2>6, <2>7 DEF OnMbr
  <2> QED
    BY <1>8, <2>1, <2>2, <2>4, <2>5, <2>8 DEF OnMbr, IsValid
<1> QED
  BY <1>5, <1>6, <1>10, <1>11, <1>12 DEF ListBase, IsGpt

LEMMA CopyPartitionStep ==
    ASSUME ListBase, ~IsGpt(disk[0]), CopyPartition
    PROVE  ListBase'
<1>1. PICK n : n = [lo |-> (partnum.lo + 1) % 256, hi |-> 0]
  OBVIOUS
<1>2. /\ lpc = "copy" /\ ListTable[slot] # Free /\ ~IsLink(ListTable[slot]) /\ partnum.lo # MaxNum
      /\ Append1(ListTable[slot], n, Sector)
  BY <1>1 DEF CopyPartition
<1>3. ListTypes /\ Ordered
  BY DEF ListBase
<1>4. PICK m : m = Len(list)
  OBVIOUS
<1>5. /\ m \in Nat \ {0} /\ partnum.lo \in 0 .. 255 /\ partnum.hi \in Nat /\ Sector \in Nat
  BY <1>3, <1>4, ListIs
<1>6. MaxNum \in 5 .. 127
  BY Bounds
<1>7. CASE m = 1
  <2>1. partnum.lo = 255
    BY <1>3, <1>4, <1>7 DEF Ordered
  <2>2. n.lo = 0 /\ n.hi = 0
    BY <1>1, <2>1
  <2>3. n \in [lo : 0 .. MaxNum, hi : Nat]
    BY <1>1, <1>6, <2>2
  <2>4. n.hi =< Len(list) /\ Len(list) = 1
    BY <1>4, <1>7, <2>2
  <2> QED
    BY <1>2, <1>5, <2>3, <2>4, AppendStep
<1>8. CASE m # 1
  <2>1. m > 1
    BY <1>5, <1>8
  <2>2. partnum.lo \in 0 .. MaxNum
    BY <1>3, <1>4, <2>1 DEF Ordered
  <2>3. (partnum.lo + 1) % 256 = partnum.lo + 1 /\ partnum.lo + 1 \in 0 .. MaxNum
    BY <1>2, <1>6, <2>2
  <2>4. n.lo = partnum.lo + 1 /\ n.hi = 0
    BY <1>1, <2>3
  <2>5. n \in [lo : 0 .. MaxNum, hi : Nat]
    BY <1>1, <2>3
  <2>6. Before(partnum, n)
    BY <1>5, <2>4 DEF Before
  <2>7. n.hi =< Len(list)
    BY <1>4, <1>5, <2>4
  <2> QED
    BY <1>2, <1>5, <2>5, <2>6, <2>7, AppendStep
<1> QED
  BY <1>7, <1>8

\* A link is an entry of a table behind the first one: there is an entry before it.
LEMMA BehindFirst ==
    ASSUME ListBase, ~IsGpt(disk[0]), Sector # 0
    PROVE  at \in 2 .. Len(list) /\ Len(list) > 1 /\ IsExt(list[at]) /\ LinkBase \in Nat
<1>1. ListTypes /\ OnMbr /\ at # 1
  BY MbrTable DEF ListBase
<1>2. PICK m : m = Len(list)
  OBVIOUS
<1>3. m \in Nat \ {0} /\ at \in 1 .. m /\ Sector \in Nat /\ list[at].base \in Nat
  BY <1>1, <1>2, ListIs
<1>4. at \in 2 .. m /\ m > 1
  BY <1>1, <1>3
<1> QED
  BY <1>1, <1>2, <1>3, <1>4 DEF OnMbr, LinkBase

LEMMA CopyLinkStep ==
    ASSUME ListBase, ~IsGpt(disk[0]), CopyLink
    PROVE  ListBase'
<1>1. PICK n : n = [partnum EXCEPT !.hi = partnum.hi + 1]
  OBVIOUS
<1>2. /\ lpc = "copy" /\ IsExt(ListTable[slot]) /\ Sector # 0
      /\ Append1(ListTable[slot], n, LinkBase)
  BY <1>1 DEF CopyLink, IsLink
<1>3. ListTypes /\ Ordered /\ partnum.hi < Len(list)
  BY DEF ListBase, ListTypes
<1>4. Len(list) > 1 /\ LinkBase \in Nat
  BY <1>2, BehindFirst
<1>5. /\ partnum.hi \in Nat /\ partnum = [lo |-> partnum.lo, hi |-> partnum.hi] /\ Len(list) \in Nat
  BY <1>3, ListIs
<1>6. partnum.lo \in 0 .. MaxNum
  BY <1>3, <1>4 DEF Ordered
<1>7. n = [lo |-> partnum.lo, hi |-> partnum.hi + 1]
  BY <1>1, <1>5
<1>8. n \in [lo : 0 .. MaxNum, hi : Nat] /\ n.hi = partnum.hi + 1 /\ n.lo = partnum.lo
  BY <1>5, <1>6, <1>7
<1>9. Before(partnum, n)
  BY <1>5, <1>8 DEF Before
<1>10. n.hi =< Len(list)
  BY <1>3, <1>5, <1>8
<1>11. ListTable[slot] # Free
  BY <1>2 DEF IsExt, Free
<1> QED
  BY <1>2, <1>4, <1>8, <1>9, <1>10, <1>11, AppendStep

LEMMA SkipFreeStep ==
    ASSUME ListBase, ~IsGpt(disk[0]), SkipFree
    PROVE  ListBase'
<1>1. /\ lpc = "copy" /\ slot' = slot + 1 /\ UNCHANGED <<disk, list, at>>
      /\ lpc' = (IF slot = 3 THEN "next" ELSE "copy")
      /\ partnum' = IF partnum.lo > 3 THEN partnum ELSE [partnum EXCEPT !.lo = partnum.lo + 1]
  BY DEF SkipFree, AfterEntry
<1>2. /\ disk \in Disks /\ ListTypes /\ Ordered /\ OnMbr
  BY MbrTable DEF ListBase
<1>3. PICK m : m = Len(list)
  OBVIOUS
<1>4. /\ partnum.hi \in Nat /\ partnum.lo \in 0 .. 255 /\ m \in Nat \ {0}
      /\ partnum = [lo |-> partnum.lo, hi |-> partnum.hi]
      /\ \A k \in 1 .. m : list[k].lo \in 0 .. 255 /\ list[k].hi \in 0 .. 255
  BY <1>2, <1>3, ListIs
<1>5. slot \in Slots /\ Len(list) < Capacity
  BY <1>1, CopiedEntry
<1>6. MaxNum \in 5 .. 127
  BY Bounds
<1>7. /\ partnum' = [lo |-> partnum'.lo, hi |-> partnum.hi]
      /\ partnum'.lo = IF partnum.lo > 3 THEN partnum.lo ELSE partnum.lo + 1
  BY <1>1, <1>4
<1>8. ListTypes'
  <2>1. partnum' \in [lo : 0 .. 255, hi : Nat] /\ partnum'.hi = partnum.hi
    BY <1>4, <1>7
  <2>2. slot' \in Nat /\ lpc' \in {"read", "copy", "gpt", "next", "done"}
    BY <1>1, <1>5 DEF Slots
  <2> QED
    BY <1>1, <1>2, <1>5, <2>1, <2>2 DEF ListTypes
<1>9. Ordered'
  <2>1. m = 1 => partnum' = [lo |-> 255, hi |-> 0]
    <3>1. m = 1 => partnum.lo = 255 /\ partnum = [lo |-> 255, hi |-> 0]
      BY <1>2, <1>3 DEF Ordered
    <3> QED
      BY <1>1, <3>1
  <2>2. m > 1 => partnum'.lo \in 0 .. MaxNum
    <3>1. m > 1 => partnum.lo \in 0 .. MaxNum
      BY <1>2, <1>3 DEF Ordered
    <3>2. PICK a : a = partnum.lo
      OBVIOUS
    <3>3. PICK b : b = partnum'.lo
      OBVIOUS
    <3>4. a \in 0 .. 255 /\ b = IF a > 3 THEN a ELSE a + 1
      BY <1>4, <1>7, <3>2, <3>3, Zenon
    <3>5. m > 1 => a \in 0 .. MaxNum
      BY <3>1, <3>2
    <3>6. m > 1 => b \in 0 .. MaxNum
      BY <1>6, <3>4, <3>5
    <3> QED
      BY <3>3, <3>6
  <2>3. ASSUME NEW k \in 2 .. m PROVE ~Before(partnum', list[k])
    <3>1. k \in 1 .. m
      BY <1>4
    <3>2. ~Before(partnum, list[k])
      BY <1>2, <1>3 DEF Ordered
    <3>3. PICK a : a = list[k].lo
      OBVIOUS
    <3>4. PICK b : b = list[k].hi
      OBVIOUS
    <3>5. a \in Int /\ b \in Int
      <4>1. a \in 0 .. 255 /\ b \in 0 .. 255
        BY <1>4, <3>1, <3>3, <3>4
      <4> QED
        BY <4>1
    <3>6. ~(partnum.lo < a \/ (partnum.lo = a /\ partnum.hi < b))
      BY <3>2, <3>3, <3>4 DEF Before
    <3>7. ~(partnum'.lo < a \/ (partnum'.lo = a /\ partnum.hi < b))
      BY <1>4, <1>7, <3>5, <3>6
    <3>8. partnum'.hi = partnum.hi
      BY <1>7
    <3> QED
      BY <3>3, <3>4, <3>7, <3>8 DEF Before
  <2>4. /\ \A k \in 2 .. m : list[k].lo \in 0 .. MaxNum
        /\ \A k \in 2 .. m : \A j \in 2 .. k - 1 : Before(list[j], list[k])
    BY <1>2, <1>3 DEF Ordered
  <2> QED
    BY <1>1, <1>3, <2>1, <2>2, <2>3, <2>4 DEF Ordered, Before
<1>10. OnMbr'
  <2>1. Sector' = Sector
    BY <1>1 DEF Sector
  <2>2. ListTable' = ListTable
    BY <1>1, <2>1 DEF ListTable
  <2>3. lpc' = "copy" => slot' \in Slots
    BY <1>1, <1>5 DEF Slots
  <2> QED
    BY <1>1, <1>2, <2>1, <2>2, <2>3 DEF OnMbr, IsValid
<1> QED
  BY <1>1, <1>2, <1>8, <1>9, <1>10 DEF ListBase, IsGpt

\* Steps that leave the list and its counter alone.
LEMMA OrderedStays ==
    ASSUME Ordered, list' = list, partnum' = partnum
    PROVE  Ordered'
  BY DEF Ordered, Before

LEMMA DoneStep ==
    ASSUME ListBase, Done
    PROVE  ListBase'
<1>1. lpc' = "done" /\ UNCHANGED <<disk, list, at, partnum, slot>>
  BY DEF Done
<1>2. disk \in Disks /\ ListTypes /\ Ordered
  BY DEF ListBase
<1>3. ListTypes'
  BY <1>1, <1>2 DEF ListTypes
<1>4. Ordered'
  BY <1>1, <1>2, OrderedStays
<1>5. IsGpt(disk[0]) => OnGpt'
  BY <1>1 DEF ListBase, OnGpt
<1>6. ~IsGpt(disk[0]) => OnMbr'
  BY <1>1 DEF ListBase, OnMbr
<1> QED
  BY <1>1, <1>2, <1>3, <1>4, <1>5, <1>6 DEF ListBase, IsGpt

LEMMA ReadTableStep ==
    ASSUME ListBase, ReadTable
    PROVE  ListBase'
<1>1. /\ lpc = "read" /\ Sector \in DOMAIN disk /\ (IsGpt(ListTable) \/ IsValid(ListTable))
      /\ lpc' = (IF IsGpt(ListTable) THEN "gpt" ELSE "copy") /\ slot' = 0
      /\ UNCHANGED <<disk, list, at, partnum>>
  BY DEF ReadTable
<1>2. disk \in Disks /\ ListTypes /\ Ordered
  BY DEF ListBase
<1>3. ListTypes'
  <2>1. Len(list) < Capacity
    BY <1>1, <1>2 DEF ListTypes
  <2>2. lpc' \in {"read", "copy", "gpt", "next", "done"} /\ slot' \in Nat
    BY <1>1
  <2> QED
    BY <1>1, <1>2, <2>1, <2>2 DEF ListTypes
<1>4. Ordered'
  BY <1>1, <1>2, OrderedStays
<1>5. Sector' = Sector
  BY <1>1 DEF Sector
<1>6. ListTable' = ListTable
  BY <1>1, <1>5 DEF ListTable
<1>7. ASSUME IsGpt(disk[0]) PROVE OnGpt'
  <2>1. OnGpt
    BY <1>7 DEF ListBase
  <2>2. Sector = 0
    BY <1>2, <2>1, ListIs DEF OnGpt
  <2>3. lpc' = "gpt"
    BY <1>1, <1>7, <2>2 DEF ListTable
  <2> QED
    BY <1>1, <2>1, <2>3 DEF OnGpt
<1>8. ASSUME ~IsGpt(disk[0]) PROVE OnMbr'
  <2>1. OnMbr /\ ~IsGpt(ListTable)
    BY <1>1, <1>8, MbrTable
  <2>2. lpc' = "copy" /\ 0 \in Slots
    BY <1>1, <2>1 DEF Slots
  <2> QED
    BY <1>1, <1>5, <1>6, <2>1, <2>2 DEF OnMbr, IsValid
<1> QED
  BY <1>1, <1>2, <1>3, <1>4, <1>7, <1>8 DEF ListBase, IsGpt

\* The first entry that is not expanded yet.
LEMMA NextUnexpanded ==
    ASSUME ListTypes, ExpandNext
    PROVE  at' \in Unexpanded /\ \A j \in Unexpanded : at' =< j
<1>1. Unexpanded \subseteq Nat
  BY ListIs DEF Unexpanded
<1>2. Unexpanded # {} /\ at' = CHOOSE k \in Unexpanded : \A j \in Unexpanded : k =< j
  BY DEF ExpandNext
<1>3. PICK k \in Unexpanded : \A j \in Unexpanded : k =< j
  BY <1>1, <1>2, LeastNumber
<1> QED
  BY <1>2, <1>3, Zenon

LEMMA ExpandNextStep ==
    ASSUME ListBase, ExpandNext
    PROVE  ListBase'
<1>1. /\ lpc = "next" /\ lpc' = "read" /\ UNCHANGED <<disk, list, partnum, slot>>
  BY DEF ExpandNext
<1>2. disk \in Disks /\ ListTypes /\ Ordered
  BY DEF ListBase
<1>3. ~IsGpt(disk[0]) /\ OnMbr
  BY <1>1 DEF ListBase, OnGpt
<1>4. at' \in DOMAIN list /\ IsExt(list[at'])
  BY <1>2, NextUnexpanded DEF Unexpanded
<1>5. ListTypes'
  BY <1>1, <1>2, <1>4 DEF ListTypes
<1>6. Ordered'
  BY <1>1, <1>2, OrderedStays
<1>7. OnMbr'
  BY <1>1, <1>3, <1>4 DEF OnMbr
<1> QED
  BY <1>1, <1>2, <1>3, <1>5, <1>6, <1>7 DEF ListBase, IsGpt

\* The entries of a GUID partition table, one of each four left out.
LEMMA GptIndexIs ==
    ASSUME NEW s \in Nat
    PROVE  (s \div 3) * 4 + (s % 3) + 1 \in Nat /\ (s \div 3) * 4 + (s % 3) + 1 >= s + 1
<1>1. PICK q : q = s \div 3
  OBVIOUS
<1>2. PICK r : r = s % 3
  OBVIOUS
<1>3. q \in Nat /\ r \in Nat /\ s = q * 3 + r
  BY <1>1, <1>2
<1>4. q * 4 = q * 3 + q /\ q * 3 \in Nat
  BY <1>3
<1> QED
  BY <1>1, <1>2, <1>3, <1>4

LEMMA CopyGptStep ==
    ASSUME ListBase, CopyGpt
    PROVE  ListBase'
<1>1. /\ lpc = "gpt" /\ 1 \in DOMAIN disk /\ GptIndex \in DOMAIN disk[1]
      /\ slot' = slot + 1 /\ UNCHANGED <<disk, at, lpc>>
      /\ partnum' = [partnum EXCEPT !.lo = (partnum.lo + 1) % 256]
  BY DEF CopyGpt
<1>2. disk \in Disks /\ ListTypes /\ Ordered
  BY DEF ListBase
<1>3. IsGpt(disk[0]) /\ OnGpt
  BY <1>1 DEF ListBase, OnMbr
<1>4. IsGptDisk(disk)
  BY <1>2, <1>3, DisksAssumption DEF IsMbrDisk, IsGpt
<1>5. PICK g : g = disk[1]
  OBVIOUS
<1>6. g \in Seq([first : Nat, last : Nat]) /\ Len(g) =< MaxNum + 1 /\ Len(g) < Capacity
  BY <1>1, <1>2, <1>4, <1>5, BoundsAssumption DEF IsGptDisk
<1>7. PICK x : x = GptIndex
  OBVIOUS
<1>8. PICK m : m = Len(list)
  OBVIOUS
<1>9. /\ m \in Nat \ {0} /\ partnum.lo \in 0 .. 255 /\ partnum.hi \in Nat /\ slot \in Nat
      /\ partnum = [lo |-> partnum.lo, hi |-> partnum.hi] /\ list \in Seq(ListEntry)
      /\ at \in 1 .. m /\ list[1] = DriveEntry
  BY <1>2, <1>8, ListIs DEF ListTypes
<1>10. x \in Nat /\ x >= slot + 1 /\ x \in 1 .. Len(g) /\ Len(g) \in Nat
  <2>1. x \in DOMAIN g
    BY <1>1, <1>5, <1>7
  <2>2. x \in Nat /\ x >= slot + 1
    BY <1>7, <1>9, GptIndexIs DEF GptIndex
  <2> QED
    BY <1>6, <2>1, <2>2
<1>11. /\ slot =< MaxNum /\ slot + 1 < Capacity /\ slot \in 0 .. MaxNum
       /\ m = slot + 1 /\ partnum.hi = 0
       /\ partnum.lo = IF slot = 0 THEN 255 ELSE slot - 1
  <2>1. slot + 1 =< Len(g)
    BY <1>9, <1>10
  <2>2. slot =< MaxNum /\ slot + 1 < Capacity /\ slot \in 0 .. MaxNum
    <3>1. PICK l : l = Len(g)
      OBVIOUS
    <3>2. l \in Nat /\ l =< MaxNum + 1 /\ l < Capacity /\ slot + 1 =< l
      BY <1>6, <1>10, <2>1, <3>1
    <3>3. MaxNum \in Int /\ Capacity \in Int
      BY Bounds
    <3> QED
      BY <1>9, <3>2, <3>3
  <2> QED
    BY <1>3, <1>8, <2>2 DEF OnGpt
<1>12. (partnum.lo + 1) % 256 = slot
  <2>1. CASE slot = 0
    BY <1>11, <2>1
  <2>2. CASE slot # 0
    <3>1. partnum.lo + 1 = slot /\ slot \in 0 .. 255
      <4>1. slot \in 0 .. 255
        BY <1>11, InBounds
      <4> QED
        BY <1>9, <1>11, <2>2, <4>1
    <3> QED
      BY <3>1
  <2> QED
    BY <2>1, <2>2
<1>13. partnum' = [lo |-> slot, hi |-> 0]
  BY <1>1, <1>9, <1>11, <1>12
<1>14. g[x].first \in Nat /\ g[x].last \in Nat
  <2>1. g[x] \in [first : Nat, last : Nat]
    BY <1>6, <1>10, ElementOfSeq
  <2> QED
    BY <2>1
<1>15. PICK e : e = [lo |-> slot, hi |-> 0, type |-> "data",
                     start |-> g[x].first, len |-> g[x].last - g[x].first, base |-> 0]
  OBVIOUS
<1>16. list' = Append(list, e)
  <2>1. list' = Append(list, [lo |-> (partnum.lo + 1) % 256, hi |-> partnum.hi, type |-> "data",
                              start |-> disk[1][GptIndex].first,
                              len |-> disk[1][GptIndex].last - disk[1][GptIndex].first, base |-> 0])
    BY DEF CopyGpt
  <2>2. partnum.hi = 0 /\ (partnum.lo + 1) % 256 = slot /\ GptIndex = x /\ disk[1] = g
    BY <1>5, <1>7, <1>11, <1>12
  <2> QED
    BY <1>15, <2>1, <2>2, Zenon
<1>17. e \in ListEntry
  <2>1. slot \in 0 .. 255 /\ 0 \in 0 .. 255
    BY <1>11, InBounds
  <2>2. g[x].last - g[x].first \in Int
    BY <1>14
  <2> QED
    BY <1>14, <1>15, <2>1, <2>2 DEF ListEntry
<1>18. /\ list' \in Seq(ListEntry) /\ Len(list') = m + 1
       /\ \A k \in 1 .. m : list'[k] = list[k]
  BY <1>8, <1>9, <1>16, <1>17, AppendProperties
<1>19. ListTypes'
  <2>1. at' \in DOMAIN list' /\ list'[1] = DriveEntry
    BY <1>1, <1>9, <1>18
  <2>2. partnum' \in [lo : 0 .. 255, hi : Nat] /\ partnum'.hi < Len(list')
    <3>1. slot \in 0 .. 255
      BY <1>11, InBounds
    <3> QED
      BY <1>9, <1>13, <1>18, <3>1
  <2>3. Len(list') =< Capacity
    BY <1>11, <1>18, Bounds
  <2>4. slot' \in Nat /\ lpc' = "gpt"
    BY <1>1, <1>9
  <2> QED
    BY <1>18, <2>1, <2>2, <2>3, <2>4 DEF ListTypes
<1>20. Ordered'
  <2>1. e.lo = partnum'.lo /\ e.hi = partnum'.hi /\ partnum' \in [lo : 0 .. MaxNum, hi : Nat]
    BY <1>11, <1>13, <1>15
  <2>2. Len(list) = 1 \/ Before(partnum, partnum')
    BY <1>8, <1>9, <1>11, <1>13 DEF Before
  <2> QED
    BY <1>2, <1>16, <1>17, <2>1, <2>2, OrderedAppend
<1>21. OnGpt'
  <2>1. slot' # 0 /\ slot' - 1 = slot
    BY <1>1, <1>9
  <2> QED
    BY <1>1, <1>3, <1>11, <1>13, <1>18, <2>1 DEF OnGpt
<1> QED
  BY <1>1, <1>2, <1>3, <1>19, <1>20, <1>21 DEF ListBase, IsGpt

LEMMA BaseRest ==
    ASSUME ListBase, UNCHANGED <<disk, lvars>>
    PROVE  ListBase'
<1>1. UNCHANGED <<disk, list, at, partnum, slot, lpc>>
  BY DEF lvars
<1>2. disk \in Disks /\ ListTypes /\ Ordered
  BY DEF ListBase
<1>3. Sector' = Sector /\ ListTable' = ListTable
  BY <1>1 DEF Sector, ListTable
<1>4. ListTypes' /\ Ordered'
  BY <1>1, <1>2, OrderedStays DEF ListTypes
<1>5. IsGpt(disk[0]) => OnGpt'
  BY <1>1 DEF ListBase, OnGpt
<1>6. ~IsGpt(disk[0]) => OnMbr'
  BY <1>1, <1>3 DEF ListBase, OnMbr, IsValid
<1> QED
  BY <1>1, <1>2, <1>4, <1>5, <1>6 DEF ListBase, IsGpt

LEMMA BaseSteps ==
    ASSUME ListBase, [WalksNext]_walkvars
    PROVE  ListBase'
<1>1. CASE UNCHANGED walkvars
  BY <1>1, BaseRest DEF walkvars
<1>2. CASE Install \/ Jump
  <2>1. UNCHANGED <<disk, lvars>>
    BY <1>2 DEF Install, Jump, Enumerate, JumpTo, Turn, Stops, JumpPrimary, NextPrimary, EnterChain,
                NextInChain, NoChainTable, FollowFirst, SkipTable, TakeLogical, Read
  <2> QED
    BY <2>1, BaseRest
<1>3. CASE ListTurn
  <2>1. IsGpt(disk[0]) => lpc \notin {"copy", "next"}
    BY DEF ListBase, OnGpt
  <2>2. EndAtBadTable \/ EndAtMaxNum \/ EndOfEntries \/ EndOfGpt => Done
    BY DEF EndAtBadTable, EndAtMaxNum, EndOfEntries, EndOfGpt
  <2>3. CopyPartition \/ CopyLink \/ SkipFree => lpc = "copy"
    BY DEF CopyPartition, CopyLink, SkipFree
  <2> QED
    BY <1>3, <2>1, <2>2, <2>3, DoneStep, ReadTableStep, CopyPartitionStep, CopyLinkStep, SkipFreeStep,
       ExpandNextStep, CopyGptStep DEF ListTurn
<1> QED
  BY <1>1, <1>2, <1>3 DEF WalksNext, Boot

\* No number is given twice.
LEMMA BaseInv ==
    ASSUME ListBase
    PROVE  ListTypeOK /\ NumbersDistinct
<1>1. ListTypes /\ Ordered
  BY DEF ListBase
<1>2. PICK m : m = Len(list)
  OBVIOUS
<1>3. /\ m \in Nat \ {0} /\ DOMAIN list = 1 .. m
      /\ \A k \in 1 .. m : list[k].lo \in 0 .. 255 /\ list[k].hi \in 0 .. 255
  BY <1>1, <1>2, ListIs
<1>4. list[1].lo = 255 /\ list[1].hi = 0
  BY <1>1 DEF ListTypes, DriveEntry
<1>5. /\ \A k \in 2 .. m : list[k].lo \in 0 .. MaxNum
      /\ \A k \in 2 .. m : \A j \in 2 .. k - 1 : Before(list[j], list[k])
  BY <1>1, <1>2 DEF Ordered
<1>6. MaxNum \in 5 .. 127 /\ Capacity =< 256
  BY Bounds
<1>7. ListTypeOK
  <2>1. /\ Len(list) =< Capacity /\ at \in DOMAIN list /\ partnum.lo \in 0 .. 255
        /\ partnum.hi \in Nat /\ partnum.hi < Len(list)
        /\ slot \in Nat /\ lpc \in {"read", "copy", "gpt", "next", "done"}
    BY <1>1, ListIs DEF ListTypes
  <2>2. partnum.hi \in 0 .. 255
    <3>1. partnum.hi < Capacity
      BY <1>2, <1>3, <2>1, Bounds
    <3> QED
      BY <2>1, <3>1, InBounds, Zenon
  <2>3. ASSUME NEW k \in 1 .. m PROVE list[k].lo \in 0 .. MaxNum \union {255}
    <3>1. k = 1 \/ k \in 2 .. m
      BY <1>3
    <3> QED
      BY <1>4, <1>5, <3>1
  <2>4. \A k \in DOMAIN list : list[k].lo \in 0 .. MaxNum \union {255} /\ list[k].hi \in 0 .. 255
    <3>1. TAKE k \in DOMAIN list
    <3>2. k \in 1 .. m
      BY <1>3
    <3>3. list[k].lo \in 0 .. MaxNum \union {255}
      BY <2>3, <3>2
    <3>4. list[k].hi \in 0 .. 255
      BY <1>3, <3>2
    <3> QED
      BY <3>3, <3>4
  <2> QED
    BY <2>1, <2>2, <2>4 DEF ListTypeOK
<1>8. ASSUME NEW j \in 1 .. m, NEW k \in 1 .. m, j < k, list[j].lo = list[k].lo, list[j].hi = list[k].hi
      PROVE  FALSE
  <2>1. k \in 2 .. m
    BY <1>3, <1>8
  <2>2. CASE j = 1
    <3>1. list[k].lo \in 0 .. MaxNum /\ list[k].lo = 255
      BY <1>4, <1>5, <1>8, <2>1, <2>2
    <3> QED
      BY <1>6, <3>1
  <2>3. CASE j # 1
    <3>1. j \in 2 .. k - 1
      BY <1>3, <1>8, <2>3
    <3>2. Before(list[j], list[k])
      BY <1>5, <2>1, <3>1
    <3>3. PICK a : a = list[k].lo
      OBVIOUS
    <3>4. PICK b : b = list[k].hi
      OBVIOUS
    <3>5. a \in 0 .. 255 /\ b \in 0 .. 255
      BY <1>3, <3>3, <3>4
    <3>6. a < a \/ b < b
      BY <1>8, <3>2, <3>3, <3>4 DEF Before
    <3> QED
      BY <3>5, <3>6
  <2> QED
    BY <2>2, <2>3
<1>9. NumbersDistinct
  <2>1. SUFFICES ASSUME NEW j \in 1 .. m, NEW k \in 1 .. m, list[j].lo = list[k].lo,
                        list[j].hi = list[k].hi, j # k
                 PROVE  FALSE
    BY <1>3 DEF NumbersDistinct
  <2>2. j < k \/ k < j
    BY <1>3, <2>1
  <2> QED
    BY <1>8, <2>1, <2>2
<1> QED
  BY <1>7, <1>9

-----------------------------------------------------------------------------
(***************************************************************************)
(* The partitions in the list, in the order of the tables.                 *)
(***************************************************************************)

LEMMA RowsStay ==
    ASSUME disk' = disk
    PROVE  /\ PrimaryAt' = PrimaryAt /\ (Aligned' <=> Aligned) /\ (IsOrderly' <=> IsOrderly)
           /\ \A s : PrimaryRows(s)' = PrimaryRows(s)
           /\ \A h : LogicalRows(h)' = LogicalRows(h)
           /\ \A n : Given(n)' = Given(n)
<1>1. Path' = Path /\ LogicalAt' = LogicalAt /\ (IsCyclic <=> IsCyclic')
  BY DiskStays
<1>2. PrimaryAt' = PrimaryAt
  BY DEF PrimaryAt, IsExt
<1>3. Aligned' <=> Aligned
  BY <1>1 DEF Aligned
<1>4. IsOrderly' <=> IsOrderly
  BY <1>1 DEF IsOrderly, IsValid
<1>5. \A n : Given(n)' = Given(n)
  BY <1>3 DEF Given
<1>6. \A s : PrimaryRows(s)' = PrimaryRows(s)
  BY <1>2, <1>5 DEF PrimaryRows, PrimaryRow
<1>7. \A h : LogicalRows(h)' = LogicalRows(h)
  BY <1>1, <1>2, <1>5 DEF LogicalRows, LogicalRow
<1> QED
  BY <1>2, <1>3, <1>4, <1>5, <1>6, <1>7

LEMMA PrimaryFacts ==
    /\ PrimaryAt \subseteq Int /\ IsFiniteSet(PrimaryAt) /\ PrimaryAt \subseteq Slots
    /\ Cardinality(PrimaryAt) \in Nat
<1>1. PrimaryAt \in SUBSET (0 .. 3)
  BY DEF PrimaryAt, Slots
<1>2. IsFiniteSet(0 .. 3)
  <2>1. \A a, b \in Int : IsFiniteSet(a .. b)
    BY FS_Interval
  <2>2. 0 \in Int /\ 3 \in Int
    OBVIOUS
  <2> QED
    BY <2>1, <2>2, Zenon
<1>3. IsFiniteSet(PrimaryAt)
  BY <1>1, <1>2, FS_Subset
<1> QED
  BY <1>1, <1>3, FS_CardinalityType DEF Slots

\* The rows of the first table.
LEMMA PrimaryRowsStep ==
    ASSUME NEW s \in Nat
    PROVE  /\ s \in PrimaryAt => PrimaryRows(s + 1) = PrimaryRows(s) \union {PrimaryRow(s)}
           /\ s \notin PrimaryAt => PrimaryRows(s + 1) = PrimaryRows(s)
           /\ PrimaryRows(0) = {} /\ UpTo(PrimaryAt, 0 - 1) = 0
           /\ UpTo(PrimaryAt, s) = IF s \in PrimaryAt THEN UpTo(PrimaryAt, s - 1) + 1
                                   ELSE UpTo(PrimaryAt, s - 1)
           /\ UpTo(PrimaryAt, s - 1) \in Nat
           /\ UpTo(PrimaryAt, 3) = Cardinality(PrimaryAt)
           /\ PrimaryRows(4) = {PrimaryRow(k) : k \in PrimaryAt}
<1>1. PrimaryAt \subseteq Int /\ IsFiniteSet(PrimaryAt) /\ PrimaryAt \subseteq Slots
  BY PrimaryFacts
<1>2. \A x \in PrimaryAt : x \in 0 .. 3
  BY <1>1 DEF Slots
<1>3. \A x \in PrimaryAt : x < s + 1 <=> x < s \/ x = s
  BY <1>2
<1>4. ASSUME s \in PrimaryAt PROVE {x \in PrimaryAt : x < s + 1} = {x \in PrimaryAt : x < s} \union {s}
  BY <1>3, <1>4
<1>5. ASSUME s \notin PrimaryAt PROVE {x \in PrimaryAt : x < s + 1} = {x \in PrimaryAt : x < s}
  BY <1>3, <1>5
<1>6. PrimaryRows(0) = {}
  <2>1. \A x \in PrimaryAt : ~(x < 0)
    BY <1>2
  <2> QED
    BY <2>1 DEF PrimaryRows
<1>7. UpTo(PrimaryAt, 0 - 1) = 0
  <2>1. PICK a : a = 0 - 1
    OBVIOUS
  <2>2. a \in Int /\ \A x \in PrimaryAt : x > a
    BY <1>2, <2>1
  <2>3. UpTo(PrimaryAt, a) = 0
    BY <1>1, <2>2, UpToEnds
  <2> QED
    BY <2>1, <2>3
<1>8. UpTo(PrimaryAt, 3) = Cardinality(PrimaryAt)
  <2>1. PICK a : a = 3
    OBVIOUS
  <2>2. a \in Int /\ \A x \in PrimaryAt : x =< a
    BY <1>2, <2>1
  <2>3. UpTo(PrimaryAt, a) = Cardinality(PrimaryAt)
    BY <1>1, <2>2, UpToEnds
  <2> QED
    BY <2>1, <2>3
<1>9. {x \in PrimaryAt : x < 4} = PrimaryAt
  BY <1>2
<1>10. s \in PrimaryAt => PrimaryRows(s + 1) = PrimaryRows(s) \union {PrimaryRow(s)}
  BY <1>4, Zenon DEF PrimaryRows
<1>11. s \notin PrimaryAt => PrimaryRows(s + 1) = PrimaryRows(s)
  BY <1>5, Zenon DEF PrimaryRows
<1>12. UpTo(PrimaryAt, s) = IF s \in PrimaryAt THEN UpTo(PrimaryAt, s - 1) + 1
                            ELSE UpTo(PrimaryAt, s - 1)
  <2>1. s \in Int
    OBVIOUS
  <2> QED
    BY <1>1, <2>1, UpToStep
<1>13. UpTo(PrimaryAt, s - 1) \in Nat
  BY <1>1, UpToTyped
<1> QED
  BY <1>6, <1>7, <1>8, <1>9, <1>10, <1>11, <1>12, <1>13, Zenon DEF PrimaryRows

\* The rows of the chain.
LEMMA LogicalRowsStep ==
    ASSUME disk \in Disks
    PROVE  /\ \A h \in DOMAIN Path :
                 /\ h \in LogicalAt => LogicalRows(h) = LogicalRows(h - 1) \union {LogicalRow(h)}
                 /\ h \notin LogicalAt => LogicalRows(h) = LogicalRows(h - 1)
           /\ LogicalRows(0) = {}
           /\ LogicalRows(Len(Path)) = {LogicalRow(j) : j \in LogicalAt}
<1>1. LogicalAt \subseteq Int /\ LogicalAt \subseteq DOMAIN Path /\ \A j \in LogicalAt : j > 0 /\ j \in Int
  BY LogicalFacts
<1>2. ASSUME NEW h \in DOMAIN Path
      PROVE  /\ h \in LogicalAt => LogicalRows(h) = LogicalRows(h - 1) \union {LogicalRow(h)}
             /\ h \notin LogicalAt => LogicalRows(h) = LogicalRows(h - 1)
  <2>1. h \in Int
    <3>1. ExtSlots(disk[0]) # {}
      BY PathNone
    <3> QED
      BY <3>1, PathFacts
  <2>2. \A x \in LogicalAt : x =< h <=> x =< h - 1 \/ x = h
    BY <1>1, <2>1
  <2>3. ASSUME h \in LogicalAt PROVE {x \in LogicalAt : x =< h} = {x \in LogicalAt : x =< h - 1} \union {h}
    BY <2>1, <2>2, <2>3
  <2>4. ASSUME h \notin LogicalAt PROVE {x \in LogicalAt : x =< h} = {x \in LogicalAt : x =< h - 1}
    BY <2>2, <2>4
  <2> QED
    BY <2>3, <2>4, Zenon DEF LogicalRows
<1>3. LogicalRows(0) = {}
  <2>1. \A j \in LogicalAt : ~(j =< 0)
    BY <1>1
  <2> QED
    BY <2>1 DEF LogicalRows
<1>4. {x \in LogicalAt : x =< Len(Path)} = LogicalAt
  <2>1. CASE ExtSlots(disk[0]) = {}
    BY <2>1, PathNone
  <2>2. CASE ExtSlots(disk[0]) # {}
    <3>1. DOMAIN Path = 1 .. Len(Path) /\ Len(Path) \in Int
      BY <2>2, PathFacts
    <3>2. \A j \in LogicalAt : j =< Len(Path)
      BY <1>1, <3>1
    <3> QED
      BY <3>2
  <2> QED
    BY <2>1, <2>2
<1> QED
  BY <1>2, <1>3, <1>4, Zenon DEF LogicalRows

\* The entries of partitions.
LEMMA InListFacts ==
    ASSUME ListTypes
    PROVE  InList \subseteq Int /\ IsFiniteSet(InList) /\ Cardinality(InList) \in Nat
           /\ \A k \in InList : k \in 2 .. Len(list)
<1>1. Len(list) \in Nat /\ DOMAIN list = 1 .. Len(list)
  BY ListIs
<1>2. InList \in SUBSET (1 .. Len(list))
  BY <1>1 DEF InList
<1>3. IsFiniteSet(1 .. Len(list))
  BY <1>1, FS_Interval
<1>4. IsFiniteSet(InList)
  BY <1>2, <1>3, FS_Subset
<1>5. \A k \in InList : k \in 2 .. Len(list)
  BY <1>1 DEF InList
<1> QED
  BY <1>2, <1>4, <1>5, FS_CardinalityType

\* What one more entry does to them.
LEMMA RowsAppend ==
    ASSUME ListTypes, disk' = disk, at' = at, NEW e, list' \in Seq(ListEntry), Len(list') = Len(list) + 1,
           list'[Len(list) + 1] = e, \A k \in 1 .. Len(list) : list'[k] = list[k]
    PROVE  /\ IsExt(e) => /\ Rows' = Rows /\ Cardinality(InList') = Cardinality(InList)
                          /\ Unexpanded' = Unexpanded \union {Len(list) + 1}
           /\ ~IsExt(e) => /\ Rows' = Rows \union {<<Cardinality(InList) + 1, Given(e.lo), Where(e)>>}
                           /\ Cardinality(InList') = Cardinality(InList) + 1
                           /\ Unexpanded' = Unexpanded
<1>1. PICK m : m = Len(list)
  OBVIOUS
<1>2. /\ m \in Nat \ {0} /\ DOMAIN list = 1 .. m /\ at \in 1 .. m
      /\ DOMAIN list' = 1 .. m + 1 /\ list'[m + 1] = e /\ \A k \in 1 .. m : list'[k] = list[k]
  BY <1>1, ListIs
<1>3. /\ InList \subseteq Int /\ IsFiniteSet(InList) /\ Cardinality(InList) \in Nat
      /\ \A k \in InList : k \in 2 .. m
  BY <1>1, InListFacts
<1>4. \A n : Given(n)' = Given(n)
  BY RowsStay
<1>5. 1 .. m + 1 = (1 .. m) \union {m + 1} /\ m + 1 > 1 /\ m + 1 > at /\ m + 1 \notin 1 .. m
  BY <1>2
<1>6. /\ \A k \in 1 .. m : IsExt(list'[k]) <=> IsExt(list[k])
      /\ IsExt(list'[m + 1]) <=> IsExt(e)
  BY <1>2
<1>7. InList' = {k \in 1 .. m + 1 : k > 1 /\ ~IsExt(list'[k])}
  BY <1>2 DEF InList, IsExt
<1>8. InList = {k \in 1 .. m : k > 1 /\ ~IsExt(list[k])}
  BY <1>2 DEF InList
<1>9. Unexpanded' = {k \in 1 .. m + 1 : k > at /\ IsExt(list'[k])}
  BY <1>2 DEF Unexpanded, IsExt
<1>10. Unexpanded = {k \in 1 .. m : k > at /\ IsExt(list[k])}
  BY <1>2 DEF Unexpanded
<1>11. \A k \in InList : list'[k] = list[k]
  BY <1>2, <1>8
<1>12. CASE IsExt(e)
  <2>1. InList' = InList
    BY <1>5, <1>6, <1>7, <1>8, <1>12
  <2>2. Rows' = Rows
    BY <1>4, <1>11, <2>1 DEF Rows, RowOf, Where
  <2>3. Unexpanded' = Unexpanded \union {m + 1}
    BY <1>5, <1>6, <1>9, <1>10, <1>12
  <2> QED
    BY <1>1, <1>12, <2>1, <2>2, <2>3
<1>13. CASE ~IsExt(e)
  <2>1. InList' = InList \union {m + 1}
    BY <1>5, <1>6, <1>7, <1>8, <1>13
  <2>2. m + 1 \notin InList
    BY <1>3, <1>5
  <2>3. Cardinality(InList') = Cardinality(InList) + 1
    BY <1>3, <2>1, <2>2, FS_AddElement
  <2>4. ASSUME NEW k \in InList PROVE UpTo(InList', k) = UpTo(InList, k)
    <3>1. {x \in InList' : x =< k} = {x \in InList : x =< k}
      <4>1. ~(m + 1 =< k)
        BY <1>2, <1>3
      <4> QED
        BY <2>1, <4>1
    <3> QED
      BY <3>1, Zenon DEF UpTo
  <2>5. UpTo(InList', m + 1) = Cardinality(InList) + 1
    <3>1. PICK S : S = InList'
      OBVIOUS
    <3>2. S \subseteq Int /\ IsFiniteSet(S) /\ m + 1 \in Int
      BY <1>2, <1>3, <2>1, <3>1, FS_AddElement
    <3>3. \A x \in S : x =< m + 1
      BY <1>2, <1>3, <2>1, <3>1
    <3>4. UpTo(S, m + 1) = Cardinality(S)
      BY <3>2, <3>3, UpToEnds
    <3> QED
      BY <2>3, <3>1, <3>4
  <2>6. \A k \in InList : RowOf(k)' = RowOf(k)
    BY <1>4, <1>11, <2>4 DEF RowOf, Where
  <2>7. RowOf(m + 1)' = <<Cardinality(InList) + 1, Given(e.lo), Where(e)>>
    BY <1>2, <1>4, <2>5 DEF RowOf, Where
  <2>8. Rows' = Rows \union {<<Cardinality(InList) + 1, Given(e.lo), Where(e)>>}
    BY <2>1, <2>6, <2>7 DEF Rows, RowOf
  <2>9. Unexpanded' = Unexpanded
    BY <1>5, <1>6, <1>9, <1>10, <1>13
  <2> QED
    BY <1>13, <2>3, <2>8, <2>9
<1> QED
  BY <1>12, <1>13

-----------------------------------------------------------------------------
(***************************************************************************)
(* What is copied of a table.                                              *)
(***************************************************************************)

LEMMA LeadsStays ==
    ASSUME disk' = disk, NEW k, NEW h, list'[k] = list[k]
    PROVE  Leads(k, h)' <=> Leads(k, h)
  BY DiskStays DEF Leads, Where

\* One more entry of a table.
LEMMA SeenStep ==
    ASSUME NEW t, NEW s \in Slots
    PROVE  /\ IsExt(t[s]) => SeenLinks(t, s + 1) # {}
           /\ ~IsExt(t[s]) => SeenLinks(t, s + 1) = SeenLinks(t, s)
           /\ SeenLinks(t, 0) = {} /\ SeenLinks(t, 4) = ExtSlots(t)
           /\ SeenLinks(t, s) # {} => \E k \in Slots : k # s /\ IsExt(t[k])
<1>1. \A k \in Slots : k \in Int /\ k >= 0 /\ k < 4
  BY DEF Slots
<1>2. s < s + 1 /\ \A k \in Slots : k < s + 1 <=> k < s \/ k = s
  BY <1>1
<1>3. IsExt(t[s]) => s \in SeenLinks(t, s + 1)
  BY <1>2 DEF SeenLinks
<1>4. ~IsExt(t[s]) => SeenLinks(t, s + 1) = SeenLinks(t, s)
  BY <1>2 DEF SeenLinks
<1>5. \A k \in Slots : ~(k < 0) /\ k < 4 /\ (k < s => k # s)
  BY <1>1
<1> QED
  BY <1>3, <1>4, <1>5 DEF SeenLinks, ExtSlots

LEMMA AheadStep ==
    ASSUME disk' = disk, NEW t, NEW s \in Slots, NEW h, Ahead(SeenLinks(t, s), h),
           IsExt(t[s]) => /\ \A k \in Slots : IsExt(t[k]) => k = s
                          /\ \E m : Unexpanded' = Unexpanded \union {m} /\ Leads(m, h)',
           ~IsExt(t[s]) => /\ Unexpanded' = Unexpanded
                           /\ \A k \in Unexpanded : list'[k] = list[k]
    PROVE  Ahead(SeenLinks(t, s + 1), h)'
<1>0. PICK links : links = SeenLinks(t, s)
  OBVIOUS
<1>1. PICK links1 : links1 = SeenLinks(t, s + 1)
  OBVIOUS
<1>2. CASE IsExt(t[s])
  <2>1. links = {} /\ links1 # {}
    BY <1>0, <1>1, <1>2, SeenStep
  <2>2. Unexpanded = {}
    BY <1>0, <2>1 DEF Ahead
  <2>3. PICK m : Unexpanded' = {m} /\ Leads(m, h)'
    BY <1>2, <2>2
  <2> QED
    BY <1>1, <2>1, <2>3 DEF Ahead, SeenLinks, IsExt
<1>3. CASE ~IsExt(t[s])
  <2>1. links1 = links
    BY <1>0, <1>1, <1>3, SeenStep
  <2>2. \A k \in Unexpanded : Leads(k, h)' <=> Leads(k, h)
    BY <1>3, LeadsStays
  <2> QED
    BY <1>0, <1>1, <1>3, <2>1, <2>2 DEF Ahead, SeenLinks, IsExt
<1> QED
  BY <1>2, <1>3

\* What a copied entry adds.
LEMMA EntryCopied ==
    ASSUME ListTypes, ListTypes', NEW e, NEW n, NEW base, Append1(e, n, base)
    PROVE  /\ disk' = disk /\ at' = at /\ partnum' = n /\ slot' = slot + 1
           /\ lpc' = AfterEntry(Len(list') >= Capacity)
           /\ \A k \in DOMAIN list : list'[k] = list[k]
           /\ IsExt(e) => /\ Rows' = Rows /\ Cardinality(InList') = Cardinality(InList)
                          /\ \E m : /\ Unexpanded' = Unexpanded \union {m}
                                    /\ list'[m].base = base /\ Where(list'[m]) = base + e.at
           /\ ~IsExt(e) => /\ Rows' = Rows \union {<<Cardinality(InList) + 1, Given(n.lo), base + e.at>>}
                           /\ Cardinality(InList') = Cardinality(InList) + 1
                           /\ Unexpanded' = Unexpanded
<1>1. PICK x : x = [lo |-> n.lo, hi |-> n.hi, type |-> e.type, start |-> e.at, len |-> e.len, base |-> base]
  OBVIOUS
<1>2. PICK m : m = Len(list)
  OBVIOUS
<1>3. /\ list' = Append(list, x) /\ partnum' = n /\ slot' = slot + 1
      /\ lpc' = AfterEntry(m + 1 >= Capacity) /\ disk' = disk /\ at' = at
  BY <1>1, <1>2 DEF Append1
<1>4. list \in Seq(ListEntry) /\ DOMAIN list = 1 .. m /\ m \in Nat
  BY <1>2, ListIs
<1>5. list' \in Seq(ListEntry)
  BY DEF ListTypes
<1>6. Len(list') = m + 1 /\ list'[m + 1] = x /\ \A k \in 1 .. m : list'[k] = list[k]
  <2>1. PICK S : S = ListEntry \union {x}
    OBVIOUS
  <2>2. list \in Seq(S) /\ x \in S
    BY <1>4, <2>1, SeqMonotonic
  <2> QED
    BY <1>2, <1>3, <1>4, <2>2, AppendProperties
<1>7. /\ IsExt(x) <=> IsExt(e)
      /\ Where(x) = base + e.at /\ x.base = base /\ x.lo = n.lo
  BY <1>1 DEF IsExt, Where
<1>8. /\ IsExt(x) => /\ Rows' = Rows /\ Cardinality(InList') = Cardinality(InList)
                     /\ Unexpanded' = Unexpanded \union {m + 1}
      /\ ~IsExt(x) => /\ Rows' = Rows \union {<<Cardinality(InList) + 1, Given(x.lo), Where(x)>>}
                      /\ Cardinality(InList') = Cardinality(InList) + 1
                      /\ Unexpanded' = Unexpanded
  BY <1>2, <1>3, <1>5, <1>6, RowsAppend
<1> QED
  BY <1>3, <1>4, <1>6, <1>7, <1>8

\* One more entry of the first table.
LEMMA FirstGoesOn ==
    ASSUME NEW s \in Slots, InFirst(s), disk' = disk, at' = at,
           s \in PrimaryAt => /\ Rows' = Rows \union {PrimaryRow(s)}
                              /\ Cardinality(InList') = Cardinality(InList) + 1,
           s \notin PrimaryAt => Rows' = Rows /\ Cardinality(InList') = Cardinality(InList),
           Aligned => partnum'.lo = s, Ahead(SeenLinks(disk[0], s + 1), 0)'
    PROVE  InFirst(s + 1)'
<1>1. at = 1 /\ Rows = PrimaryRows(s) /\ Cardinality(InList) = UpTo(PrimaryAt, s - 1)
  BY DEF InFirst
<1>2. s \in Nat /\ (s + 1) - 1 = s /\ s + 1 > 0 /\ s + 1 # 0
  BY DEF Slots
<1>3. PrimaryRows(s + 1)' = PrimaryRows(s + 1) /\ PrimaryAt' = PrimaryAt /\ (Aligned' <=> Aligned)
  BY RowsStay
<1>4. /\ s \in PrimaryAt => PrimaryRows(s + 1) = PrimaryRows(s) \union {PrimaryRow(s)}
      /\ s \notin PrimaryAt => PrimaryRows(s + 1) = PrimaryRows(s)
      /\ UpTo(PrimaryAt, s) = IF s \in PrimaryAt THEN UpTo(PrimaryAt, s - 1) + 1
                              ELSE UpTo(PrimaryAt, s - 1)
  BY <1>2, PrimaryRowsStep
<1>5. Rows' = PrimaryRows(s + 1)
  BY <1>1, <1>4
<1>6. Cardinality(InList') = UpTo(PrimaryAt, s)
  BY <1>1, <1>4
<1>7. Aligned' /\ s + 1 > 0 => partnum'.lo = (s + 1) - 1
  BY <1>2, <1>3
<1>8. Cardinality(InList)' = UpTo(PrimaryAt, (s + 1) - 1)'
  BY <1>2, <1>3, <1>6
<1> QED
  BY <1>1, <1>2, <1>3, <1>5, <1>7, <1>8, Zenon DEF InFirst

LEMMA FirstIs ==
    ASSUME ListBase, ~IsGpt(disk[0]), IsOrderly, lpc = "copy", at = 1
    PROVE  /\ Sector = 0 /\ ListTable = disk[0] /\ disk[0] \in [Slots -> Entries] /\ slot \in Slots
           /\ disk \in Disks /\ ListTypes /\ Ordered /\ MaxNum \in 5 .. 127
           /\ \A j, k \in ExtSlots(disk[0]) : j = k
<1>1. disk \in Disks /\ ListTypes /\ Ordered
  BY DEF ListBase
<1> QED
  BY <1>1, ListIs, DiskFacts, CopiedEntry, Bounds DEF ListTable

LEMMA FirstCopy ==
    ASSUME ListBase, ListBase', ~IsGpt(disk[0]), IsOrderly, NEW s, slot = s, InFirst(s), CopyPartition
    PROVE  InFirst(s + 1)' /\ s \in Slots
<1>0. at = 1 /\ lpc = "copy"
  BY DEF InFirst, CopyPartition
<1>1. PICK t : t = disk[0]
  OBVIOUS
<1>2. /\ Sector = 0 /\ ListTable = t /\ t \in [Slots -> Entries] /\ s \in Slots
      /\ ListTypes /\ ListTypes' /\ Ordered /\ MaxNum \in 5 .. 127
      /\ \A j, k \in ExtSlots(t) : j = k
  BY <1>0, <1>1, FirstIs DEF ListBase
<1>3. PICK n : n = [lo |-> (partnum.lo + 1) % 256, hi |-> 0]
  OBVIOUS
<1>4. PICK e : e = t[s]
  OBVIOUS
<1>5. Append1(e, n, 0) /\ e # Free /\ partnum.lo # MaxNum
  BY <1>2, <1>3, <1>4 DEF CopyPartition
<1>6. e.at \in Nat
  BY <1>2, <1>4, EntryTyped
<1>7. /\ disk' = disk /\ at' = at /\ partnum' = n
      /\ \A k \in DOMAIN list : list'[k] = list[k]
      /\ IsExt(e) => /\ Rows' = Rows /\ Cardinality(InList') = Cardinality(InList)
                     /\ \E m : /\ Unexpanded' = Unexpanded \union {m}
                               /\ list'[m].base = 0 /\ Where(list'[m]) = 0 + e.at
      /\ ~IsExt(e) => /\ Rows' = Rows \union {<<Cardinality(InList) + 1, Given(n.lo), 0 + e.at>>}
                      /\ Cardinality(InList') = Cardinality(InList) + 1
                      /\ Unexpanded' = Unexpanded
  BY <1>2, <1>5, EntryCopied
<1>8. s \in PrimaryAt <=> ~IsExt(e)
  BY <1>1, <1>2, <1>4, <1>5 DEF PrimaryAt
<1>9. Aligned => n.lo = s
  <2>1. CASE s = 0
    <3>1. Len(list) = 1
      BY <2>1 DEF InFirst
    <3>2. partnum.lo = 255
      BY <1>2, <3>1 DEF Ordered
    <3> QED
      BY <1>3, <2>1, <3>2
  <2>2. CASE s # 0
    <3>1. s > 0 /\ s \in 1 .. 3
      BY <1>2, <2>2 DEF Slots
    <3>2. Aligned => partnum.lo = s - 1
      BY <3>1 DEF InFirst
    <3> QED
      BY <1>3, <3>1, <3>2
  <2> QED
    BY <2>1, <2>2
<1>10. s \in PrimaryAt => Rows' = Rows \union {PrimaryRow(s)} /\ Cardinality(InList') = Cardinality(InList) + 1
  <2>1. SUFFICES ASSUME s \in PrimaryAt
                 PROVE  <<Cardinality(InList) + 1, Given(n.lo), 0 + e.at>> = PrimaryRow(s)
    BY <1>7, <1>8
  <2>2. Given(n.lo) = Given(s)
    BY <1>9 DEF Given
  <2>3. Cardinality(InList) + 1 = UpTo(PrimaryAt, s)
    <3>1. s \in Nat
      BY <1>2 DEF Slots
    <3> QED
      BY <2>1, <3>1, PrimaryRowsStep DEF InFirst
  <2>4. 0 + e.at = disk[0][s].at
    BY <1>1, <1>4, <1>6
  <2> QED
    BY <2>2, <2>3, <2>4, Zenon DEF PrimaryRow
<1>11. s \notin PrimaryAt => Rows' = Rows /\ Cardinality(InList') = Cardinality(InList)
  BY <1>7, <1>8
<1>12. Ahead(SeenLinks(t, s + 1), 0)'
  <2>1. Ahead(SeenLinks(t, s), 0)
    BY <1>1 DEF InFirst
  <2>2. IsExt(t[s]) => \A k \in Slots : IsExt(t[k]) => k = s
    BY <1>2 DEF ExtSlots
  <2>3. ASSUME IsExt(t[s]) PROVE \E m : Unexpanded' = Unexpanded \union {m} /\ Leads(m, 0)'
    <3>1. PICK m : /\ Unexpanded' = Unexpanded \union {m}
                   /\ list'[m].base = 0 /\ Where(list'[m]) = 0 + e.at
      BY <1>4, <1>7, <2>3
    <3>2. ExtSlots(disk[0]) # {} /\ FirstExt(disk[0]) = s
      <4>1. s \in ExtSlots(t)
        BY <1>2, <2>3 DEF ExtSlots
      <4>2. FirstExt(t) \in ExtSlots(t)
        BY <4>1, FirstExtIs
      <4> QED
        BY <1>1, <1>2, <4>1, <4>2
    <3>3. 1 \in DOMAIN Path /\ Path[1] = e.at
      <4>1. disk \in Disks
        BY DEF ListBase
      <4>2. PICK c : c = Cardinality(DOMAIN disk)
        OBVIOUS
      <4>3. c \in Nat \ {0}
        BY <3>2, <4>1, <4>2, PathShape
      <4>4. PICK l : l = Len(Path)
        OBVIOUS
      <4>5. l \in 1 .. c /\ DOMAIN Path = 1 .. l /\ Path[1] = ExtStart
        BY <3>2, <4>1, <4>2, <4>4, PathFacts
      <4> QED
        BY <1>1, <1>4, <3>2, <4>3, <4>5 DEF ExtStart
    <3>4. Path' = Path
      BY <1>7, DiskStays
    <3>5. Leads(m, 0)'
      <4>1. 0 + 1 = 1 /\ 0 + e.at = e.at
        BY <1>6
      <4> QED
        BY <3>1, <3>3, <3>4, <4>1 DEF Leads, Where
    <3> QED
      BY <3>1, <3>5
  <2>4. ~IsExt(t[s]) => Unexpanded' = Unexpanded /\ \A k \in Unexpanded : list'[k] = list[k]
    BY <1>4, <1>7 DEF Unexpanded
  <2> QED
    BY <1>2, <1>7, <2>1, <2>2, <2>3, <2>4, AheadStep
<1>13. Ahead(SeenLinks(disk[0], s + 1), 0)'
  BY <1>1, <1>7, <1>12 DEF Ahead, SeenLinks, IsExt
<1>14. Aligned => partnum'.lo = s
  BY <1>7, <1>9
<1> QED
  BY <1>2, <1>7, <1>10, <1>11, <1>13, <1>14, FirstGoesOn

\* A free entry leaves the list as it is.
LEMMA FreeSkipped ==
    ASSUME SkipFree
    PROVE  /\ disk' = disk /\ at' = at /\ list' = list /\ slot' = slot + 1
           /\ Rows' = Rows /\ Cardinality(InList') = Cardinality(InList) /\ Unexpanded' = Unexpanded
           /\ ListTable[slot] = Free /\ lpc = "copy" /\ lpc' = AfterEntry(FALSE)
           /\ partnum' = IF partnum.lo > 3 THEN partnum ELSE [partnum EXCEPT !.lo = partnum.lo + 1]
<1>1. /\ disk' = disk /\ at' = at /\ list' = list /\ slot' = slot + 1
      /\ ListTable[slot] = Free /\ lpc = "copy" /\ lpc' = AfterEntry(FALSE)
      /\ partnum' = IF partnum.lo > 3 THEN partnum ELSE [partnum EXCEPT !.lo = partnum.lo + 1]
  BY DEF SkipFree
<1>2. InList' = InList
  BY <1>1 DEF InList, IsExt
<1>3. Unexpanded' = Unexpanded
  BY <1>1 DEF Unexpanded, IsExt
<1>4. \A n : Given(n)' = Given(n)
  BY <1>1, RowsStay
<1>5. Rows' = Rows
  BY <1>1, <1>2, <1>4 DEF Rows, RowOf, Where
<1> QED
  BY <1>1, <1>2, <1>3, <1>5

LEMMA FirstSkip ==
    ASSUME ListBase, ~IsGpt(disk[0]), IsOrderly, NEW s, slot = s, InFirst(s), SkipFree
    PROVE  InFirst(s + 1)' /\ s \in Slots
<1>0. at = 1 /\ lpc = "copy"
  BY FreeSkipped DEF InFirst
<1>1. PICK t : t = disk[0]
  OBVIOUS
<1>2. /\ ListTable = t /\ s \in Slots /\ ListTypes
  BY <1>0, <1>1, FirstIs DEF ListBase
<1>3. /\ disk' = disk /\ at' = at /\ list' = list
      /\ Rows' = Rows /\ Cardinality(InList') = Cardinality(InList) /\ Unexpanded' = Unexpanded
      /\ t[s] = Free
      /\ partnum' = IF partnum.lo > 3 THEN partnum ELSE [partnum EXCEPT !.lo = partnum.lo + 1]
  BY <1>2, FreeSkipped
<1>4. s \notin PrimaryAt /\ ~IsExt(t[s])
  BY <1>1, <1>3 DEF PrimaryAt, IsExt, Free
<1>5. Aligned => partnum'.lo = s
  <2>1. SUFFICES ASSUME Aligned PROVE partnum'.lo = s
    OBVIOUS
  <2>2. s # 0
    BY <1>1, <1>3, <2>1 DEF Aligned
  <2>3. s \in 1 .. 3
    BY <1>2, <2>2 DEF Slots
  <2>4. partnum.lo = s - 1
    BY <2>1, <2>3 DEF InFirst
  <2>5. partnum = [lo |-> partnum.lo, hi |-> partnum.hi]
    BY <1>2, ListIs
  <2>6. ~(partnum.lo > 3)
    BY <2>3, <2>4
  <2>7. partnum'.lo = partnum.lo + 1
    BY <1>3, <2>5, <2>6
  <2> QED
    BY <2>3, <2>4, <2>7
<1>6. Ahead(SeenLinks(t, s + 1), 0)'
  <2>1. Ahead(SeenLinks(t, s), 0)
    BY <1>1 DEF InFirst
  <2> QED
    BY <1>2, <1>3, <1>4, <2>1, AheadStep
<1>7. Ahead(SeenLinks(disk[0], s + 1), 0)'
  BY <1>1, <1>3, <1>6 DEF Ahead, SeenLinks, IsExt
<1> QED
  BY <1>2, <1>3, <1>4, <1>5, <1>7, FirstGoesOn

-----------------------------------------------------------------------------
(***************************************************************************)
(* The tables of the chain.                                                *)
(***************************************************************************)

\* Numbers agree only if the first table of the chain has a partition: then the counter
\* is above 3 behind it.
LEMMA FirstCounted ==
    ASSUME HasChain, Aligned, NEW h \in DOMAIN Path, Path[h] \in DOMAIN disk
    PROVE  1 \in LogicalAt /\ \A j \in Int : j >= 1 => UpTo(LogicalAt, j) > 0
<1>1. PICK n : n = Len(Path)
  OBVIOUS
<1>2. PICK c : c = Cardinality(DOMAIN disk)
  OBVIOUS
<1>3. n \in 1 .. c /\ DOMAIN Path = 1 .. n /\ \A x \in 1 .. n - 1 : Path[x] \in DOMAIN disk
  BY <1>1, <1>2, PathFacts DEF HasChain
<1>4. c \in Nat
  BY <1>2, PathShape DEF HasChain
<1>5. Path[1] \in DOMAIN disk
  <2>1. CASE h = 1
    BY <2>1
  <2>2. CASE h # 1
    BY <1>3, <1>4, <2>2
  <2> QED
    BY <2>1, <2>2
<1>6. Path # <<>>
  BY <1>1, <1>3, <1>4
<1>7. 1 \in LogicalAt
  BY <1>5, <1>6 DEF Aligned
<1>8. ASSUME NEW j \in Int, j >= 1 PROVE UpTo(LogicalAt, j) > 0
  <2>1. IsFiniteSet(LogicalAt)
    BY LogicalFacts DEF HasChain
  <2>2. PICK T : T = {x \in LogicalAt : x =< j}
    OBVIOUS
  <2>3. T \in SUBSET LogicalAt /\ 1 \in T
    BY <1>7, <1>8, <2>2
  <2>4. IsFiniteSet(T)
    BY <2>1, <2>3, FS_Subset
  <2>5. Cardinality(T) \in Nat /\ Cardinality(T) # 0
    BY <2>3, <2>4, FS_CardinalityType, FS_EmptySet
  <2> QED
    BY <2>2, <2>5 DEF UpTo
<1> QED
  BY <1>7, <1>8

\* One more entry of the h-th table.
LEMMA TableGoesOn ==
    ASSUME disk \in Disks, NEW h \in DOMAIN Path, NEW s \in Slots, InTable(h, s), disk' = disk, at' = at,
           list'[at] = list[at], Path[h] \in DOMAIN disk,
           s = 0 /\ h \in LogicalAt => /\ Rows' = Rows \union {LogicalRow(h)}
                                       /\ Cardinality(InList') = Cardinality(InList) + 1,
           s # 0 \/ h \notin LogicalAt => Rows' = Rows /\ Cardinality(InList') = Cardinality(InList),
           Aligned => partnum'.lo = 3 + UpTo(LogicalAt, h),
           Ahead(SeenLinks(ListTable, s + 1), h)'
    PROVE  InTable(h, s + 1)'
<1>1. PICK b : b = LastTable(h, s)
  OBVIOUS
<1>2. /\ at > 1 /\ Leads(at, h - 1)
      /\ Rows = PrimaryRows(4) \union LogicalRows(b)
      /\ Cardinality(InList) = Cardinality(PrimaryAt) + UpTo(LogicalAt, b)
  BY <1>1 DEF InTable
<1>3. h \in Int
  <2>1. LogicalAt \subseteq Int /\ ExtSlots(disk[0]) # {}
    BY LogicalFacts, PathNone
  <2> QED
    BY <2>1, PathFacts
<1>4. s + 1 # 0 /\ s + 1 > 0 /\ (s = 0 => b = h - 1) /\ (s # 0 => b = h)
  BY <1>1 DEF Slots, LastTable
<1>5. LastTable(h, s + 1) = h
  BY <1>4 DEF LastTable
<1>6. /\ PrimaryRows(4)' = PrimaryRows(4) /\ PrimaryAt' = PrimaryAt /\ (Aligned' <=> Aligned)
      /\ \A j : LogicalRows(j)' = LogicalRows(j)
  BY RowsStay
<1>7. /\ h \in LogicalAt => LogicalRows(h) = LogicalRows(h - 1) \union {LogicalRow(h)}
      /\ h \notin LogicalAt => LogicalRows(h) = LogicalRows(h - 1)
  BY LogicalRowsStep
<1>8. /\ UpTo(LogicalAt, h - 1) \in Nat
      /\ UpTo(LogicalAt, h) = IF h \in LogicalAt THEN UpTo(LogicalAt, h - 1) + 1
                              ELSE UpTo(LogicalAt, h - 1)
  BY <1>3, CountTo
<1>9. Cardinality(PrimaryAt) \in Nat
  BY PrimaryFacts
<1>10. Rows' = PrimaryRows(4) \union LogicalRows(h)
  BY <1>2, <1>4, <1>7
<1>11. Cardinality(InList') = Cardinality(PrimaryAt) + UpTo(LogicalAt, h)
  <2>1. PICK u : u = UpTo(LogicalAt, h - 1)
    OBVIOUS
  <2>2. PICK v : v = UpTo(LogicalAt, h)
    OBVIOUS
  <2>3. PICK p : p = Cardinality(PrimaryAt)
    OBVIOUS
  <2>4. CASE s = 0
    <3>1. Cardinality(InList) = p + u
      BY <1>2, <1>4, <2>1, <2>3, <2>4
    <3>2. u \in Nat /\ p \in Nat /\ v = IF h \in LogicalAt THEN u + 1 ELSE u
      BY <1>8, <1>9, <2>1, <2>2, <2>3
    <3>3. Cardinality(InList') = p + v
      BY <2>4, <3>1, <3>2
    <3> QED
      BY <2>2, <2>3, <3>3
  <2>5. CASE s # 0
    BY <1>2, <1>4, <2>5
  <2> QED
    BY <2>4, <2>5
<1>12. Path' = Path /\ LogicalAt' = LogicalAt
  BY DiskStays
<1>13. Leads(at, h - 1)'
  <2>1. PICK a : a = at
    OBVIOUS
  <2>2. list'[a] = list[a] /\ Leads(a, h - 1) /\ at' = a
    BY <1>2, <2>1
  <2>3. Leads(a, h - 1)'
    BY <2>2, LeadsStays
  <2> QED
    BY <2>2, <2>3 DEF Leads
<1>14. Cardinality(InList)' = Cardinality(PrimaryAt)' + UpTo(LogicalAt, h)'
  BY <1>6, <1>11, <1>12 DEF UpTo
<1> QED
  BY <1>2, <1>4, <1>5, <1>6, <1>10, <1>12, <1>13, <1>14, Zenon DEF InTable

\* The table that is copied.
LEMMA TableIs ==
    ASSUME ListBase, ~IsGpt(disk[0]), IsOrderly, NEW h \in DOMAIN Path, NEW s, InTable(h, s)
    PROVE  /\ HasChain /\ Sector = Path[h] /\ Sector # 0 /\ LinkBase = ExtStart /\ ExtStart \in Nat
           /\ ListTypes /\ Ordered /\ MaxNum \in 5 .. 127 /\ Len(list) > 1
           /\ at \in DOMAIN list /\ h \in Int
           /\ Path[h] \in DOMAIN disk => TableFacts(h, ListTable)
<1>1. ExtSlots(disk[0]) # {}
  BY PathNone
<1>2. disk \in Disks /\ ListTypes /\ Ordered
  BY DEF ListBase
<1>3. HasChain
  BY <1>1, <1>2, UsedStart DEF IsOrderly
<1>4. PICK n : n = Len(Path)
  OBVIOUS
<1>5. /\ DOMAIN Path = 1 .. n /\ Path[1] = ExtStart /\ ExtStart \in Nat
      /\ \A x \in 1 .. n : Path[x] > 0
  BY <1>1, <1>2, <1>3, <1>4, PathFacts, PathApart DEF HasChain
<1>6. h \in Int /\ (h - 1) + 1 = h
  BY <1>5
<1>7. /\ Where(list[at]) = Path[h]
      /\ list[at].base = IF h - 1 = 0 THEN 0 ELSE ExtStart
  BY <1>6 DEF InTable, Leads
<1>8. Sector = Path[h] /\ Sector # 0
  <2>1. Path[h] > 0
    BY <1>5
  <2> QED
    BY <1>7, <2>1 DEF Sector
<1>9. LinkBase = ExtStart
  <2>1. CASE h = 1
    BY <1>5, <1>7, <1>8, <2>1 DEF LinkBase
  <2>2. CASE h # 1
    BY <1>3, <1>6, <1>7, <2>2 DEF LinkBase, HasChain
  <2> QED
    BY <2>1, <2>2
<1>10. Len(list) > 1 /\ at \in DOMAIN list
  BY <1>2, <1>8, BehindFirst, ListIs
<1>11. Path[h] \in DOMAIN disk => TableFacts(h, ListTable)
  BY <1>3, <1>8, TableAt DEF ListTable
<1> QED
  BY <1>2, <1>3, <1>5, <1>6, <1>8, <1>9, <1>10, <1>11, Bounds

\* What is copied of the h-th table.
LEMMA TableEntry ==
    ASSUME ListBase, ~IsGpt(disk[0]), IsOrderly, NEW h \in DOMAIN Path, NEW s, slot = s, InTable(h, s),
           lpc = "copy"
    PROVE  /\ s \in Slots /\ Path[h] \in DOMAIN disk /\ TableFacts(h, ListTable)
           /\ ListTable[s].at \in Nat /\ disk \in Disks
           /\ h \in LogicalAt <=> ListTable[0].type = "data"
           /\ ListTable[s] # Free /\ ~IsExt(ListTable[s]) => s = 0 /\ h \in LogicalAt
           /\ IsExt(ListTable[s]) => /\ s = 0 => h \notin LogicalAt
                                     /\ \A k \in Slots : IsExt(ListTable[k]) => k = s
                                     /\ h + 1 \in DOMAIN Path
                                     /\ Path[h + 1] = ExtStart + ListTable[s].at
           /\ ListTable[s] = Free /\ s = 0 => h \notin LogicalAt
<1>1. /\ HasChain /\ Sector = Path[h] /\ (Path[h] \in DOMAIN disk => TableFacts(h, ListTable))
  BY TableIs
<1>2. slot \in Slots /\ Sector \in DOMAIN disk /\ disk \in Disks
  BY CopiedEntry DEF ListBase
<1>3. PICK t : t = ListTable
  OBVIOUS
<1>4. TableFacts(h, t)
  BY <1>1, <1>2, <1>3
<1>5. IsChainTable(t)
  BY <1>4 DEF TableFacts
<1>6. /\ \A k \in Slots : t[k].at \in Nat /\ t[k].len \in Nat
      /\ t[0].type \in {"none", "data", "ext"}
      /\ t[0].type = "none" <=> t[0] = Free
      /\ IsExt(t[0]) => t[1] = Free
      /\ ~IsExt(t[1]) => t[1] = Free
      /\ t[2] = Free /\ t[3] = Free
  BY <1>5, ChainTableFacts
<1>7. ~IsExt(Free)
  BY DEF IsExt, Free
<1>8. s = 0 \/ s = 1 \/ s = 2 \/ s = 3
  BY <1>2 DEF Slots
<1>9. \A k \in Slots : k = 0 \/ k = 1 \/ k = 2 \/ k = 3
  BY DEF Slots
<1>10. h \in LogicalAt <=> t[0].type = "data"
  BY <1>4 DEF TableFacts
<1>11. t[s] # Free /\ ~IsExt(t[s]) => s = 0 /\ h \in LogicalAt
  BY <1>6, <1>8, <1>10 DEF IsExt
<1>12. ASSUME IsExt(t[s])
       PROVE  /\ s = 0 => h \notin LogicalAt
              /\ \A k \in Slots : IsExt(t[k]) => k = s
              /\ h + 1 \in DOMAIN Path
              /\ Path[h + 1] = ExtStart + t[s].at
  <2>1. s = 0 \/ s = 1
    BY <1>6, <1>7, <1>8, <1>12
  <2>2. \A k \in Slots : IsExt(t[k]) => k = s
    BY <1>6, <1>7, <1>9, <1>12, <2>1
  <2>3. h + 1 \in DOMAIN Path /\ Path[h + 1] = ExtStart + t[s].at
    BY <1>4, <1>12, <2>1 DEF TableFacts
  <2>4. s = 0 => h \notin LogicalAt
    BY <1>10, <1>12 DEF IsExt
  <2> QED
    BY <2>2, <2>3, <2>4
<1>13. t[s] = Free /\ s = 0 => h \notin LogicalAt
  BY <1>10 DEF Free
<1> QED
  BY <1>1, <1>2, <1>3, <1>4, <1>6, <1>10, <1>11, <1>12, <1>13

LEMMA TableCopy ==
    ASSUME ListBase, ListBase', ~IsGpt(disk[0]), IsOrderly, NEW h \in DOMAIN Path, NEW s, slot = s,
           InTable(h, s), CopyPartition
    PROVE  InTable(h, s + 1)' /\ s \in Slots
<1>0. lpc = "copy"
  BY DEF CopyPartition
<1>1. PICK t : t = ListTable
  OBVIOUS
<1>2. /\ HasChain /\ Sector = Path[h] /\ Sector # 0
      /\ ListTypes /\ ListTypes' /\ Ordered /\ MaxNum \in 5 .. 127 /\ Len(list) > 1
      /\ at \in DOMAIN list /\ h \in Int
  BY TableIs DEF ListBase
<1>3. PICK n : n = [lo |-> (partnum.lo + 1) % 256, hi |-> 0]
  OBVIOUS
<1>4. PICK e : e = t[s]
  OBVIOUS
<1>5. Append1(e, n, Sector) /\ e # Free /\ partnum.lo # MaxNum /\ ~IsExt(e)
  BY <1>1, <1>2, <1>3, <1>4 DEF CopyPartition, IsLink
<1>6. /\ s = 0 /\ h \in LogicalAt /\ s \in Slots /\ Path[h] \in DOMAIN disk /\ disk \in Disks
      /\ e.at \in Nat
  BY <1>0, <1>1, <1>4, <1>5, TableEntry
<1>7. PICK b : b = Sector
  OBVIOUS
<1>8. Append1(e, n, b)
  BY <1>5, <1>7
<1>9. /\ disk' = disk /\ at' = at /\ partnum' = n
      /\ \A k \in DOMAIN list : list'[k] = list[k]
      /\ ~IsExt(e) => /\ Rows' = Rows \union {<<Cardinality(InList) + 1, Given(n.lo), b + e.at>>}
                      /\ Cardinality(InList') = Cardinality(InList) + 1
                      /\ Unexpanded' = Unexpanded
  BY <1>2, <1>8, EntryCopied
<1>10. PICK u : u = UpTo(LogicalAt, h - 1)
  OBVIOUS
<1>11. u \in Nat /\ UpTo(LogicalAt, h) = u + 1
  BY <1>2, <1>6, <1>10, CountTo
<1>12. /\ Cardinality(InList) = Cardinality(PrimaryAt) + u
       /\ Aligned => partnum.lo = 3 + u
  BY <1>6, <1>10 DEF InTable, LastTable
<1>13. n.lo = partnum.lo + 1
  <2>1. partnum.lo \in 0 .. MaxNum
    BY <1>2 DEF Ordered
  <2> QED
    BY <1>2, <1>3, <2>1
<1>14. Aligned => n.lo = 3 + UpTo(LogicalAt, h)
  BY <1>11, <1>12, <1>13
<1>15. <<Cardinality(InList) + 1, Given(n.lo), b + e.at>> = LogicalRow(h)
  <2>1. Given(n.lo) = Given(3 + UpTo(LogicalAt, h))
    BY <1>14 DEF Given
  <2>2. Cardinality(InList) + 1 = Cardinality(PrimaryAt) + UpTo(LogicalAt, h)
    BY <1>11, <1>12, PrimaryFacts
  <2>3. b + e.at = Path[h] + disk[Path[h]][0].at
    BY <1>1, <1>2, <1>4, <1>6, <1>7 DEF ListTable
  <2> QED
    BY <2>1, <2>2, <2>3, Zenon DEF LogicalRow
<1>16. Rows' = Rows \union {LogicalRow(h)} /\ Cardinality(InList') = Cardinality(InList) + 1
  BY <1>5, <1>9, <1>15
<1>17. Ahead(SeenLinks(t, s + 1), h)'
  <2>1. Ahead(SeenLinks(t, s), h)
    BY <1>1 DEF InTable
  <2>2. Unexpanded' = Unexpanded /\ \A k \in Unexpanded : list'[k] = list[k]
    BY <1>5, <1>9 DEF Unexpanded
  <2> QED
    BY <1>4, <1>5, <1>6, <1>9, <2>1, <2>2, AheadStep
<1>18. ListTable' = t
  BY <1>1, <1>2, <1>9 DEF ListTable, Sector, Where
<1>19. Ahead(SeenLinks(ListTable, s + 1), h)'
  BY <1>17, <1>18 DEF Ahead, SeenLinks, IsExt
<1>20. Aligned => partnum'.lo = 3 + UpTo(LogicalAt, h)
  BY <1>9, <1>14
<1>21. list'[at] = list[at]
  BY <1>2, <1>9
<1> QED
  BY <1>6, <1>9, <1>16, <1>19, <1>20, <1>21, TableGoesOn

LEMMA TableLink ==
    ASSUME ListBase, ListBase', ~IsGpt(disk[0]), IsOrderly, NEW h \in DOMAIN Path, NEW s, slot = s,
           InTable(h, s), CopyLink
    PROVE  InTable(h, s + 1)' /\ s \in Slots
<1>0. lpc = "copy"
  BY DEF CopyLink
<1>1. PICK t : t = ListTable
  OBVIOUS
<1>2. /\ HasChain /\ LinkBase = ExtStart /\ ExtStart \in Nat
      /\ ListTypes /\ ListTypes' /\ at \in DOMAIN list /\ h \in Int
  BY TableIs DEF ListBase
<1>3. PICK n : n = [partnum EXCEPT !.hi = partnum.hi + 1]
  OBVIOUS
<1>4. PICK e : e = t[s]
  OBVIOUS
<1>5. PICK b : b = ExtStart
  OBVIOUS
<1>6. Append1(e, n, b) /\ IsExt(e)
  BY <1>1, <1>2, <1>3, <1>4, <1>5 DEF CopyLink, IsLink
<1>7. /\ s \in Slots /\ Path[h] \in DOMAIN disk /\ disk \in Disks
      /\ s = 0 => h \notin LogicalAt
      /\ \A k \in Slots : IsExt(t[k]) => k = s
      /\ h + 1 \in DOMAIN Path /\ Path[h + 1] = b + e.at
  BY <1>0, <1>1, <1>4, <1>5, <1>6, TableEntry
<1>8. /\ disk' = disk /\ at' = at /\ partnum' = n
      /\ \A k \in DOMAIN list : list'[k] = list[k]
      /\ IsExt(e) => /\ Rows' = Rows /\ Cardinality(InList') = Cardinality(InList)
                     /\ \E m : /\ Unexpanded' = Unexpanded \union {m}
                               /\ list'[m].base = b /\ Where(list'[m]) = b + e.at
  BY <1>2, <1>6, EntryCopied
<1>9. n.lo = partnum.lo
  <2>1. partnum = [lo |-> partnum.lo, hi |-> partnum.hi]
    BY <1>2, ListIs
  <2> QED
    BY <1>3, <2>1
<1>10. Aligned => partnum'.lo = 3 + UpTo(LogicalAt, h)
  <2>1. Aligned => partnum.lo = 3 + UpTo(LogicalAt, LastTable(h, s))
    BY DEF InTable
  <2>2. UpTo(LogicalAt, LastTable(h, s)) = UpTo(LogicalAt, h)
    BY <1>2, <1>7, CountTo DEF LastTable
  <2> QED
    BY <1>8, <1>9, <2>1, <2>2
<1>11. Path' = Path /\ ExtStart' = ExtStart
  BY <1>8, DiskStays
<1>12. Ahead(SeenLinks(t, s + 1), h)'
  <2>1. Ahead(SeenLinks(t, s), h)
    BY <1>1 DEF InTable
  <2>2. h # 0
    <3>1. ExtSlots(disk[0]) # {}
      BY PathNone
    <3>2. DOMAIN Path = 1 .. Len(Path)
      BY <1>7, <3>1, PathFacts
    <3> QED
      BY <3>2
  <2>3. PICK m : /\ Unexpanded' = Unexpanded \union {m}
                 /\ list'[m].base = b /\ Where(list'[m]) = b + e.at
    BY <1>6, <1>8
  <2>4. Leads(m, h)'
    BY <1>5, <1>7, <1>11, <2>2, <2>3 DEF Leads, Where
  <2> QED
    BY <1>4, <1>6, <1>7, <1>8, <2>1, <2>3, <2>4, AheadStep
<1>13. ListTable' = t
  BY <1>1, <1>2, <1>8 DEF ListTable, Sector, Where
<1>14. Ahead(SeenLinks(ListTable, s + 1), h)'
  BY <1>12, <1>13 DEF Ahead, SeenLinks, IsExt
<1>15. list'[at] = list[at] /\ Rows' = Rows /\ Cardinality(InList') = Cardinality(InList)
  BY <1>2, <1>6, <1>8
<1> QED
  BY <1>7, <1>8, <1>10, <1>14, <1>15, TableGoesOn

LEMMA TableSkip ==
    ASSUME ListBase, ~IsGpt(disk[0]), IsOrderly, NEW h \in DOMAIN Path, NEW s, slot = s,
           InTable(h, s), SkipFree
    PROVE  InTable(h, s + 1)' /\ s \in Slots
<1>1. PICK t : t = ListTable
  OBVIOUS
<1>2. /\ HasChain /\ ListTypes /\ at \in DOMAIN list /\ h \in Int
  BY TableIs
<1>3. /\ disk' = disk /\ at' = at /\ list' = list
      /\ Rows' = Rows /\ Cardinality(InList') = Cardinality(InList) /\ Unexpanded' = Unexpanded
      /\ t[s] = Free /\ lpc = "copy"
      /\ partnum' = IF partnum.lo > 3 THEN partnum ELSE [partnum EXCEPT !.lo = partnum.lo + 1]
  BY <1>1, FreeSkipped
<1>4. /\ s \in Slots /\ Path[h] \in DOMAIN disk /\ disk \in Disks
      /\ s = 0 => h \notin LogicalAt
  BY <1>1, <1>3, TableEntry
<1>5. ~IsExt(t[s])
  BY <1>3 DEF IsExt, Free
<1>6. PICK j : j = LastTable(h, s)
  OBVIOUS
<1>7. j = (IF s = 0 THEN h - 1 ELSE h) /\ j \in Int
  BY <1>2, <1>6 DEF LastTable
<1>8. UpTo(LogicalAt, j) = UpTo(LogicalAt, h) /\ UpTo(LogicalAt, j) \in Nat
  BY <1>2, <1>4, <1>7, CountTo
<1>9. Aligned => partnum'.lo = 3 + UpTo(LogicalAt, h)
  <2>1. SUFFICES ASSUME Aligned PROVE partnum'.lo = 3 + UpTo(LogicalAt, h)
    OBVIOUS
  <2>2. partnum.lo = 3 + UpTo(LogicalAt, j)
    BY <1>6, <2>1 DEF InTable
  <2>3. 1 \in LogicalAt /\ \A x \in Int : x >= 1 => UpTo(LogicalAt, x) > 0
    BY <1>2, <1>4, <2>1, FirstCounted
  <2>4. j >= 1
    <3>1. h >= 1
      <4>1. ExtSlots(disk[0]) # {}
        BY PathNone
      <4>2. DOMAIN Path = 1 .. Len(Path)
        BY <1>4, <4>1, PathFacts
      <4> QED
        BY <4>2
    <3>2. s = 0 => h # 1
      BY <1>4, <2>3
    <3> QED
      BY <1>2, <1>7, <3>1, <3>2
  <2>5. UpTo(LogicalAt, j) > 0
    BY <1>7, <2>3, <2>4
  <2>6. partnum.lo > 3
    BY <1>8, <2>2, <2>5
  <2> QED
    BY <1>3, <1>8, <2>2, <2>6
<1>10. Ahead(SeenLinks(t, s + 1), h)'
  <2>1. Ahead(SeenLinks(t, s), h)
    BY <1>1 DEF InTable
  <2> QED
    BY <1>3, <1>4, <1>5, <2>1, AheadStep
<1>11. ListTable' = t
  BY <1>1, <1>3 DEF ListTable, Sector, Where
<1>12. Ahead(SeenLinks(ListTable, s + 1), h)'
  BY <1>10, <1>11 DEF Ahead, SeenLinks, IsExt
<1> QED
  BY <1>3, <1>4, <1>9, <1>12, TableGoesOn

-----------------------------------------------------------------------------
(***************************************************************************)
(* Every step keeps what is said of the entries that are copied.           *)
(***************************************************************************)

LEMMA WalkedCopy ==
    ASSUME ListBase, ListBase', ~IsGpt(disk[0]), IsOrderly, Walked,
           CopyPartition \/ CopyLink \/ SkipFree
    PROVE  Walked'
<1>1. PICK s : s = slot
  OBVIOUS
<1>2. lpc = "copy" /\ slot' = s + 1 /\ disk' = disk
  BY <1>1 DEF CopyPartition, CopyLink, SkipFree, Append1
<1>3. InFirst(s) \/ \E h \in DOMAIN Path : InTable(h, s)
  <2>1. Copied = s
    BY <1>1, <1>2 DEF Copied
  <2>2. InFirst(Copied) \/ \E h \in DOMAIN Path : InTable(h, Copied)
    BY <1>2 DEF Walked
  <2> QED
    BY <2>1, <2>2
<1>4. Path' = Path
  BY <1>2, DiskStays
<1>5. s \in Slots /\ (InFirst(s + 1)' \/ \E h \in DOMAIN Path' : InTable(h, s + 1)')
  <2>1. CASE InFirst(s)
    <3>1. ~CopyLink
      <4>1. Sector = 0
        BY <1>2, <2>1, FirstIs DEF InFirst
      <4> QED
        BY <4>1 DEF CopyLink, IsLink
    <3> QED
      BY <1>1, <2>1, <3>1, FirstCopy, FirstSkip
  <2>2. ASSUME NEW h \in DOMAIN Path, InTable(h, s)
        PROVE  s \in Slots /\ InTable(h, s + 1)'
    BY <1>1, <2>2, TableCopy, TableLink, TableSkip
  <2> QED
    BY <1>3, <1>4, <2>1, <2>2
<1>6. lpc' = "done" => ~Found'
  <2>1. CASE SkipFree
    BY <2>1 DEF SkipFree, AfterEntry
  <2>2. ASSUME NEW e, NEW n, NEW base, Append1(e, n, base) PROVE lpc' = "done" => ~Found'
    <3>1. ListTypes /\ ListTypes'
      BY DEF ListBase
    <3>2. lpc' = AfterEntry(Len(list') >= Capacity)
      BY <2>2, <3>1, EntryCopied
    <3>3. lpc' = "done" => Len(list') >= Capacity
      BY <3>2 DEF AfterEntry
    <3>4. Len(list') \in Nat /\ Capacity \in Nat
      BY <3>1, ListIs, Bounds DEF ListTypes
    <3> QED
      BY <3>3, <3>4 DEF Found
  <2> QED
    BY <2>1, <2>2 DEF CopyPartition, CopyLink
<1>7. lpc' # "done" => Copied' = s + 1
  <2>1. lpc' \in {"done", "next", "copy"} /\ (lpc' = "next" => s = 3)
    BY <1>1 DEF CopyPartition, CopyLink, SkipFree, Append1, AfterEntry
  <2> QED
    BY <1>2, <2>1 DEF Copied
<1>8. CASE lpc' = "done"
  BY <1>6, <1>8 DEF Walked
<1>9. CASE lpc' # "done"
  <2>1. PICK c : c = s + 1
    OBVIOUS
  <2>2. InFirst(c)' \/ \E h \in DOMAIN Path' : InTable(h, c)'
    BY <1>5, <2>1
  <2>3. Copied' = c
    BY <1>7, <1>9, <2>1
  <2> QED
    BY <1>9, <2>2, <2>3 DEF Walked, InFirst, InTable
<1> QED
  BY <1>8, <1>9

\* Steps that leave the list alone leave what is said of it.
LEMMA WalkedStays ==
    ASSUME UNCHANGED <<disk, list, at, partnum>>, NEW s
    PROVE  /\ InFirst(s) => InFirst(s)'
           /\ \A h \in DOMAIN Path : InTable(h, s) => InTable(h, s)'
           /\ Path' = Path /\ Rows' = Rows
           /\ PrimaryRows(4)' = PrimaryRows(4) /\ \A h : LogicalRows(h)' = LogicalRows(h)
<1>1. /\ Path' = Path /\ LogicalAt' = LogicalAt /\ ExtStart' = ExtStart
  BY DiskStays
<1>2. /\ PrimaryAt' = PrimaryAt /\ (Aligned' <=> Aligned)
      /\ \A x : PrimaryRows(x)' = PrimaryRows(x)
      /\ \A h : LogicalRows(h)' = LogicalRows(h)
      /\ \A n : Given(n)' = Given(n)
  BY RowsStay
<1>3. InList' = InList /\ Unexpanded' = Unexpanded
  BY DEF InList, Unexpanded, IsExt
<1>4. Rows' = Rows
  BY <1>2, <1>3 DEF Rows, RowOf, Where
<1>5. \A k, h : Leads(k, h)' <=> Leads(k, h)
  BY <1>1 DEF Leads, Where
<1>6. ListTable' = ListTable
  BY DEF ListTable, Sector, Where
<1>7. \A links, h : Ahead(links, h)' <=> Ahead(links, h)
  BY <1>3, <1>5 DEF Ahead
<1>8. InFirst(s) => InFirst(s)'
  <2>1. PICK links : links = SeenLinks(disk[0], s)
    OBVIOUS
  <2>2. links = SeenLinks(disk[0], s)'
    BY <2>1 DEF SeenLinks, IsExt
  <2>3. Ahead(SeenLinks(disk[0], s), 0) => Ahead(SeenLinks(disk[0], s), 0)'
    BY <1>3, <1>5, <2>1, <2>2, Zenon DEF Ahead
  <2> QED
    BY <1>2, <1>3, <1>4, <2>3, Zenon DEF InFirst
<1>9. ASSUME NEW h \in DOMAIN Path PROVE InTable(h, s) => InTable(h, s)'
  <2>1. PICK links : links = SeenLinks(ListTable, s)
    OBVIOUS
  <2>2. links = SeenLinks(ListTable, s)'
    BY <1>6, <2>1 DEF SeenLinks, IsExt
  <2>3. Ahead(SeenLinks(ListTable, s), h) => Ahead(SeenLinks(ListTable, s), h)'
    BY <1>3, <1>5, <2>1, <2>2, Zenon DEF Ahead
  <2>4. Leads(at, h - 1) => Leads(at, h - 1)'
    BY <1>1 DEF Leads, Where
  <2> QED
    BY <1>1, <1>2, <1>3, <1>4, <2>3, <2>4, Zenon DEF InTable
<1> QED
  BY <1>1, <1>2, <1>4, <1>8, <1>9

LEMMA WalkedRead ==
    ASSUME ListBase, ~IsGpt(disk[0]), Walked, ReadTable
    PROVE  Walked'
<1>1. /\ lpc = "read" /\ Sector \in DOMAIN disk /\ slot' = 0
      /\ lpc' = (IF IsGpt(ListTable) THEN "gpt" ELSE "copy")
      /\ UNCHANGED <<disk, list, at, partnum>>
  BY DEF ReadTable
<1>2. lpc' = "copy"
  BY <1>1, MbrTable
<1>3. Copied = 0 /\ Copied' = 0
  BY <1>1, <1>2 DEF Copied
<1>4. InFirst(0) \/ \E h \in DOMAIN Path : InTable(h, 0)
  BY <1>1, <1>3 DEF Walked
<1>5. InFirst(0)' \/ \E h \in DOMAIN Path' : InTable(h, 0)'
  BY <1>1, <1>4, WalkedStays
<1> QED
  BY <1>2, <1>3, <1>5 DEF Walked, InFirst, InTable

LEMMA WalkedExpand ==
    ASSUME ListBase, ~IsGpt(disk[0]), IsOrderly, Walked, ExpandNext
    PROVE  Walked'
<1>1. /\ lpc = "next" /\ lpc' = "read" /\ UNCHANGED <<disk, list, partnum, slot>>
  BY DEF ExpandNext
<1>2. disk \in Disks /\ ListTypes
  BY DEF ListBase
<1>3. at' \in Unexpanded /\ \A j \in Unexpanded : at' =< j
  BY <1>2, NextUnexpanded
<1>4. PICK a : a = at'
  OBVIOUS
<1>5. a \in Nat /\ at \in Nat \ {0} /\ a > at
  BY <1>2, <1>3, <1>4, ListIs DEF Unexpanded
<1>6. Copied = 4 /\ Copied' = 0
  BY <1>1 DEF Copied
<1>7. InFirst(4) \/ \E h \in DOMAIN Path : InTable(h, 4)
  BY <1>1, <1>6 DEF Walked
<1>8. /\ Path' = Path /\ LogicalAt' = LogicalAt
  BY <1>1, DiskStays
<1>9. /\ PrimaryAt' = PrimaryAt /\ (Aligned' <=> Aligned)
      /\ PrimaryRows(4)' = PrimaryRows(4)
      /\ \A h : LogicalRows(h)' = LogicalRows(h)
      /\ \A n : Given(n)' = Given(n)
  BY <1>1, RowsStay
<1>10. InList' = InList
  BY <1>1 DEF InList, IsExt
<1>11. Rows' = Rows
  BY <1>1, <1>9, <1>10 DEF Rows, RowOf, Where
<1>12. \A links, h : Ahead(links, h) => Unexpanded = {a} /\ Leads(a, h)
  BY <1>3, <1>4 DEF Ahead
<1>13. ASSUME NEW h, NEW links, Ahead(links, h)
       PROVE  /\ Leads(at, h)' /\ h + 1 \in DOMAIN Path /\ Unexpanded' = {}
  <2>1. Unexpanded = {a} /\ Leads(a, h)
    BY <1>12, <1>13
  <2>2. Leads(a, h)' /\ h + 1 \in DOMAIN Path
    <3>1. list'[a] = list[a] /\ disk' = disk
      BY <1>1
    <3>2. Leads(a, h)'
      BY <2>1, <3>1, LeadsStays
    <3> QED
      BY <2>1, <3>2 DEF Leads
  <2>3. Leads(at, h)'
    BY <1>4, <2>2 DEF Leads
  <2>4. Unexpanded' = {}
    <3>1. \A k \in DOMAIN list : k > a /\ IsExt(list[k]) => k \in Unexpanded
      <4>1. \A k \in DOMAIN list : k \in Nat
        BY <1>2, ListIs
      <4> QED
        BY <1>5, <4>1 DEF Unexpanded
    <3>2. ~(a > a)
      BY <1>5
    <3>3. \A k \in DOMAIN list : ~(k > a /\ IsExt(list[k]))
      BY <2>1, <3>1, <3>2
    <3> QED
      BY <1>1, <1>4, <3>3 DEF Unexpanded, IsExt
  <2> QED
    BY <2>2, <2>3, <2>4
<1>14. ASSUME Unexpanded' = {} PROVE \A h : Ahead(SeenLinks(ListTable, 0), h)'
  <2>1. SeenLinks(ListTable, 0)' = {}
    <3>1. \A k \in Slots : ~(k < 0)
      BY DEF Slots
    <3> QED
      BY <3>1 DEF SeenLinks
  <2> QED
    BY <1>14, <2>1, Zenon DEF Ahead
<1>15. ASSUME NEW h, h \in Nat, NEW links, Ahead(links, h),
              Rows = PrimaryRows(4) \union LogicalRows(h),
              Cardinality(InList) = Cardinality(PrimaryAt) + UpTo(LogicalAt, h),
              Aligned => partnum.lo = 3 + UpTo(LogicalAt, h)
       PROVE  h + 1 \in DOMAIN Path' /\ InTable(h + 1, 0)'
  <2>1. /\ Leads(at, h)' /\ h + 1 \in DOMAIN Path /\ Unexpanded' = {}
    BY <1>13, <1>15
  <2>2. LastTable(h + 1, 0) = h /\ (h + 1) - 1 = h
    BY <1>15 DEF LastTable
  <2>3. at' > 1 /\ ~(0 > 0)
    BY <1>4, <1>5
  <2>4. Ahead(SeenLinks(ListTable, 0), h + 1)'
    BY <1>14, <2>1
  <2>5. Leads(at, (h + 1) - 1)'
    BY <2>1, <2>2
  <2>6. Rows' = PrimaryRows(4)' \union LogicalRows(LastTable(h + 1, 0))'
    BY <1>9, <1>11, <1>15, <2>2 DEF LastTable
  <2>7. Cardinality(InList)' = Cardinality(PrimaryAt)' + UpTo(LogicalAt, LastTable(h + 1, 0))'
    BY <1>8, <1>9, <1>10, <1>15, <2>2 DEF UpTo, LastTable
  <2>8. Aligned' => partnum'.lo = 3 + UpTo(LogicalAt, LastTable(h + 1, 0))'
    BY <1>1, <1>8, <1>9, <1>15, <2>2 DEF UpTo, LastTable
  <2> QED
    BY <1>8, <2>1, <2>3, <2>4, <2>5, <2>6, <2>7, <2>8, Zenon DEF InTable
<1>16. \E h \in DOMAIN Path' : InTable(h, 0)'
  <2>1. CASE InFirst(4)
    <3>1. /\ Rows = PrimaryRows(4) /\ Cardinality(InList) = UpTo(PrimaryAt, 3)
          /\ Aligned => partnum.lo = 3
          /\ Ahead(SeenLinks(disk[0], 4), 0)
      <4>1. 4 - 1 = 3 /\ 4 > 0
        OBVIOUS
      <4> QED
        BY <2>1, <4>1 DEF InFirst
    <3>2. UpTo(LogicalAt, 0) = 0 /\ LogicalRows(0) = {}
      BY <1>2, CountTo, LogicalRowsStep
    <3>3. UpTo(PrimaryAt, 3) = Cardinality(PrimaryAt)
      <4>1. 3 \in Nat
        OBVIOUS
      <4> QED
        BY <4>1, PrimaryRowsStep
    <3>4. Cardinality(PrimaryAt) \in Nat
      BY PrimaryFacts
    <3>5. /\ Rows = PrimaryRows(4) \union LogicalRows(0)
          /\ Cardinality(InList) = Cardinality(PrimaryAt) + UpTo(LogicalAt, 0)
          /\ Aligned => partnum.lo = 3 + UpTo(LogicalAt, 0)
      BY <3>1, <3>2, <3>3, <3>4
    <3>6. PICK links : links = SeenLinks(disk[0], 4)
      OBVIOUS
    <3>7. Ahead(links, 0) /\ 0 \in Nat
      BY <3>1, <3>6
    <3> QED
      BY <1>15, <3>5, <3>7
  <2>2. ASSUME NEW h \in DOMAIN Path, InTable(h, 4) PROVE \E j \in DOMAIN Path' : InTable(j, 0)'
    <3>1. h \in Nat
      <4>1. ExtSlots(disk[0]) # {}
        BY PathNone
      <4>2. DOMAIN Path = 1 .. Len(Path)
        BY <1>2, <4>1, PathFacts
      <4> QED
        BY <4>2
    <3>2. LastTable(h, 4) = h
      BY DEF LastTable
    <3>3. /\ Rows = PrimaryRows(4) \union LogicalRows(h)
          /\ Cardinality(InList) = Cardinality(PrimaryAt) + UpTo(LogicalAt, h)
          /\ Aligned => partnum.lo = 3 + UpTo(LogicalAt, h)
          /\ Ahead(SeenLinks(ListTable, 4), h)
      BY <2>2, <3>2 DEF InTable
    <3>4. PICK links : links = SeenLinks(ListTable, 4)
      OBVIOUS
    <3>5. Ahead(links, h)
      BY <3>3, <3>4
    <3> QED
      BY <1>15, <3>1, <3>3, <3>5
  <2> QED
    BY <1>7, <2>1, <2>2
<1> QED
  BY <1>1, <1>6, <1>16 DEF Walked, InTable

\* The list ends where the last table ends.
LEMMA WalkedEnds ==
    ASSUME ListBase, ~IsGpt(disk[0]), IsOrderly, Walked, EndAtBadTable \/ EndOfEntries
    PROVE  Rows = PrimaryRows(4) \union LogicalRows(Len(Path))
<1>1. disk \in Disks /\ ListTypes
  BY DEF ListBase
<1>2. InFirst(Copied) \/ \E h \in DOMAIN Path : InTable(h, Copied)
  BY DEF EndAtBadTable, EndOfEntries, Walked
<1>3. CASE EndAtBadTable
  <2>1. lpc = "read" /\ (Sector \in DOMAIN disk => ~IsValid(ListTable))
    BY <1>3 DEF EndAtBadTable
  <2>2. Copied = 0
    BY <2>1 DEF Copied
  <2>3. ~InFirst(0)
    <3>1. SUFFICES ASSUME InFirst(0) PROVE FALSE
      OBVIOUS
    <3>2. Sector = 0
      BY <1>1, <3>1, ListIs DEF InFirst
    <3>3. 0 \in DOMAIN disk
      BY <1>1, DiskFacts
    <3> QED
      BY <2>1, <3>2, <3>3 DEF IsOrderly, ListTable
  <2>4. PICK h \in DOMAIN Path : InTable(h, 0)
    BY <1>2, <2>2, <2>3
  <2>5. HasChain /\ Sector = Path[h] /\ h \in Int
    BY <2>4, TableIs
  <2>6. Path[h] \notin DOMAIN disk
    <3>1. SUFFICES ASSUME Path[h] \in DOMAIN disk PROVE FALSE
      OBVIOUS
    <3>2. Path[h] \in ToSet(Path)
      BY DEF ToSet
    <3>3. IsValid(disk[Path[h]])
      BY <3>1, <3>2 DEF IsOrderly
    <3> QED
      BY <2>1, <2>5, <3>1, <3>3 DEF ListTable
  <2>7. h = Len(Path) /\ h \notin LogicalAt
    BY <2>5, <2>6, OffTable
  <2>8. LogicalRows(h) = LogicalRows(h - 1)
    BY <1>1, <2>7, LogicalRowsStep
  <2>9. Rows = PrimaryRows(4) \union LogicalRows(h - 1)
    BY <2>4 DEF InTable, LastTable
  <2> QED
    BY <2>7, <2>8, <2>9
<1>4. CASE EndOfEntries
  <2>1. lpc = "next" /\ Unexpanded = {}
    BY <1>4 DEF EndOfEntries
  <2>2. Copied = 4
    BY <2>1 DEF Copied
  <2>3. \A links, h : Ahead(links, h) => links = {}
    BY <2>1 DEF Ahead
  <2>4. CASE InFirst(4)
    <3>1. Rows = PrimaryRows(4) /\ SeenLinks(disk[0], 4) = {}
      BY <2>3, <2>4 DEF InFirst
    <3>2. PICK t : t = disk[0]
      OBVIOUS
    <3>3. ExtSlots(t) = {}
      <4>1. 0 \in Slots
        BY DEF Slots
      <4> QED
        BY <3>1, <3>2, <4>1, SeenStep
    <3>4. Path = <<>>
      BY <3>2, <3>3, PathNone
    <3>5. Len(Path) = 0
      BY <3>4
    <3>6. LogicalRows(0) = {}
      BY <1>1, LogicalRowsStep
    <3> QED
      BY <3>1, <3>5, <3>6
  <2>5. ASSUME NEW h \in DOMAIN Path, InTable(h, 4)
        PROVE  Rows = PrimaryRows(4) \union LogicalRows(Len(Path))
    <3>1. /\ Rows = PrimaryRows(4) \union LogicalRows(h)
          /\ SeenLinks(ListTable, 4) = {} /\ Path[h] \in DOMAIN disk
      <4>1. 4 > 0
        OBVIOUS
      <4> QED
        BY <2>3, <2>5, <4>1 DEF InTable, LastTable
    <3>2. PICK t : t = ListTable
      OBVIOUS
    <3>3. TableFacts(h, t)
      BY <2>5, <3>1, <3>2, TableIs
    <3>4. ExtSlots(t) = {}
      <4>1. 0 \in Slots
        BY DEF Slots
      <4> QED
        BY <3>1, <3>2, <4>1, SeenStep
    <3>5. ~IsExt(t[0]) /\ ~IsExt(t[1])
      BY <3>4 DEF ExtSlots, Slots
    <3>6. h = Len(Path)
      BY <3>3, <3>5 DEF TableFacts
    <3> QED
      BY <3>1, <3>6
  <2> QED
    BY <1>2, <2>2, <2>4, <2>5
<1> QED
  BY <1>3, <1>4

LEMMA WalkedDone ==
    ASSUME ListBase, ~IsGpt(disk[0]), IsOrderly, Walked, EndAtBadTable \/ EndAtMaxNum \/ EndOfEntries
    PROVE  Walked'
<1>1. lpc' = "done" /\ UNCHANGED <<disk, list, at, partnum>>
  BY DEF EndAtBadTable, EndAtMaxNum, EndOfEntries, Done
<1>2. CASE EndAtMaxNum
  <2>1. partnum'.lo = MaxNum
    BY <1>1, <1>2 DEF EndAtMaxNum
  <2> QED
    BY <1>1, <2>1 DEF Walked, Found
<1>3. CASE EndAtBadTable \/ EndOfEntries
  <2>1. Rows = PrimaryRows(4) \union LogicalRows(Len(Path))
    BY <1>3, WalkedEnds
  <2>2. Rows' = Rows /\ Path' = Path /\ PrimaryRows(4)' = PrimaryRows(4)
        /\ \A h : LogicalRows(h)' = LogicalRows(h)
    BY <1>1, WalkedStays
  <2>3. PICK l : l = Len(Path)
    OBVIOUS
  <2>4. Rows' = PrimaryRows(4)' \union LogicalRows(l)'
    BY <2>1, <2>2, <2>3
  <2>5. l = Len(Path')
    BY <2>2, <2>3
  <2> QED
    BY <1>1, <2>4, <2>5 DEF Walked, LogicalRows
<1> QED
  BY <1>2, <1>3

LEMMA WalkedRest ==
    ASSUME Walked, UNCHANGED <<disk, lvars>>
    PROVE  Walked'
<1>1. UNCHANGED <<disk, list, at, partnum, slot, lpc>>
  BY DEF lvars
<1>2. Copied' = Copied /\ (Found' <=> Found)
  BY <1>1 DEF Copied, Found, IsGpt
<1>3. PICK s : s = Copied
  OBVIOUS
<1>4. /\ InFirst(s) => InFirst(s)'
      /\ \A h \in DOMAIN Path : InTable(h, s) => InTable(h, s)'
      /\ Path' = Path /\ Rows' = Rows
      /\ PrimaryRows(4)' = PrimaryRows(4) /\ \A h : LogicalRows(h)' = LogicalRows(h)
  BY <1>1, WalkedStays
<1>5. CASE lpc = "done"
  <2>1. PICK l : l = Len(Path)
    OBVIOUS
  <2>2. Found => Rows = PrimaryRows(4) \union LogicalRows(l)
    BY <1>5, <2>1 DEF Walked
  <2>3. Found' => Rows' = PrimaryRows(4)' \union LogicalRows(l)' /\ l = Len(Path')
    BY <1>2, <1>4, <2>1, <2>2
  <2> QED
    BY <1>1, <1>5, <2>3 DEF Walked, LogicalRows
<1>6. CASE lpc # "done"
  <2>1. InFirst(s) \/ \E h \in DOMAIN Path : InTable(h, s)
    BY <1>3, <1>6 DEF Walked
  <2>2. InFirst(s)' \/ \E h \in DOMAIN Path' : InTable(h, s)'
    BY <1>4, <2>1
  <2>3. Copied' = s /\ lpc' # "done"
    BY <1>1, <1>2, <1>3, <1>6
  <2> QED
    BY <2>2, <2>3 DEF Walked, InFirst, InTable
<1> QED
  BY <1>5, <1>6

LEMMA WalkedSteps ==
    ASSUME ListBase, ListBase', ~IsGpt(disk[0]), IsOrderly, Walked, [WalksNext]_walkvars
    PROVE  Walked'
<1>1. CASE UNCHANGED walkvars
  BY <1>1, WalkedRest DEF walkvars
<1>2. CASE Install \/ Jump
  <2>1. UNCHANGED <<disk, lvars>>
    BY <1>2 DEF Install, Jump, Enumerate, JumpTo, Turn, Stops, JumpPrimary, NextPrimary, EnterChain,
                NextInChain, NoChainTable, FollowFirst, SkipTable, TakeLogical, Read
  <2> QED
    BY <2>1, WalkedRest
<1>3. CASE ListTurn
  <2>1. lpc # "gpt"
    BY MbrTable DEF OnMbr
  <2>2. ~CopyGpt /\ ~EndOfGpt
    BY <2>1 DEF CopyGpt, EndOfGpt
  <2> QED
    BY <1>3, <2>2, WalkedCopy, WalkedRead, WalkedExpand, WalkedDone DEF ListTurn
<1> QED
  BY <1>1, <1>2, <1>3 DEF WalksNext, Boot

-----------------------------------------------------------------------------
(***************************************************************************)
(* The invariant of list_partitions holds.                                 *)
(***************************************************************************)

LEMMA ListInitially ==
    ASSUME WalksInit
    PROVE  ListIInv
<1>1. /\ disk \in Disks /\ list = <<DriveEntry>> /\ at = 1 /\ partnum = [lo |-> 255, hi |-> 0]
      /\ slot = 0 /\ lpc = "read"
  BY DEF WalksInit, ListInit
<1>2. Len(list) = 1 /\ DOMAIN list = {1} /\ list[1] = DriveEntry
  BY <1>1
<1>3. DriveEntry \in ListEntry
  BY DEF DriveEntry, ListEntry
<1>4. ListTypes
  <2>1. list \in Seq(ListEntry)
    BY <1>1, <1>3
  <2>2. partnum \in [lo : 0 .. 255, hi : Nat] /\ partnum.hi < Len(list)
    BY <1>1, <1>2
  <2> QED
    BY <1>1, <1>2, <2>1, <2>2, Bounds DEF ListTypes
<1>5. 2 .. Len(list) = {}
  BY <1>2
<1>6. Ordered
  BY <1>1, <1>2, <1>5 DEF Ordered
<1>7. OnMbr
  BY <1>1, <1>2, <1>5 DEF OnMbr
<1>8. OnGpt
  BY <1>1, <1>2 DEF OnGpt
<1>9. InFirst(0)
  <2>1. InList = {} /\ Unexpanded = {}
    BY <1>1, <1>2 DEF InList, Unexpanded
  <2>2. Rows = {} /\ Cardinality(InList) = 0
    BY <2>1, FS_EmptySet DEF Rows
  <2>3. PrimaryRows(0) = {} /\ UpTo(PrimaryAt, 0 - 1) = 0
    <3>1. 0 \in Nat
      OBVIOUS
    <3> QED
      BY <3>1, PrimaryRowsStep
  <2>4. SeenLinks(disk[0], 0) = {}
    <3>1. \A k \in Slots : ~(k < 0)
      BY DEF Slots
    <3> QED
      BY <3>1 DEF SeenLinks
  <2>5. Ahead(SeenLinks(disk[0], 0), 0)
    BY <2>1, <2>4, Zenon DEF Ahead
  <2>6. ~(0 > 0)
    OBVIOUS
  <2> QED
    BY <1>1, <1>2, <2>2, <2>3, <2>5, <2>6, Zenon DEF InFirst
<1>10. Walked
  <2>1. Copied = 0
    BY <1>1 DEF Copied
  <2>2. InFirst(Copied)
    BY <1>9, <2>1
  <2> QED
    BY <1>1, <2>2 DEF Walked
<1> QED
  BY <1>1, <1>4, <1>6, <1>7, <1>8, <1>10 DEF ListIInv

LEMMA ListSteps ==
    ASSUME ListIInv, [WalksNext]_walkvars
    PROVE  ListIInv'
<1>1. ListBase
  BY DEF ListIInv, ListBase
<1>2. ListBase'
  BY <1>1, BaseSteps
<1>3. disk' = disk
  BY DEF WalksNext, walkvars, Boot, ListTurn, EndAtBadTable, ReadTable, CopyPartition, EndAtMaxNum, CopyLink,
         SkipFree, ExpandNext, EndOfEntries, CopyGpt, EndOfGpt, Done, Append1, Install, Jump, Enumerate,
         JumpTo, Turn, Stops, JumpPrimary, NextPrimary, EnterChain,
         NextInChain, NoChainTable, FollowFirst, SkipTable, TakeLogical, Read
<1>4. IsOrderly' <=> IsOrderly
  BY <1>3, RowsStay
<1>5. ~IsGpt(disk[0]) /\ IsOrderly => Walked
  BY DEF ListIInv
<1>6. ~IsGpt(disk[0]) /\ IsOrderly => Walked'
  BY <1>1, <1>2, <1>5, WalkedSteps
<1> QED
  BY <1>2, <1>3, <1>4, <1>6 DEF ListIInv, ListBase, IsGpt

\* What the invariant says of the list when it is complete.
LEMMA RowsAll ==
    ASSUME ListIInv, Found, IsOrderly
    PROVE  /\ Rows = {PrimaryRow(k) : k \in PrimaryAt} \union {LogicalRow(j) : j \in LogicalAt}
           /\ disk \in Disks
<1>1. ~IsGpt(disk[0]) /\ lpc = "done"
  BY DEF Found
<1>2. disk \in Disks /\ Walked
  BY <1>1 DEF ListIInv
<1>3. Rows = PrimaryRows(4) \union LogicalRows(Len(Path))
  BY <1>1, <1>2 DEF Walked
<1>4. LogicalRows(Len(Path)) = {LogicalRow(j) : j \in LogicalAt}
  BY <1>2, LogicalRowsStep
<1>5. PrimaryRows(4) = {PrimaryRow(k) : k \in PrimaryAt}
  <2>1. 4 \in Nat
    OBVIOUS
  <2> QED
    BY <2>1, PrimaryRowsStep
<1> QED
  BY <1>2, <1>3, <1>4, <1>5

\* Ranks and places, and numbers and places, of the rows.
LEMMA RowsProjected ==
    ASSUME Rows = {PrimaryRow(k) : k \in PrimaryAt} \union {LogicalRow(j) : j \in LogicalAt}
    PROVE  /\ {[rank |-> UpTo(InList, k), start |-> Where(list[k])] : k \in InList} =
              {[rank |-> UpTo(PrimaryAt, k), start |-> disk[0][k].at] : k \in PrimaryAt} \union
              {[rank |-> Cardinality(PrimaryAt) + UpTo(LogicalAt, j),
                start |-> Path[j] + disk[Path[j]][0].at] : j \in LogicalAt}
           /\ {[num |-> Given(list[k].lo), start |-> Where(list[k])] : k \in InList} =
              {[num |-> Given(k), start |-> disk[0][k].at] : k \in PrimaryAt} \union
              {[num |-> Given(3 + UpTo(LogicalAt, j)),
                start |-> Path[j] + disk[Path[j]][0].at] : j \in LogicalAt}
<1>. DEFINE Ranked(r) == [rank |-> r[1], start |-> r[3]]
            Named(r) == [num |-> r[2], start |-> r[3]]
<1>1. /\ \A k : /\ Ranked(RowOf(k)) = [rank |-> UpTo(InList, k), start |-> Where(list[k])]
                /\ Named(RowOf(k)) = [num |-> Given(list[k].lo), start |-> Where(list[k])]
      /\ \A k : /\ Ranked(PrimaryRow(k)) = [rank |-> UpTo(PrimaryAt, k), start |-> disk[0][k].at]
                /\ Named(PrimaryRow(k)) = [num |-> Given(k), start |-> disk[0][k].at]
      /\ \A j : /\ Ranked(LogicalRow(j)) = [rank |-> Cardinality(PrimaryAt) + UpTo(LogicalAt, j),
                                            start |-> Path[j] + disk[Path[j]][0].at]
                /\ Named(LogicalRow(j)) = [num |-> Given(3 + UpTo(LogicalAt, j)),
                                           start |-> Path[j] + disk[Path[j]][0].at]
  BY DEF RowOf, PrimaryRow, LogicalRow
<1>2. {RowOf(k) : k \in InList} = {PrimaryRow(k) : k \in PrimaryAt} \union {LogicalRow(j) : j \in LogicalAt}
  BY DEF Rows
<1>3. {Ranked(r) : r \in {RowOf(k) : k \in InList}} =
      {Ranked(r) : r \in {PrimaryRow(k) : k \in PrimaryAt} \union {LogicalRow(j) : j \in LogicalAt}}
  BY <1>2, Zenon
<1>4. {Named(r) : r \in {RowOf(k) : k \in InList}} =
      {Named(r) : r \in {PrimaryRow(k) : k \in PrimaryAt} \union {LogicalRow(j) : j \in LogicalAt}}
  BY <1>2, Zenon
<1>. HIDE DEF Ranked, Named
<1>5. {Ranked(RowOf(k)) : k \in InList} =
      {Ranked(PrimaryRow(k)) : k \in PrimaryAt} \union {Ranked(LogicalRow(j)) : j \in LogicalAt}
  BY <1>3
<1>6. {Named(RowOf(k)) : k \in InList} =
      {Named(PrimaryRow(k)) : k \in PrimaryAt} \union {Named(LogicalRow(j)) : j \in LogicalAt}
  BY <1>4
<1>7. /\ {Ranked(RowOf(k)) : k \in InList} =
         {[rank |-> UpTo(InList, k), start |-> Where(list[k])] : k \in InList}
      /\ {Named(RowOf(k)) : k \in InList} =
         {[num |-> Given(list[k].lo), start |-> Where(list[k])] : k \in InList}
  BY <1>1
<1>8. /\ {Ranked(PrimaryRow(k)) : k \in PrimaryAt} =
         {[rank |-> UpTo(PrimaryAt, k), start |-> disk[0][k].at] : k \in PrimaryAt}
      /\ {Named(PrimaryRow(k)) : k \in PrimaryAt} =
         {[num |-> Given(k), start |-> disk[0][k].at] : k \in PrimaryAt}
  BY <1>1
<1>9. {Ranked(LogicalRow(j)) : j \in LogicalAt} =
      {[rank |-> Cardinality(PrimaryAt) + UpTo(LogicalAt, j),
        start |-> Path[j] + disk[Path[j]][0].at] : j \in LogicalAt}
  BY <1>1
<1>10. {Named(LogicalRow(j)) : j \in LogicalAt} =
       {[num |-> Given(3 + UpTo(LogicalAt, j)),
         start |-> Path[j] + disk[Path[j]][0].at] : j \in LogicalAt}
  BY <1>1
<1> QED
  BY <1>5, <1>6, <1>7, <1>8, <1>9, <1>10, Zenon

\* No partition is missing.
LEMMA ListIInvInv ==
    ASSUME ListIInv
    PROVE  ListInv
<1>1. ListTypeOK /\ NumbersDistinct
  BY BaseInv DEF ListIInv, ListBase
<1>2. ListsAll
  <2>1. SUFFICES ASSUME Found, IsOrderly
                 PROVE  {[rank |-> UpTo(InList, k), start |-> Where(list[k])] : k \in InList} =
                        {[rank |-> UpTo(PrimaryAt, k), start |-> disk[0][k].at] : k \in PrimaryAt} \union
                        {[rank |-> (Cardinality(PrimaryAt) + p.num) - 3, start |-> p.start] : p \in Logicals}
    BY DEF ListsAll
  <2>2. /\ Rows = {PrimaryRow(k) : k \in PrimaryAt} \union {LogicalRow(j) : j \in LogicalAt}
        /\ disk \in Disks
    BY <2>1, RowsAll
  <2>3. {[rank |-> UpTo(InList, k), start |-> Where(list[k])] : k \in InList} =
        {[rank |-> UpTo(PrimaryAt, k), start |-> disk[0][k].at] : k \in PrimaryAt} \union
        {[rank |-> Cardinality(PrimaryAt) + UpTo(LogicalAt, j),
          start |-> Path[j] + disk[Path[j]][0].at] : j \in LogicalAt}
    BY <2>2, RowsProjected
  <2>4. PICK c : c = Cardinality(PrimaryAt)
    OBVIOUS
  <2>5. \A j \in LogicalAt : (c + (3 + UpTo(LogicalAt, j))) - 3 = c + UpTo(LogicalAt, j)
    <3>1. c \in Nat
      BY <2>4, PrimaryFacts
    <3>2. \A j \in LogicalAt : UpTo(LogicalAt, j) \in Nat
      BY <2>2, LogicalFacts, CountTo
    <3> QED
      BY <3>1, <3>2
  <2>6. {[rank |-> (c + p.num) - 3, start |-> p.start] : p \in Logicals} =
        {[rank |-> (c + (3 + UpTo(LogicalAt, j))) - 3,
          start |-> Path[j] + disk[Path[j]][0].at] : j \in LogicalAt}
    <3>. DEFINE Ranked(p) == [rank |-> (c + p.num) - 3, start |-> p.start]
    <3>1. Logicals = {LogicalOf(j) : j \in LogicalAt}
      BY DEF Logicals, LogicalOf
    <3>2. \A j : Ranked(LogicalOf(j)) = [rank |-> (c + (3 + UpTo(LogicalAt, j))) - 3,
                                        start |-> Path[j] + disk[Path[j]][0].at]
      BY DEF LogicalOf
    <3>. HIDE DEF Ranked
    <3>3. {Ranked(p) : p \in Logicals} = {Ranked(LogicalOf(j)) : j \in LogicalAt}
      BY <3>1
    <3>4. {Ranked(LogicalOf(j)) : j \in LogicalAt} =
          {[rank |-> (c + (3 + UpTo(LogicalAt, j))) - 3,
            start |-> Path[j] + disk[Path[j]][0].at] : j \in LogicalAt}
      BY <3>2
    <3> QED
      BY <3>3, <3>4 DEF Ranked
  <2>7. {[rank |-> (c + (3 + UpTo(LogicalAt, j))) - 3,
          start |-> Path[j] + disk[Path[j]][0].at] : j \in LogicalAt} =
        {[rank |-> c + UpTo(LogicalAt, j),
          start |-> Path[j] + disk[Path[j]][0].at] : j \in LogicalAt}
    BY <2>5
  <2> QED
    BY <2>3, <2>4, <2>6, <2>7
<1> QED
  BY <1>1, <1>2 DEF ListInv

\* Both invariants together.
LEMMA SameNumbers ==
    ASSUME EnumIInv, ListIInv
    PROVE  NumbersAgree
<1>1. SUFFICES ASSUME Enumerated, Found, IsOrderly, Sound(disk[0]), Aligned
               PROVE  {[num |-> list[k].lo, start |-> Where(list[k])] : k \in SeenByBoth} =
                      {p \in found : \A k \in Slots :
                           IsExt(disk[0][k]) => p # [num |-> k, start |-> disk[0][k].at]}
  BY DEF NumbersAgree, Aligned
<1>2. /\ Rows = {PrimaryRow(k) : k \in PrimaryAt} \union {LogicalRow(j) : j \in LogicalAt}
      /\ disk \in Disks
  BY <1>1, RowsAll
<1>3. \A n : Given(n) = n
  BY <1>1 DEF Given
<1>4. {[num |-> list[k].lo, start |-> Where(list[k])] : k \in InList} =
      {[num |-> k, start |-> disk[0][k].at] : k \in PrimaryAt} \union Logicals
  <2>1. {[num |-> Given(list[k].lo), start |-> Where(list[k])] : k \in InList} =
        {[num |-> Given(k), start |-> disk[0][k].at] : k \in PrimaryAt} \union
        {[num |-> Given(3 + UpTo(LogicalAt, j)),
          start |-> Path[j] + disk[Path[j]][0].at] : j \in LogicalAt}
    BY <1>2, RowsProjected
  <2> QED
    BY <1>3, <2>1 DEF Logicals
<1>5. found = Primaries \union (IF IsForeign THEN {} ELSE Logicals)
  BY <1>1 DEF EnumIInv, Enumerated, EnumGoal, Reachable
<1>6. \A k \in Slots : disk[0][k] # Free <=> disk[0][k].type # "none"
  BY <1>2, DiskFacts, EntryTyped
<1>7. Primaries = {[num |-> k, start |-> disk[0][k].at] : k \in {j \in Slots : disk[0][j] # Free}}
  BY <1>6 DEF Primaries
<1>8. \A p \in Logicals : p.num \notin Slots
  BY <1>2, NumbersApart DEF Slots
<1>9. PrimaryAt = {k \in {j \in Slots : disk[0][j] # Free} : ~IsExt(disk[0][k])}
  BY DEF PrimaryAt
<1>10. \A j, k : [num |-> j, start |-> disk[0][j].at] = [num |-> k, start |-> disk[0][k].at] <=> j = k
  <2>1. \A j, k : [num |-> j, start |-> disk[0][j].at] = [num |-> k, start |-> disk[0][k].at] => j = k
    OBVIOUS
  <2> QED
    BY <2>1
<1>11. \A p \in Logicals : \A k \in Slots : p # [num |-> k, start |-> disk[0][k].at]
  BY <1>8
<1>12. {p \in Primaries : \A k \in Slots : IsExt(disk[0][k]) => p # [num |-> k, start |-> disk[0][k].at]} =
       {[num |-> k, start |-> disk[0][k].at] : k \in PrimaryAt}
  BY <1>7, <1>9, <1>10
<1>13. CASE ~IsForeign
  <2>1. SeenByBoth = InList
    BY <1>13 DEF SeenByBoth
  <2> QED
    BY <1>4, <1>5, <1>11, <1>12, <1>13, <2>1
<1>14. CASE IsForeign
  <2>1. PICK rows : rows = {[num |-> list[k].lo, start |-> Where(list[k])] : k \in InList}
    OBVIOUS
  <2>2. {[num |-> list[k].lo, start |-> Where(list[k])] : k \in SeenByBoth} =
        {r \in rows : r.num < 4}
    BY <1>14, <2>1 DEF SeenByBoth
  <2>3. \A p \in Logicals : ~(p.num < 4)
    BY <1>2, NumbersApart
  <2>4. \A k \in PrimaryAt : k < 4
    BY DEF PrimaryAt, Slots
  <2>5. {r \in rows : r.num < 4} = {[num |-> k, start |-> disk[0][k].at] : k \in PrimaryAt}
    BY <1>4, <2>1, <2>3, <2>4
  <2> QED
    BY <1>5, <1>12, <1>14, <2>2, <2>5
<1> QED
  BY <1>13, <1>14

\* The list of wee fits its buffer, gives no number twice, and misses no partition of a
\* disk whose tables are in order.
THEOREM ListIsComplete ==
    WalksSpec => []ListInv
<1>1. WalksInit => ListIInv
  BY ListInitially
<1>2. ListIInv /\ [WalksNext]_walkvars => ListIInv'
  BY ListSteps
<1>3. ListIInv => ListInv
  BY ListIInvInv
<1> QED
  BY <1>1, <1>2, <1>3, PTL DEF WalksSpec

\* A partition that both programs see has the same number at boot and under the
\* operating system.
THEOREM NumbersAlwaysAgree ==
    WalksSpec => []NumbersAgree
<1>1. WalksInit => EnumIInv /\ ListIInv
  BY EnumInitially, ListInitially DEF WalksInit
<1>2. EnumIInv /\ ListIInv /\ [WalksNext]_walkvars => EnumIInv' /\ ListIInv'
  BY EnumSteps, ListSteps
<1>3. EnumIInv /\ ListIInv => NumbersAgree
  BY SameNumbers
<1> QED
  BY <1>1, <1>2, <1>3, PTL DEF WalksSpec

-----------------------------------------------------------------------------
(***************************************************************************)
(* find is given the lists list_partitions makes.                          *)
(***************************************************************************)

\* The entries behind the whole drive as find reads them: a number of two bytes, a place,
\* and a boot indicator, which list_partitions copies.
AsRead(k, active) == [num |-> list[k].lo + (256 * list[k].hi),
                      type |-> IF IsExt(list[k]) THEN "ext" ELSE "data",
                      active |-> active, at |-> Where(list[k])]
AllRead(active) == [k \in 1 .. Len(list) - 1 |-> AsRead(k + 1, active[k])]

\* Only links have a high byte.
HighBytes == \A k \in 2 .. Len(list) : ~IsExt(list[k]) => list[k].hi = 0

LEMMA HighAppend ==
    ASSUME ListTypes, ListTypes', HighBytes, NEW x, list' = Append(list, x), ~IsExt(x) => x.hi = 0
    PROVE  HighBytes'
<1>1. PICK m : m = Len(list)
  OBVIOUS
<1>2. list \in Seq(ListEntry) /\ m \in Nat
  BY <1>1, ListIs
<1>3. Len(list') = m + 1 /\ list'[m + 1] = x /\ \A k \in 1 .. m : list'[k] = list[k]
  <2>1. PICK S : S = ListEntry \union {x}
    OBVIOUS
  <2>2. list \in Seq(S) /\ x \in S
    BY <1>2, <2>1, SeqMonotonic
  <2> QED
    BY <1>1, <1>2, <2>2, AppendProperties
<1>4. ASSUME NEW k \in 2 .. m + 1, ~IsExt(list'[k]) PROVE list'[k].hi = 0
  <2>1. CASE k = m + 1
    BY <1>3, <1>4, <2>1
  <2>2. CASE k # m + 1
    <3>1. k \in 2 .. m /\ k \in 1 .. m
      BY <1>2, <2>2
    <3> QED
      BY <1>1, <1>3, <1>4, <3>1 DEF HighBytes
  <2> QED
    BY <2>1, <2>2
<1> QED
  BY <1>3, <1>4 DEF HighBytes, IsExt

LEMMA HighSteps ==
    ASSUME ListIInv, ListIInv', HighBytes, [WalksNext]_walkvars
    PROVE  HighBytes'
<1>1. ListTypes /\ ListTypes'
  BY DEF ListIInv
<1>2. ASSUME list' = list PROVE HighBytes'
  BY <1>2 DEF HighBytes, IsExt
<1>3. CASE CopyPartition
  <2>1. PICK e : e = ListTable[slot]
    OBVIOUS
  <2>2. PICK b : b = Sector
    OBVIOUS
  <2>3. PICK l : l = (partnum.lo + 1) % 256
    OBVIOUS
  <2>4. PICK x : x = [lo |-> l, hi |-> 0, type |-> e.type, start |-> e.at, len |-> e.len, base |-> b]
    OBVIOUS
  <2>5. list' = Append(list, x) /\ x.hi = 0
    BY <1>3, <2>1, <2>2, <2>3, <2>4 DEF CopyPartition, Append1
  <2> QED
    BY <1>1, <2>5, HighAppend
<1>4. CASE CopyLink
  <2>1. PICK e : e = ListTable[slot]
    OBVIOUS
  <2>2. PICK b : b = LinkBase
    OBVIOUS
  <2>3. PICK n : n = [partnum EXCEPT !.hi = partnum.hi + 1]
    OBVIOUS
  <2>4. PICK x : x = [lo |-> n.lo, hi |-> n.hi, type |-> e.type, start |-> e.at, len |-> e.len, base |-> b]
    OBVIOUS
  <2>5. list' = Append(list, x) /\ IsExt(x)
    BY <1>4, <2>1, <2>2, <2>3, <2>4 DEF CopyLink, Append1, IsLink, IsExt
  <2> QED
    BY <1>1, <2>5, HighAppend
<1>5. CASE CopyGpt
  <2>1. OnGpt
    <3>1. lpc = "gpt"
      BY <1>5 DEF CopyGpt
    <3> QED
      BY <3>1 DEF ListIInv, OnMbr
  <2>2. PICK d : d = disk[1][GptIndex]
    OBVIOUS
  <2>3. PICK l : l = (partnum.lo + 1) % 256
    OBVIOUS
  <2>4. PICK h : h = partnum.hi
    OBVIOUS
  <2>5. PICK x : x = [lo |-> l, hi |-> h, type |-> "data",
                      start |-> d.first, len |-> d.last - d.first, base |-> 0]
    OBVIOUS
  <2>6. list' = Append(list, x)
    BY <1>5, <2>2, <2>3, <2>4, <2>5 DEF CopyGpt
  <2>7. x.hi = 0
    BY <2>1, <2>4, <2>5 DEF OnGpt
  <2> QED
    BY <1>1, <2>6, <2>7, HighAppend
<1>6. CASE UNCHANGED walkvars
  BY <1>2, <1>6 DEF walkvars, lvars
<1>7. CASE Install \/ Jump
  BY <1>2, <1>7 DEF Install, Jump, lvars
<1>8. CASE SkipFree \/ ReadTable \/ ExpandNext \/ EndAtBadTable \/ EndAtMaxNum \/ EndOfEntries \/ EndOfGpt
  BY <1>2, <1>8 DEF SkipFree, ReadTable, ExpandNext, EndAtBadTable, EndAtMaxNum, EndOfEntries, EndOfGpt, Done
<1> QED
  BY <1>3, <1>4, <1>5, <1>6, <1>7, <1>8 DEF WalksNext, Boot, ListTurn

\* The order of the numbers gives the order find assumes.
LEMMA ReadIsList ==
    ASSUME ListIInv, HighBytes, NEW active \in [Nat -> BOOLEAN]
    PROVE  AllRead(active) \in Seq(EntryType) /\ IsList(AllRead(active))
<1>1. PICK m : m = Len(list)
  OBVIOUS
<1>2. ListTypes /\ Ordered
  BY DEF ListIInv
<1>3. /\ m \in Nat \ {0}
      /\ \A k \in 1 .. m : /\ list[k].lo \in 0 .. 255 /\ list[k].hi \in 0 .. 255
                           /\ Where(list[k]) \in Nat
  BY <1>1, <1>2, ListIs
<1>4. PICK s : s = AllRead(active)
  OBVIOUS
<1>5. s = [k \in 1 .. m - 1 |-> AsRead(k + 1, active[k])]
  BY <1>1, <1>4 DEF AllRead
<1>6. MaxNum \in 5 .. 127
  BY Bounds
<1>7. ASSUME NEW k \in 1 .. m - 1
      PROVE  /\ list[k + 1].lo \in 0 .. 127 /\ list[k + 1].hi \in 0 .. 255
             /\ s[k].num = list[k + 1].lo + (256 * list[k + 1].hi)
             /\ s[k].type = "data" => list[k + 1].hi = 0
             /\ s[k] \in EntryType
  <2>1. PICK n : n = k + 1
    OBVIOUS
  <2>2. n \in 2 .. m /\ n \in 1 .. m /\ k \in Nat
    BY <1>3, <2>1
  <2>3. list[n].lo \in 0 .. MaxNum
    BY <1>1, <1>2, <2>2 DEF Ordered
  <2>4. PICK a, b : a = list[n].lo /\ b = list[n].hi
    OBVIOUS
  <2>5. a \in 0 .. 127
    BY <1>6, <2>3, <2>4
  <2>6. b \in 0 .. 255 /\ Where(list[n]) \in Nat
    BY <1>3, <2>2, <2>4
  <2>7. s[k] = AsRead(n, active[k]) /\ active[k] \in BOOLEAN
    BY <1>5, <2>1, <2>2
  <2>8. s[k].type = "data" => b = 0
    BY <1>1, <2>2, <2>4, <2>7 DEF AsRead, HighBytes
  <2>9. a + (256 * b) \in Nat
    BY <2>5, <2>6
  <2>10. s[k].num = a + (256 * b)
    BY <2>4, <2>7 DEF AsRead
  <2>11. s[k] \in EntryType
    BY <2>4, <2>6, <2>7, <2>9 DEF AsRead, EntryType
  <2> QED
    BY <2>1, <2>4, <2>5, <2>6, <2>8, <2>10, <2>11
<1>8. ASSUME NEW j \in 1 .. m - 1, NEW k \in 1 .. m - 1, j < k
      PROVE  /\ s[j].num # s[k].num
             /\ s[j].num \in 4 .. 127 => s[k].num \notin 0 .. 3
  <2>1. k + 1 \in 2 .. m /\ j + 1 \in 2 .. (k + 1) - 1
    BY <1>3, <1>8
  <2>2. Before(list[j + 1], list[k + 1])
    BY <1>1, <1>2, <2>1 DEF Ordered
  <2>3. PICK a, b, c, d : a = list[j + 1].lo /\ b = list[j + 1].hi /\ c = list[k + 1].lo /\ d = list[k + 1].hi
    OBVIOUS
  <2>4. /\ a \in 0 .. 127 /\ b \in 0 .. 255 /\ c \in 0 .. 127 /\ d \in 0 .. 255
        /\ s[j].num = a + (256 * b) /\ s[k].num = c + (256 * d)
    BY <1>7, <2>3
  <2>5. a < c \/ (a = c /\ b < d)
    BY <2>2, <2>3 DEF Before
  <2>6. a + (256 * b) # c + (256 * d)
    BY <2>4, <2>5
  <2>7. a + (256 * b) \in 4 .. 127 => c + (256 * d) \notin 0 .. 3
    BY <2>4, <2>5
  <2> QED
    BY <2>4, <2>6, <2>7
<1>9. DOMAIN s = 1 .. m - 1
  BY <1>5
<1>10. s \in Seq(EntryType)
  <2>1. m - 1 \in Nat
    BY <1>3
  <2> QED
    BY <1>5, <1>7, <1>9, <2>1
<1>11. \A j, k \in DOMAIN s : s[j].num = s[k].num => j = k
  <2>1. SUFFICES ASSUME NEW j \in 1 .. m - 1, NEW k \in 1 .. m - 1, s[j].num = s[k].num PROVE j = k
    BY <1>9
  <2>2. ~(j < k)
    BY <1>8, <2>1
  <2>3. ~(k < j)
    BY <1>8, <2>1
  <2> QED
    BY <1>3, <2>2, <2>3
<1>12. \A k \in DOMAIN s : s[k].type = "data" => s[k].num \in 0 .. 127
  <2>1. SUFFICES ASSUME NEW k \in 1 .. m - 1, s[k].type = "data" PROVE s[k].num \in 0 .. 127
    BY <1>9
  <2>2. PICK c, d : c = list[k + 1].lo /\ d = list[k + 1].hi
    OBVIOUS
  <2>3. c \in 0 .. 127 /\ d = 0 /\ s[k].num = c + (256 * d)
    BY <1>7, <2>1, <2>2
  <2>4. s[k].num = c
    BY <2>3
  <2> QED
    BY <2>3, <2>4
<1>13. \A j, k \in DOMAIN s : j < k /\ s[j].num \in 4 .. 127 => s[k].num \notin 0 .. 3
  BY <1>8, <1>9
<1>14. \A k \in DOMAIN s : s[k].num \notin {Whole, End.num}
  <2>1. SUFFICES ASSUME NEW k \in 1 .. m - 1 PROVE s[k].num # 255 /\ s[k].num # 65535
    BY <1>9 DEF Whole, End
  <2>2. PICK c, d : c = list[k + 1].lo /\ d = list[k + 1].hi
    OBVIOUS
  <2>3. c \in 0 .. 127 /\ d \in 0 .. 255 /\ s[k].num = c + (256 * d)
    BY <1>7, <2>2
  <2> QED
    BY <2>3
<1> QED
  BY <1>4, <1>10, <1>11, <1>12, <1>13, <1>14 DEF IsList

\* What find takes for granted of the list of a drive, list_partitions guarantees for
\* every disk.
THEOREM ListsAreAssumed ==
    WalksSpec => [](\A active \in [Nat -> BOOLEAN] :
                       AllRead(active) \in Seq(EntryType) /\ IsList(AllRead(active)))
<1>1. WalksInit => ListIInv /\ HighBytes
  <2>1. WalksInit => HighBytes
    <3>1. SUFFICES ASSUME WalksInit PROVE HighBytes
      OBVIOUS
    <3>2. Len(list) = 1
      BY <3>1 DEF WalksInit, ListInit
    <3> QED
      BY <3>2 DEF HighBytes
  <2> QED
    BY <2>1, ListInitially
<1>2. ListIInv /\ HighBytes /\ [WalksNext]_walkvars => ListIInv' /\ HighBytes'
  BY ListSteps, HighSteps
<1>3. ListIInv /\ HighBytes => \A active \in [Nat -> BOOLEAN] :
                                  AllRead(active) \in Seq(EntryType) /\ IsList(AllRead(active))
  BY ReadIsList
<1> QED
  BY <1>1, <1>2, <1>3, PTL DEF WalksSpec
=============================================================================
