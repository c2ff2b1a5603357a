--------------------------- MODULE FbFilesProofs ----------------------------
(***************************************************************************)
(* Theorems about FbStore, for every geometry of the disk, every set of    *)
(* names, inputs and archives and any number of commands.                  *)
(*                                                                         *)
(* First the placement of files, the list and the marks of the sectors.    *)
(* Then that FbStore implements FileStore: every command commits the files *)
(* it is to make, byte for byte, and an interruption damages no file but   *)
(* those the command writes.  And the list that names them always has room *)
(* for its terminator.                                                     *)
(***************************************************************************)
EXTENDS FbStore, SequenceTheorems, FiniteSetTheorems, FunctionTheorems,
        WellFoundedInduction, TLAPS

-----------------------------------------------------------------------------
(***************************************************************************)
(* Sizes in blocks.                                                        *)
(***************************************************************************)

\* CeilDiv is the least number of blocks that hold size bytes.
LEMMA CeilDivBounds ==
    ASSUME NEW size \in Nat \ {0}, NEW block \in Nat \ {0}
    PROVE  /\ CeilDiv(size, block) \in Nat \ {0}
           /\ size =< block * CeilDiv(size, block)
           /\ block * CeilDiv(size, block) < size + block
<1> DEFINE q == (size + block - 1) \div block
<1>1. /\ q \in Nat
      /\ block * q =< size + block - 1
      /\ size + block - 1 < block * q + block
  OBVIOUS
<1>2. q # 0
  BY <1>1
<1> QED
  BY <1>1, <1>2 DEF CeilDiv

\* A positive factor cancels.
LEMMA ProductLess ==
    ASSUME NEW p \in Nat \ {0}, NEW u \in Int, NEW v \in Int, p * u < p * v
    PROVE  u < v
  OBVIOUS

\* A smaller file needs no more blocks.
LEMMA CeilDivMonotone ==
    ASSUME NEW size \in Nat \ {0}, NEW larger \in Nat \ {0}, size =< larger,
           NEW block \in Nat \ {0}
    PROVE  CeilDiv(size, block) =< CeilDiv(larger, block)
<1> DEFINE q == CeilDiv(size, block)
           r == CeilDiv(larger, block)
<1>1. /\ q \in Nat /\ r \in Nat
      /\ block * q < size + block
      /\ larger =< block * r
  BY CeilDivBounds
<1>2. block * (q - 1) < block * r
  BY <1>1
<1>3. q - 1 < r
  BY <1>1, <1>2, ProductLess
<1> QED
  BY <1>1, <1>3

\* A file needs no more of the larger blocks than of the smaller ones.
LEMMA CeilDivBlock ==
    ASSUME NEW size \in Nat \ {0}
    PROVE  CeilDiv(size, ExtBlock) =< CeilDiv(size, PriBlock)
<1> DEFINE q == CeilDiv(size, ExtBlock)
           r == CeilDiv(size, PriBlock)
<1>1. /\ PriBlock \in Nat \ {0} /\ ExtBlock \in Nat \ {0} /\ PriBlock < ExtBlock
  BY BlockAssumption
<1>2. /\ q \in Nat /\ r \in Nat
      /\ ExtBlock * q < size + ExtBlock
      /\ size =< PriBlock * r
  BY <1>1, CeilDivBounds
<1>3. PriBlock * r =< ExtBlock * r
  BY <1>1, <1>2
<1>4. ExtBlock * (q - 1) < ExtBlock * r
  BY <1>1, <1>2, <1>3
<1>5. q - 1 < r
  BY <1>1, <1>2, <1>4, ProductLess
<1> QED
  BY <1>2, <1>5

-----------------------------------------------------------------------------
(***************************************************************************)
(* Insertion and removal, item by item.                                    *)
(***************************************************************************)

\* The items of a sequence after an insertion.
LEMMA InsertAtItems ==
    ASSUME NEW S, NEW list \in Seq(S), NEW e \in S, NEW i \in 1 .. Len(list) + 1
    PROVE  /\ InsertAt(list, i, e) \in Seq(S)
           /\ Len(InsertAt(list, i, e)) = Len(list) + 1
           /\ \A j \in 1 .. Len(list) + 1 :
                 InsertAt(list, i, e)[j] = IF j < i THEN list[j]
                                           ELSE IF j = i THEN e ELSE list[j - 1]
<1> DEFINE front == SubSeq(list, 1, i - 1)
           back == SubSeq(list, i, Len(list))
<1>1. /\ front \in Seq(S) /\ Len(front) = i - 1
      /\ \A j \in 1 .. i - 1 : front[j] = list[j]
  BY SubSeqProperties
<1>2. /\ back \in Seq(S) /\ Len(back) = Len(list) - i + 1
      /\ \A j \in 1 .. Len(list) - i + 1 : back[j] = list[i + j - 1]
  BY SubSeqProperties
<1>3. /\ front \o <<e>> \in Seq(S) /\ Len(front \o <<e>>) = i
      /\ \A j \in 1 .. i : (front \o <<e>>)[j] = IF j < i THEN list[j] ELSE e
  BY <1>1, ConcatProperties
<1>4. InsertAt(list, i, e) = (front \o <<e>>) \o back
  BY DEF InsertAt
<1> DEFINE head == front \o <<e>>
<1>5. /\ head \in Seq(S) /\ Len(head) = i
      /\ back \in Seq(S) /\ Len(back) = Len(list) - i + 1
      /\ \A j \in 1 .. i : head[j] = IF j < i THEN list[j] ELSE e
      /\ \A j \in 1 .. Len(list) - i + 1 : back[j] = list[i + j - 1]
  BY <1>2, <1>3
<1> HIDE DEF head, back
<1>6. /\ head \o back \in Seq(S)
      /\ Len(head \o back) = Len(head) + Len(back)
      /\ \A j \in 1 .. Len(head) + Len(back) :
            (head \o back)[j] = IF j =< Len(head) THEN head[j] ELSE back[j - Len(head)]
  BY <1>5, ConcatProperties
<1>7. InsertAt(list, i, e) = head \o back
  BY <1>4 DEF head, back
<1> QED
  <2>1. InsertAt(list, i, e) \in Seq(S) /\ Len(InsertAt(list, i, e)) = Len(list) + 1
    BY <1>5, <1>6, <1>7
  <2>2. ASSUME NEW j \in 1 .. Len(list) + 1
        PROVE  InsertAt(list, i, e)[j] = IF j < i THEN list[j]
                                         ELSE IF j = i THEN e ELSE list[j - 1]
    <3>1. CASE j =< i
      BY <1>5, <1>6, <1>7, <3>1
    <3>2. CASE j > i
      <4>1. j - i \in 1 .. Len(list) - i + 1
        BY <3>2
      <4>2. InsertAt(list, i, e)[j] = back[j - i]
        BY <1>5, <1>6, <1>7, <3>2
      <4>3. back[j - i] = list[i + (j - i) - 1]
        BY <1>5, <4>1
      <4>4. i + (j - i) - 1 = j - 1
        OBVIOUS
      <4> QED
        BY <3>2, <4>2, <4>3, <4>4
    <3> QED
      BY <3>1, <3>2
  <2> QED
    BY <2>1, <2>2

\* The items of a sequence after a removal.
LEMMA RemoveAtItems ==
    ASSUME NEW S, NEW list \in Seq(S), NEW i \in 1 .. Len(list)
    PROVE  /\ RemoveAt(list, i) \in Seq(S)
           /\ Len(RemoveAt(list, i)) = Len(list) - 1
           /\ \A j \in 1 .. Len(list) - 1 :
                 RemoveAt(list, i)[j] = IF j < i THEN list[j] ELSE list[j + 1]
<1> DEFINE front == SubSeq(list, 1, i - 1)
           back == SubSeq(list, i + 1, Len(list))
<1>1. /\ front \in Seq(S) /\ Len(front) = i - 1
      /\ \A j \in 1 .. i - 1 : front[j] = list[j]
  BY SubSeqProperties
<1>2. /\ back \in Seq(S) /\ Len(back) = Len(list) - i
      /\ \A j \in 1 .. Len(list) - i : back[j] = list[i + j]
  BY SubSeqProperties
<1>3. RemoveAt(list, i) = front \o back
  BY DEF RemoveAt
<1> HIDE DEF front, back
<1>4. /\ front \o back \in Seq(S)
      /\ Len(front \o back) = Len(front) + Len(back)
      /\ \A j \in 1 .. Len(front) + Len(back) :
            (front \o back)[j] = IF j =< Len(front) THEN front[j] ELSE back[j - Len(front)]
  BY <1>1, <1>2, ConcatProperties
<1> QED
  BY <1>1, <1>2, <1>3, <1>4

-----------------------------------------------------------------------------
(***************************************************************************)
(* Items and their names.                                                  *)
(***************************************************************************)

\* A file has at least one block, so it ends after it starts.
LEMMA ItemExtent ==
    ASSUME NEW f \in ItemType
    PROVE  /\ f.start \in Nat /\ f.size \in Nat \ {0} /\ f.name \in Names
           /\ BlockOf(f.start) \in Nat \ {0}
           /\ Blocks(f) \in Nat \ {0}
           /\ FileEnd(f) \in Nat
           /\ f.start < FileEnd(f)
<1>1. f.start \in Nat /\ f.size \in Nat \ {0} /\ f.name \in Names
  BY DEF ItemType
<1>2. BlockOf(f.start) \in Nat \ {0}
  BY BlockAssumption DEF BlockOf
<1>3. Blocks(f) \in Nat \ {0}
  BY <1>1, <1>2, CeilDivBounds DEF Blocks
<1> QED
  BY <1>1, <1>2, <1>3 DEF FileEnd

\* find_file returns an item of that name.
LEMMA PositionOfName ==
    ASSUME NEW list \in Seq(ItemType), NEW name \in NamesOf(list)
    PROVE  /\ Position(list, name) \in 1 .. Len(list)
           /\ list[Position(list, name)].name = name
<1>1. \E i \in 1 .. Len(list) : list[i].name = name
  BY DEF NamesOf
<1> QED
  BY <1>1 DEF Position

\* del_file: the list stays well formed, and the name is gone.
LEMMA WithoutKeepsLayout ==
    ASSUME NEW list \in Seq(ItemType), NEW name, LayoutOK(list)
    PROVE  /\ Without(list, name) \in Seq(ItemType)
           /\ LayoutOK(Without(list, name))
           /\ name \notin NamesOf(Without(list, name))
<1>1. CASE name \notin NamesOf(list)
  BY <1>1 DEF Without
<1>2. CASE name \in NamesOf(list)
  <2> DEFINE p == Position(list, name)
             short == RemoveAt(list, p)
  <2>1. p \in 1 .. Len(list) /\ list[p].name = name
    BY <1>2, PositionOfName
  <2> HIDE DEF p
  <2>2. /\ short \in Seq(ItemType)
        /\ Len(short) = Len(list) - 1
        /\ \A j \in 1 .. Len(list) - 1 : short[j] = IF j < p THEN list[j] ELSE list[j + 1]
    BY <2>1, RemoveAtItems
  <2> HIDE DEF short
  <2> DEFINE old(j) == IF j < p THEN j ELSE j + 1
  <2>3. \A j \in 1 .. Len(short) : /\ old(j) \in 1 .. Len(list)
                                    /\ old(j) # p
                                    /\ short[j] = list[old(j)]
    <3> SUFFICES ASSUME NEW j \in 1 .. Len(short)
                 PROVE  old(j) \in 1 .. Len(list) /\ old(j) # p /\ short[j] = list[old(j)]
      OBVIOUS
    <3>1. CASE j < p
      <4>1. old(j) = j
        BY <3>1
      <4> QED
        BY <2>1, <2>2, <3>1, <4>1
    <3>2. CASE ~(j < p)
      <4>1. old(j) = j + 1
        BY <3>2
      <4>2. j \in 1 .. Len(list) - 1 /\ p \in Nat
        BY <2>1, <2>2
      <4>3. short[j] = list[j + 1]
        BY <2>2, <3>2, <4>2
      <4>4. j + 1 \in 1 .. Len(list) /\ j + 1 # p
        BY <3>2, <4>2
      <4> QED
        BY <4>1, <4>3, <4>4
    <3> QED
      BY <3>1, <3>2
  <2>4. \A i, j \in 1 .. Len(short) : i < j => old(i) < old(j)
    BY <2>1
  <2>5. \A i, j \in 1 .. Len(short) : old(i) = old(j) => i = j
    BY <2>1
  <2> HIDE DEF old
  <2>6. InOrder(short)
    BY <2>3, <2>4 DEF LayoutOK, InOrder
  <2>7. InAreas(short)
    BY <2>3 DEF LayoutOK, InAreas
  <2>8. UniqueNames(short)
    BY <2>3, <2>5 DEF LayoutOK, UniqueNames
  <2>9. name \notin NamesOf(short)
    BY <2>1, <2>3 DEF NamesOf, LayoutOK, UniqueNames
  <2>10. Without(list, name) = short
    BY <1>2 DEF Without, short, p
  <2> QED
    BY <2>2, <2>6, <2>7, <2>8, <2>9, <2>10 DEF LayoutOK
<1> QED
  BY <1>1, <1>2

\* del_file: the other names stay.
LEMMA OthersKept ==
    ASSUME NEW list \in Seq(ItemType), NEW name, NEW other \in NamesOf(list), other # name
    PROVE  other \in NamesOf(Without(list, name))
<1>1. CASE name \notin NamesOf(list)
  BY <1>1 DEF Without
<1>2. CASE name \in NamesOf(list)
  <2> DEFINE p == Position(list, name)
             short == RemoveAt(list, p)
  <2>1. p \in 1 .. Len(list) /\ list[p].name = name
    BY <1>2, PositionOfName
  <2> HIDE DEF p
  <2>2. /\ Len(short) = Len(list) - 1
        /\ \A j \in 1 .. Len(list) - 1 : short[j] = IF j < p THEN list[j] ELSE list[j + 1]
    BY <2>1, RemoveAtItems
  <2> HIDE DEF short
  <2>3. PICK k \in 1 .. Len(list) : list[k].name = other
    BY DEF NamesOf
  <2>4. k < p \/ k > p
    BY <2>1, <2>3
  <2>5. \E j \in 1 .. Len(short) : short[j] = list[k]
    <3>1. CASE k < p
      BY <2>1, <2>2, <3>1
    <3>2. CASE k > p
      <4>1. k - 1 \in 1 .. Len(short) /\ ~(k - 1 < p) /\ (k - 1) + 1 = k
        BY <2>1, <2>2, <3>2
      <4>2. short[k - 1] = list[k]
        BY <2>1, <2>2, <4>1
      <4> QED
        BY <4>1, <4>2
    <3> QED
      BY <2>4, <3>1, <3>2
  <2>6. Without(list, name) = short
    BY <1>2 DEF Without, short, p
  <2> QED
    BY <2>3, <2>5, <2>6 DEF NamesOf
<1> QED
  BY <1>1, <1>2

-----------------------------------------------------------------------------
(***************************************************************************)
(* Gaps, and a file placed in one.                                         *)
(***************************************************************************)

\* The items before a gap end before it, those after it start after it.
LEMMA GapBounds ==
    ASSUME NEW list \in Seq(ItemType), LayoutOK(list), NEW i \in Gaps(list)
    PROVE  /\ GapBegin(list, i) \in Nat /\ DataBegin =< GapBegin(list, i)
           /\ GapEnd(list, i) \in Nat /\ GapEnd(list, i) =< TotalSize
           /\ \A j \in 1 .. i - 1 : FileEnd(list[j]) =< GapBegin(list, i)
           /\ \A j \in i .. Len(list) : GapEnd(list, i) =< list[j].start
<1>1. \A j \in 1 .. Len(list) : /\ list[j] \in ItemType
                                 /\ list[j].start \in Nat /\ FileEnd(list[j]) \in Nat
                                 /\ list[j].start < FileEnd(list[j])
  BY ItemExtent
<1>2. \A j \in 1 .. Len(list) : DataBegin =< list[j].start /\ FileEnd(list[j]) =< TotalSize
  BY DEF LayoutOK, InAreas
<1>3. \A j, k \in 1 .. Len(list) : j < k => FileEnd(list[j]) =< list[k].start
  BY DEF LayoutOK, InOrder
<1>4. i \in 1 .. Len(list) + 1
  BY DEF Gaps
<1>5. /\ GapBegin(list, i) \in Nat /\ DataBegin =< GapBegin(list, i)
      /\ \A j \in 1 .. i - 1 : FileEnd(list[j]) =< GapBegin(list, i)
  <2>1. CASE i = 1
    BY <2>1, AreaAssumption DEF GapBegin
  <2>2. CASE i # 1
    <3>1. i - 1 \in 1 .. Len(list) /\ GapBegin(list, i) = FileEnd(list[i - 1])
      BY <1>4, <2>2 DEF GapBegin
    <3>2. GapBegin(list, i) \in Nat /\ DataBegin =< GapBegin(list, i)
      BY <1>1, <1>2, <3>1, AreaAssumption
    <3>3. ASSUME NEW j \in 1 .. i - 1 PROVE FileEnd(list[j]) =< GapBegin(list, i)
      <4>1. j \in 1 .. Len(list) /\ (j = i - 1 \/ j < i - 1)
        BY <1>4
      <4> QED
        BY <1>1, <1>3, <3>1, <4>1
    <3> QED
      BY <3>2, <3>3
  <2> QED
    BY <2>1, <2>2
<1>6. /\ GapEnd(list, i) \in Nat /\ GapEnd(list, i) =< TotalSize
      /\ \A j \in i .. Len(list) : GapEnd(list, i) =< list[j].start
  <2>1. CASE i = Len(list) + 1
    BY <2>1, AreaAssumption DEF GapEnd
  <2>2. CASE i # Len(list) + 1
    <3>1. i \in 1 .. Len(list) /\ GapEnd(list, i) = list[i].start
      BY <1>4, <2>2 DEF GapEnd
    <3>2. GapEnd(list, i) \in Nat /\ GapEnd(list, i) =< TotalSize
      BY <1>1, <1>2, <3>1, AreaAssumption
    <3>3. ASSUME NEW j \in i .. Len(list) PROVE GapEnd(list, i) =< list[j].start
      <4>1. j \in 1 .. Len(list) /\ (j = i \/ i < j)
        BY <1>4
      <4> QED
        BY <1>1, <1>3, <3>1, <4>1
    <3> QED
      BY <3>2, <3>3
  <2> QED
    BY <2>1, <2>2
<1> QED
  BY <1>5, <1>6

\* After a straddling gap all gaps are in the extended area.
LEMMA AfterStraddling ==
    ASSUME NEW list \in Seq(ItemType), LayoutOK(list), NEW i \in Gaps(list),
           NEW j \in 1 .. i - 1, Straddles(list, j)
    PROVE  ~InPrimary(GapBegin(list, i))
<1>1. i \in 1 .. Len(list) + 1 /\ j \in 1 .. Len(list) /\ j \in 1 .. i - 1
  BY DEF Gaps
<1>2. PriSize < list[j].start
  BY <1>1 DEF Straddles, GapEnd
<1>3. FileEnd(list[j]) =< GapBegin(list, i) /\ GapBegin(list, i) \in Nat
  BY <1>1, GapBounds
<1>4. list[j].start \in Nat /\ FileEnd(list[j]) \in Nat /\ list[j].start < FileEnd(list[j])
  BY <1>1, ItemExtent
<1> QED
  BY <1>2, <1>3, <1>4, AreaAssumption DEF InPrimary

\* check_space: a file put where it fits lies in its gap and in one area.
LEMMA PlacedInGap ==
    ASSUME NEW list \in Seq(ItemType), LayoutOK(list), NEW i \in Gaps(list),
           NEW f \in ItemType, NEW ext \in BOOLEAN,
           Fits(list, i, f.size, ext), f.start = StartIn(list, i, f.size, ext)
    PROVE  /\ GapBegin(list, i) =< f.start
           /\ FileEnd(f) =< GapEnd(list, i)
           /\ InPrimary(f.start) => FileEnd(f) =< PriSize
<1> DEFINE lo == GapBegin(list, i)
           hi == GapEnd(list, i)
           pri == CeilDiv(f.size, PriBlock)
           new == CeilDiv(f.size, ExtBlock)
           count == CountAt(list, i, f.size)
<1>1. lo \in Nat /\ hi \in Nat /\ f.start \in Nat
  BY GapBounds, ItemExtent
<1>2. pri \in Nat /\ new \in Nat /\ new =< pri
  BY ItemExtent, BlockAssumption, CeilDivBounds, CeilDivBlock
<1>3. FileEnd(f) = f.start + (IF InPrimary(f.start) THEN pri ELSE new)
  BY DEF FileEnd, Blocks, BlockOf
<1>4. count \in Nat /\ new =< count
  BY <1>2 DEF CountAt
<1>5. InPrimary(lo) => count = pri
  BY AfterStraddling DEF CountAt
<1>6. CASE FitsBefore(list, i, f.size, ext)
  <2>1. f.start = lo /\ lo < PriSize /\ PriSize < hi /\ PriSize - lo >= count
    BY <1>6 DEF FitsBefore, StartIn, Straddles
  <2> QED
    BY <1>1, <1>2, <1>3, <1>5, <2>1, AreaAssumption DEF InPrimary
<1>7. CASE FitsWhole(list, i, f.size, ext)
  <2>1. f.start = lo /\ hi - lo >= count /\ (lo >= PriSize \/ hi =< PriSize)
    BY <1>1, <1>7, AreaAssumption DEF FitsWhole, StartIn, Straddles
  <2>2. CASE InPrimary(lo)
    BY <1>1, <1>2, <1>3, <1>5, <2>1, <2>2, AreaAssumption DEF InPrimary
  <2>3. CASE ~InPrimary(lo)
    BY <1>1, <1>2, <1>3, <1>4, <2>1, <2>3, AreaAssumption DEF InPrimary
  <2> QED
    BY <2>2, <2>3
<1>8. CASE ~FitsBefore(list, i, f.size, ext) /\ ~FitsWhole(list, i, f.size, ext)
  <2>1. f.start = PriSize /\ lo < PriSize /\ hi - PriSize >= new
    BY <1>8 DEF Fits, FitsAfter, StartIn, Straddles
  <2> QED
    BY <1>1, <1>2, <1>3, <2>1, AreaAssumption DEF InPrimary
<1> QED
  BY <1>6, <1>7, <1>8

\* alloc_file: inserting a new file where it fits keeps the list well formed.
LEMMA InsertKeepsLayout ==
    ASSUME NEW list \in Seq(ItemType), LayoutOK(list), NEW i \in Gaps(list),
           NEW f \in ItemType, NEW ext \in BOOLEAN,
           Fits(list, i, f.size, ext), f.start = StartIn(list, i, f.size, ext),
           f.name \notin NamesOf(list)
    PROVE  /\ InsertAt(list, i, f) \in Seq(ItemType)
           /\ LayoutOK(InsertAt(list, i, f))
<1> DEFINE long == InsertAt(list, i, f)
           old(j) == IF j < i THEN j ELSE j - 1
<1>1. i \in 1 .. Len(list) + 1 /\ Len(list) \in Nat
  BY DEF Gaps
<1>2. /\ long \in Seq(ItemType)
      /\ Len(long) = Len(list) + 1
      /\ \A j \in 1 .. Len(list) + 1 :
            long[j] = IF j < i THEN list[j] ELSE IF j = i THEN f ELSE list[j - 1]
  BY <1>1, InsertAtItems
<1> HIDE DEF long
<1>3. \A j \in 1 .. Len(long) : j # i => old(j) \in 1 .. Len(list) /\ long[j] = list[old(j)]
  BY <1>1, <1>2
<1>4. long[i] = f
  BY <1>1, <1>2
<1>5. \A j, k \in 1 .. Len(long) : j # i /\ k # i /\ j < k => old(j) < old(k)
  BY <1>1
<1>6. \A j \in 1 .. Len(long) : j < i => old(j) \in 1 .. i - 1
  BY <1>1
<1>7. \A j \in 1 .. Len(long) : i < j => old(j) \in i .. Len(list)
  BY <1>1, <1>2
<1>8. \A j, k \in 1 .. Len(long) : j # i /\ k # i /\ old(j) = old(k) => j = k
  BY <1>1
<1> HIDE DEF old
<1>9. /\ GapBegin(list, i) =< f.start
      /\ FileEnd(f) =< GapEnd(list, i)
      /\ InPrimary(f.start) => FileEnd(f) =< PriSize
  BY PlacedInGap
<1>10. /\ GapBegin(list, i) \in Nat /\ DataBegin =< GapBegin(list, i)
       /\ GapEnd(list, i) \in Nat /\ GapEnd(list, i) =< TotalSize
       /\ \A j \in 1 .. i - 1 : FileEnd(list[j]) =< GapBegin(list, i)
       /\ \A j \in i .. Len(list) : GapEnd(list, i) =< list[j].start
  BY GapBounds
<1>11. f.start \in Nat /\ FileEnd(f) \in Nat
  BY ItemExtent
<1>12. \A j \in 1 .. Len(list) : list[j].start \in Nat /\ FileEnd(list[j]) \in Nat
  BY ItemExtent
<1>13. InOrder(long)
  <2> SUFFICES ASSUME NEW j \in 1 .. Len(long), NEW k \in 1 .. Len(long), j < k
               PROVE  FileEnd(long[j]) =< long[k].start
    BY DEF InOrder
  <2>1. CASE j = i
    <3>1. k # i /\ old(k) \in i .. Len(list) /\ long[k] = list[old(k)]
      BY <1>3, <1>7, <2>1
    <3>2. GapEnd(list, i) =< list[old(k)].start /\ list[old(k)].start \in Nat
      BY <1>1, <1>3, <1>10, <1>12, <3>1
    <3> QED
      BY <1>4, <1>9, <1>10, <1>11, <2>1, <3>1, <3>2
  <2>2. CASE k = i
    <3>1. j # i /\ old(j) \in 1 .. i - 1 /\ long[j] = list[old(j)]
      BY <1>3, <1>6, <2>2
    <3>2. FileEnd(list[old(j)]) =< GapBegin(list, i) /\ FileEnd(list[old(j)]) \in Nat
      BY <1>1, <1>3, <1>10, <1>12, <3>1
    <3> QED
      BY <1>4, <1>9, <1>10, <1>11, <2>2, <3>1, <3>2
  <2>3. CASE j # i /\ k # i
    BY <1>3, <1>5, <2>3 DEF LayoutOK, InOrder
  <2> QED
    BY <2>1, <2>2, <2>3
<1>14. InAreas(long)
  <2> SUFFICES ASSUME NEW j \in 1 .. Len(long)
               PROVE  /\ DataBegin =< long[j].start
                      /\ FileEnd(long[j]) =< TotalSize
                      /\ InPrimary(long[j].start) => FileEnd(long[j]) =< PriSize
    BY DEF InAreas
  <2>1. CASE j = i
    BY <1>4, <1>9, <1>10, <1>11, <2>1, AreaAssumption
  <2>2. CASE j # i
    BY <1>3, <2>2 DEF LayoutOK, InAreas
  <2> QED
    BY <2>1, <2>2
<1>15. UniqueNames(long)
  <2>1. \A j \in 1 .. Len(long) : j # i => long[j].name \in NamesOf(list)
    BY <1>3 DEF NamesOf
  <2> QED
    BY <1>3, <1>4, <1>8, <2>1 DEF LayoutOK, UniqueNames
<1> QED
  BY <1>2, <1>13, <1>14, <1>15 DEF LayoutOK, long

-----------------------------------------------------------------------------
(***************************************************************************)
(* Changes to one item.                                                    *)
(***************************************************************************)

\* resize_file: a file may shrink in place.
LEMMA ShrinkKeepsLayout ==
    ASSUME NEW list \in Seq(ItemType), LayoutOK(list),
           NEW p \in 1 .. Len(list), NEW size \in Nat \ {0}, size =< list[p].size
    PROVE  /\ [list EXCEPT ![p].size = size] \in Seq(ItemType)
           /\ LayoutOK([list EXCEPT ![p].size = size])
<1> DEFINE g == [list[p] EXCEPT !.size = size]
           new == [list EXCEPT ![p] = g]
<1>1. list[p] \in ItemType
  OBVIOUS
<1>2. /\ g \in ItemType /\ g.start = list[p].start
      /\ g.size = size /\ g.name = list[p].name
  BY <1>1 DEF ItemType
<1>3. /\ new \in Seq(ItemType) /\ Len(new) = Len(list)
      /\ \A j \in 1 .. Len(list) : new[j] = IF j = p THEN g ELSE list[j]
  BY <1>2
<1> HIDE DEF g, new
<1>4. FileEnd(g) =< FileEnd(list[p])
  <2>1. /\ list[p].start \in Nat /\ list[p].size \in Nat \ {0}
        /\ BlockOf(list[p].start) \in Nat \ {0}
        /\ Blocks(list[p]) \in Nat /\ Blocks(g) \in Nat
    BY <1>1, <1>2, ItemExtent
  <2>2. Blocks(g) =< Blocks(list[p])
    BY <1>2, <2>1, CeilDivMonotone DEF Blocks
  <2> QED
    BY <1>2, <2>1, <2>2 DEF FileEnd
<1>5. \A j \in 1 .. Len(list) : /\ new[j].start = list[j].start
                                 /\ new[j].name = list[j].name
                                 /\ FileEnd(new[j]) =< FileEnd(list[j])
                                 /\ FileEnd(new[j]) \in Nat
                                 /\ FileEnd(list[j]) \in Nat
                                 /\ list[j].start \in Nat
  <2> TAKE j \in 1 .. Len(list)
  <2>1. list[j] \in ItemType /\ new[j] \in ItemType
    BY <1>2, <1>3
  <2>2. FileEnd(new[j]) \in Nat /\ FileEnd(list[j]) \in Nat /\ list[j].start \in Nat
    BY <2>1, ItemExtent
  <2> QED
    BY <1>2, <1>3, <1>4, <2>2
<1>6. InOrder(new)
  BY <1>3, <1>5 DEF LayoutOK, InOrder
<1>7. InAreas(new)
  BY <1>3, <1>5, AreaAssumption DEF LayoutOK, InAreas
<1>8. UniqueNames(new)
  BY <1>3, <1>5 DEF LayoutOK, UniqueNames
<1> QED
  BY <1>3, <1>6, <1>7, <1>8 DEF LayoutOK, new, g

\* move_file: a file may take a name no file has.
LEMMA RenameKeepsLayout ==
    ASSUME NEW list \in Seq(ItemType), LayoutOK(list),
           NEW p \in 1 .. Len(list), NEW name \in Names, name \notin NamesOf(list)
    PROVE  /\ [list EXCEPT ![p].name = name] \in Seq(ItemType)
           /\ LayoutOK([list EXCEPT ![p].name = name])
<1> DEFINE g == [list[p] EXCEPT !.name = name]
           new == [list EXCEPT ![p] = g]
<1>1. list[p] \in ItemType
  OBVIOUS
<1>2. /\ g \in ItemType /\ g.start = list[p].start
      /\ g.size = list[p].size /\ g.name = name
  BY <1>1 DEF ItemType
<1>3. /\ new \in Seq(ItemType) /\ Len(new) = Len(list)
      /\ \A j \in 1 .. Len(list) : new[j] = IF j = p THEN g ELSE list[j]
  BY <1>2
<1> HIDE DEF g, new
<1>4. \A j \in 1 .. Len(list) : /\ new[j].start = list[j].start
                                 /\ FileEnd(new[j]) = FileEnd(list[j])
  BY <1>2, <1>3 DEF FileEnd, Blocks
<1>5. InOrder(new)
  BY <1>3, <1>4 DEF LayoutOK, InOrder
<1>6. InAreas(new)
  BY <1>3, <1>4 DEF LayoutOK, InAreas
<1>7. UniqueNames(new)
  BY <1>2, <1>3 DEF LayoutOK, UniqueNames, NamesOf
<1> QED
  BY <1>3, <1>5, <1>6, <1>7 DEF LayoutOK, new, g

\* syslinux_patch: the flags of an item do not matter.
LEMMA FlagKeepsLayout ==
    ASSUME NEW list \in Seq(ItemType), LayoutOK(list), NEW p \in 1 .. Len(list)
    PROVE  /\ [list EXCEPT ![p].sys = TRUE] \in Seq(ItemType)
           /\ LayoutOK([list EXCEPT ![p].sys = TRUE])
<1> DEFINE g == [list[p] EXCEPT !.sys = TRUE]
           new == [list EXCEPT ![p] = g]
<1>1. list[p] \in ItemType
  OBVIOUS
<1>2. /\ g \in ItemType /\ g.start = list[p].start
      /\ g.size = list[p].size /\ g.name = list[p].name
  BY <1>1 DEF ItemType
<1>3. /\ new \in Seq(ItemType) /\ Len(new) = Len(list)
      /\ \A j \in 1 .. Len(list) : new[j] = IF j = p THEN g ELSE list[j]
  BY <1>2
<1> HIDE DEF g, new
<1>4. \A j \in 1 .. Len(list) : /\ new[j].start = list[j].start
                                 /\ new[j].name = list[j].name
                                 /\ FileEnd(new[j]) = FileEnd(list[j])
  BY <1>2, <1>3 DEF FileEnd, Blocks
<1> QED
  BY <1>3, <1>4 DEF LayoutOK, InOrder, InAreas, UniqueNames, new, g

\* pack_disk: a file may move down, within its area, to where the files
\* before it end.
LEMMA SlideKeepsLayout ==
    ASSUME NEW list \in Seq(ItemType), LayoutOK(list),
           NEW p \in 1 .. Len(list), NEW b \in Nat,
           DataBegin =< b, b =< list[p].start,
           InPrimary(b) <=> InPrimary(list[p].start),
           \A j \in 1 .. p - 1 : FileEnd(list[j]) =< b
    PROVE  /\ [list EXCEPT ![p].start = b] \in Seq(ItemType)
           /\ LayoutOK([list EXCEPT ![p].start = b])
           /\ FileEnd([list EXCEPT ![p].start = b][p]) = b + Blocks(list[p])
<1> DEFINE g == [list[p] EXCEPT !.start = b]
           new == [list EXCEPT ![p] = g]
<1>1. list[p] \in ItemType
  OBVIOUS
<1>2. /\ g \in ItemType /\ g.start = b
      /\ g.size = list[p].size /\ g.name = list[p].name
  BY <1>1 DEF ItemType
<1>3. /\ new \in Seq(ItemType) /\ Len(new) = Len(list)
      /\ \A j \in 1 .. Len(list) : new[j] = IF j = p THEN g ELSE list[j]
  BY <1>2
<1> HIDE DEF g, new
<1>4. Blocks(g) = Blocks(list[p])
  BY <1>2 DEF Blocks, BlockOf
<1>5. FileEnd(g) = b + Blocks(list[p]) /\ FileEnd(g) \in Nat
  BY <1>2, <1>4, ItemExtent DEF FileEnd
<1>6. FileEnd(g) =< FileEnd(list[p]) /\ FileEnd(list[p]) \in Nat
  BY <1>1, <1>5, ItemExtent DEF FileEnd
<1>7. \A j \in 1 .. Len(list) : list[j].start \in Nat /\ FileEnd(list[j]) \in Nat
  BY ItemExtent
<1>8. InOrder(new)
  <2> SUFFICES ASSUME NEW j \in 1 .. Len(list), NEW k \in 1 .. Len(list), j < k
               PROVE  FileEnd(new[j]) =< new[k].start
    BY <1>3 DEF InOrder
  <2>1. FileEnd(list[j]) =< list[k].start
    BY DEF LayoutOK, InOrder
  <2>2. CASE k = p
    BY <1>2, <1>3, <2>2
  <2>3. CASE j = p
    BY <1>3, <1>5, <1>6, <1>7, <2>1, <2>3
  <2>4. CASE j # p /\ k # p
    BY <1>3, <2>1, <2>4
  <2> QED
    BY <2>2, <2>3, <2>4
<1>9. InAreas(new)
  <2> SUFFICES ASSUME NEW j \in 1 .. Len(list)
               PROVE  /\ DataBegin =< new[j].start
                      /\ FileEnd(new[j]) =< TotalSize
                      /\ InPrimary(new[j].start) => FileEnd(new[j]) =< PriSize
    BY <1>3 DEF InAreas
  <2>1. /\ DataBegin =< list[j].start
        /\ FileEnd(list[j]) =< TotalSize
        /\ InPrimary(list[j].start) => FileEnd(list[j]) =< PriSize
    BY DEF LayoutOK, InAreas
  <2>2. CASE j = p
    BY <1>2, <1>3, <1>5, <1>6, <2>1, <2>2, AreaAssumption
  <2>3. CASE j # p
    BY <1>3, <2>1, <2>3
  <2> QED
    BY <2>2, <2>3
<1>10. UniqueNames(new)
  BY <1>2, <1>3 DEF LayoutOK, UniqueNames
<1> QED
  BY <1>3, <1>5, <1>8, <1>9, <1>10 DEF LayoutOK, new, g

-----------------------------------------------------------------------------
(***************************************************************************)
(* The file lists stay well formed.                                        *)
(***************************************************************************)

\* A formatted disk has an empty list.
LEMMA LayoutInit == Init => LayoutIInv
<1> SUFFICES ASSUME Init PROVE LayoutIInv
  OBVIOUS
<1>1. dlist = <<>> /\ fb_list = <<>> /\ queue = <<>> /\ pc = "idle"
  BY DEF Init
<1>2. /\ dlist \in Seq(ItemType) /\ fb_list \in Seq(ItemType) /\ queue \in QueueType
      /\ Len(dlist) = 0 /\ Len(fb_list) = 0
  BY <1>1 DEF QueueType
<1>3. LayoutInv
  BY <1>2 DEF LayoutInv, LayoutOK, InOrder, InAreas, UniqueNames
<1> QED
  BY <1>1, <1>2, <1>3 DEF LayoutIInv, ReqOK, Storing, PackInv

\* A command that goes on with a well-formed list of its own.
LEMMA LayoutBegin ==
    ASSUME LayoutIInv, NEW next \in {"alloc", "commit"}, NEW list \in Seq(ItemType),
           LayoutOK(list), Begin(next, list), queue' \in QueueType,
           next = "alloc" => /\ req'.name \in Names
                             /\ req'.size \in Nat \ {0}
                             /\ req'.ext \in BOOLEAN
    PROVE  LayoutIInv'
<1>1. pc' = next /\ fb_list' = list /\ dlist' = dlist
  BY DEF Begin
<1> QED
  BY <1>1 DEF LayoutIInv, LayoutInv, ReqOK, Storing, PackInv

\* The beginning of each command.
LEMMA LayoutCommand == LayoutIInv /\ Command => LayoutIInv'
<1> SUFFICES ASSUME LayoutIInv, Command PROVE LayoutIInv'
  OBVIOUS
<1>1. /\ dlist \in Seq(ItemType) /\ LayoutOK(dlist) /\ queue \in QueueType
  BY DEF LayoutIInv, LayoutInv
<1>2. ASSUME NEW name \in Names, NEW data \in Datas, NEW ext \in BOOLEAN,
             NEW sys \in BOOLEAN, NEW stdin \in BOOLEAN, AddFile(name, data, ext, sys, stdin)
      PROVE  LayoutIInv'
  <2>1. Len(data) \in Nat \ {0}
    BY StoreAssumption
  <2>2. req'.name = name /\ req'.size = Len(data) /\ req'.ext = (~stdin /\ (ext \/ sys))
    BY <1>2 DEF AddFile, SaveReq
  <2> QED
    BY <1>1, <1>2, <2>1, <2>2, LayoutBegin DEF AddFile
<1>3. ASSUME NEW name \in Names, NEW items \in Datas, NEW append \in BOOLEAN,
             AddMenu(name, items, append)
      PROVE  LayoutIInv'
  <2> DEFINE file == Item(dlist, name)
             old == append /\ name \in NamesOf(dlist)
             data == Append(IF old THEN Front(Content(file)) \o items ELSE items, Term)
  <2>1. items \in Seq(Bytes)
    BY StoreAssumption
  <2>2. Len(data) \in Nat \ {0}
    <3>1. CASE ~old
      <4>1. items \in Seq(Bytes \cup {Term})
        BY <2>1
      <4> QED
        BY <3>1, <4>1, AppendProperties
    <3>2. CASE old
      <4>1. file \in ItemType
        BY <1>1, <3>2, PositionOfName DEF Item
      <4> DEFINE S == {ByteOf(file, i) : i \in 1 .. file.size} \cup Bytes \cup {Term}
                 c == Content(file)
      <4>2. file.size \in Nat \ {0}
        BY <4>1, ItemExtent
      <4>3. c \in Seq(S) /\ Len(c) = file.size
        BY <4>2 DEF Content
      <4> HIDE DEF c
      <4>4. Front(c) \in Seq(S)
        <5>1. \A i \in 1 .. Len(c) - 1 : c[i] \in S
          BY <4>2, <4>3
        <5> QED
          BY <4>2, <4>3, <5>1, SubSeqProperties DEF Front
      <4>5. items \in Seq(S) /\ Term \in S
        BY <2>1
      <4>6. Front(c) \o items \in Seq(S)
        BY <4>4, <4>5, ConcatProperties
      <4>7. Len(Append(Front(c) \o items, Term)) \in Nat \ {0}
        BY <4>5, <4>6, AppendProperties
      <4> QED
        BY <3>2, <4>7 DEF c
    <3> QED
      BY <3>1, <3>2
  <2> HIDE DEF data
  <2>3. Begin("alloc", dlist) /\ req' = SaveReq(name, data, FALSE, FALSE)
        /\ queue' = queue
    BY <1>3 DEF AddMenu, data
  <2>4. req'.name = name /\ req'.size = Len(data) /\ req'.ext = FALSE
    BY <2>3 DEF SaveReq
  <2> QED
    BY <1>1, <2>2, <2>3, <2>4, LayoutBegin
<1>4. ASSUME NEW name \in Names, NEW size \in Sizes, Shrink(name, size)
      PROVE  LayoutIInv'
  <2> DEFINE p == Position(dlist, name)
  <2>1. p \in 1 .. Len(dlist)
    BY <1>1, <1>4, PositionOfName DEF Shrink
  <2>2. size \in Nat \ {0} /\ size =< dlist[p].size
    <3>1. dlist[p].size \in Nat
      BY <1>1, <2>1, ItemExtent
    <3> QED
      BY <1>4, <3>1, StoreAssumption DEF Shrink, Item
  <2>3. /\ [dlist EXCEPT ![p].size = size] \in Seq(ItemType)
        /\ LayoutOK([dlist EXCEPT ![p].size = size])
    BY <1>1, <2>1, <2>2, ShrinkKeepsLayout
  <2> QED
    BY <1>1, <1>4, <2>3, LayoutBegin DEF Shrink
<1>5. ASSUME NEW name \in Names, NEW size \in Sizes, NEW ext \in BOOLEAN,
             Grow(name, size, ext)
      PROVE  LayoutIInv'
  <2>1. Without(dlist, name) \in Seq(ItemType) /\ LayoutOK(Without(dlist, name))
    BY <1>1, WithoutKeepsLayout
  <2>2. req'.name = name /\ req'.size = size /\ req'.ext \in BOOLEAN
    BY <1>5 DEF Grow, CpyReq
  <2> QED
    BY <1>1, <1>5, <2>1, <2>2, StoreAssumption, LayoutBegin DEF Grow
<1>6. ASSUME NEW old \in Names, NEW new \in Names, CopyFile(old, new)
      PROVE  LayoutIInv'
  <2>1. Without(dlist, new) \in Seq(ItemType) /\ LayoutOK(Without(dlist, new))
    BY <1>1, WithoutKeepsLayout
  <2>2. Item(dlist, old) \in ItemType
    BY <1>1, <1>6, PositionOfName DEF CopyFile, Item
  <2>3. req'.name = new /\ req'.size = Item(dlist, old).size /\ req'.ext \in BOOLEAN
    BY <1>6 DEF CopyFile, CpyReq
  <2>4. req'.size \in Nat \ {0}
    BY <2>2, <2>3, ItemExtent
  <2> QED
    BY <1>1, <1>6, <2>1, <2>3, <2>4, LayoutBegin DEF CopyFile
<1>7. ASSUME NEW old \in Names, NEW new \in Names, MoveFile(old, new)
      PROVE  LayoutIInv'
  <2> DEFINE kept == Without(dlist, new)
             p == Position(kept, old)
  <2>1. kept \in Seq(ItemType) /\ LayoutOK(kept) /\ new \notin NamesOf(kept)
    BY <1>1, WithoutKeepsLayout
  <2>2. old \in NamesOf(kept)
    BY <1>1, <1>7, OthersKept DEF MoveFile
  <2>3. p \in 1 .. Len(kept)
    BY <2>1, <2>2, PositionOfName
  <2> HIDE DEF p
  <2>4. /\ [kept EXCEPT ![p].name = new] \in Seq(ItemType)
        /\ LayoutOK([kept EXCEPT ![p].name = new])
    BY <2>1, <2>3, RenameKeepsLayout
  <2>5. Begin("commit", [kept EXCEPT ![p].name = new]) /\ queue' = queue
    BY <1>7 DEF MoveFile, p
  <2> QED
    BY <1>1, <2>4, <2>5, LayoutBegin
<1>8. ASSUME NEW name \in Names, RemoveFile(name)
      PROVE  LayoutIInv'
  <2>1. Without(dlist, name) \in Seq(ItemType) /\ LayoutOK(Without(dlist, name))
    BY <1>1, WithoutKeepsLayout
  <2> QED
    BY <1>1, <1>8, <2>1, LayoutBegin DEF RemoveFile
<1>9. CASE ClearMenu
  <2>1. <<>> \in Seq(ItemType) /\ LayoutOK(<<>>)
    BY DEF LayoutOK, InOrder, InAreas, UniqueNames
  <2> QED
    BY <1>1, <1>9, <2>1, LayoutBegin DEF ClearMenu
<1>10. CASE PackDisk
  <2>1. /\ pc' = "pack" /\ fb_list' = dlist /\ dlist' = dlist
        /\ at' = DataBegin /\ idx' = 1 /\ queue' = queue
    BY <1>10 DEF PackDisk, Begin
  <2>2. PackedUpTo(at)'
    BY <1>1, <2>1, AreaAssumption, ItemExtent
       DEF PackedUpTo, LayoutOK, InAreas
  <2> QED
    BY <1>1, <2>1, <2>2 DEF LayoutIInv, LayoutInv, ReqOK, Storing, PackInv
<1>11. ASSUME NEW archive \in Archives, LoadArchive(archive)
       PROVE  LayoutIInv'
  <2> DEFINE ItemSet == [name : Names, data : Seq(Bytes) \ {<<>>},
                         ext : BOOLEAN, sys : BOOLEAN]
  <2>1. archive \in Seq(ItemSet) /\ archive # <<>>
    BY ArchiveAssumption
  <2>2. Head(archive) \in ItemSet /\ Tail(archive) \in Seq(ItemSet)
    BY <2>1, HeadTailProperties
  <2>3. /\ req'.name = Head(archive).name
        /\ req'.size = Len(Head(archive).data)
        /\ req'.ext = Head(archive).ext
    BY <1>11 DEF LoadArchive, ItemReq, SaveReq
  <2>4. Len(Head(archive).data) \in Nat \ {0}
    BY <2>2
  <2>5. queue' \in QueueType
    BY <1>11, <2>2 DEF LoadArchive, QueueType
  <2> QED
    BY <1>1, <1>11, <2>2, <2>3, <2>4, <2>5, LayoutBegin DEF LoadArchive
<1> QED
  BY <1>2, <1>3, <1>4, <1>5, <1>6, <1>7, <1>8, <1>9, <1>10, <1>11 DEF Command

\* Forgetting the command leaves nothing to prove but the committed list.
LEMMA LayoutForget ==
    ASSUME NEW outcome, LayoutIInv, Forget(outcome), dlist' \in Seq(ItemType), LayoutOK(dlist)'
    PROVE  LayoutIInv'
<1>1. pc' = "idle" /\ fb_list' = <<>> /\ queue' = <<>>
  BY DEF Forget
<1>2. fb_list' \in Seq(ItemType) /\ queue' \in QueueType /\ LayoutOK(fb_list)'
  BY <1>1 DEF QueueType, LayoutOK, InOrder, InAreas, UniqueNames
<1> QED
  BY <1>1, <1>2 DEF LayoutIInv, LayoutInv, ReqOK, Storing, PackInv

\* alloc_file, then the transfer.
LEMMA LayoutAlloc == LayoutIInv /\ AllocFile => LayoutIInv'
<1> SUFFICES ASSUME LayoutIInv, AllocFile PROVE LayoutIInv'
  OBVIOUS
<1>1. /\ pc = "alloc" /\ dlist' = dlist /\ req' = req /\ queue' = queue
      /\ pc' \in {"save", "copy"}
  BY DEF AllocFile
<1>2. /\ req.name \in Names /\ req.size \in Nat \ {0} /\ req.ext \in BOOLEAN
      /\ fb_list \in Seq(ItemType) /\ LayoutOK(fb_list)
  BY <1>1 DEF LayoutIInv, LayoutInv, ReqOK
<1>3. Kept \in Seq(ItemType) /\ LayoutOK(Kept) /\ req.name \notin NamesOf(Kept)
  BY <1>2, WithoutKeepsLayout DEF Kept
<1> DEFINE start(i) == StartIn(Kept, i, req.size, req.ext)
<1>4. PICK i \in Gaps(Kept) :
        /\ FirstFit(Kept, i, req.size, req.ext)
        /\ fb_list' = InsertAt(Kept, i, NewItem(start(i)))
  BY DEF AllocFile
<1> DEFINE f == NewItem(start(i))
<1>5. start(i) \in Nat
  BY <1>3, GapBounds, AreaAssumption DEF StartIn
<1>6. /\ f \in ItemType /\ f.name = req.name /\ f.size = req.size /\ f.start = start(i)
  BY <1>2, <1>5 DEF NewItem, ItemType
<1>7. Fits(Kept, i, f.size, req.ext) /\ f.start = StartIn(Kept, i, f.size, req.ext)
  BY <1>4, <1>6 DEF FirstFit
<1> HIDE DEF f
<1>8. InsertAt(Kept, i, f) \in Seq(ItemType) /\ LayoutOK(InsertAt(Kept, i, f))
  BY <1>2, <1>3, <1>6, <1>7, InsertKeepsLayout
<1>9. fb_list' = InsertAt(Kept, i, f)
  BY <1>4 DEF f
<1>10. req.name \in NamesOf(InsertAt(Kept, i, f))
  <2>1. i \in 1 .. Len(Kept) + 1
    BY DEF Gaps
  <2>2. /\ Len(InsertAt(Kept, i, f)) = Len(Kept) + 1
        /\ InsertAt(Kept, i, f)[i] = f
    BY <1>3, <1>6, <2>1, InsertAtItems
  <2> QED
    BY <1>3, <1>6, <2>1, <2>2 DEF NamesOf
<1> QED
  BY <1>1, <1>2, <1>8, <1>9, <1>10 DEF LayoutIInv, LayoutInv, ReqOK, Storing, PackInv

\* load_archive between two items.
LEMMA LayoutNextItem ==
    ASSUME LayoutIInv, NEW next \in {"alloc", "commit"}, NextItem(next), pc' = next,
           UNCHANGED dlist, fb_list' \in Seq(ItemType), LayoutOK(fb_list)'
    PROVE  LayoutIInv'
<1> DEFINE ItemSet == [name : Names, data : Seq(Bytes) \ {<<>>},
                       ext : BOOLEAN, sys : BOOLEAN]
<1>1. queue \in Seq(ItemSet)
  BY DEF LayoutIInv, QueueType
<1>2. queue' \in QueueType
  <2>1. queue # <<>> => Tail(queue) \in Seq(ItemSet)
    BY <1>1, HeadTailProperties
  <2> QED
    BY <1>1, <2>1 DEF NextItem, QueueType
<1>3. ReqOK'
  <2>1. CASE next = "commit"
    BY <2>1 DEF ReqOK, Storing
  <2>2. CASE next = "alloc"
    <3>1. queue # <<>> /\ req' = ItemReq(Head(queue))
      BY <2>2 DEF NextItem
    <3>2. Head(queue) \in ItemSet
      BY <1>1, <3>1, HeadTailProperties
    <3>3. /\ req'.name = Head(queue).name
          /\ req'.size = Len(Head(queue).data)
          /\ req'.ext = Head(queue).ext
      BY <3>1 DEF ItemReq, SaveReq
    <3>4. Len(Head(queue).data) \in Nat \ {0}
      BY <3>2
    <3> QED
      BY <3>2, <3>3, <3>4 DEF ReqOK
  <2> QED
    BY <2>1, <2>2
<1> QED
  BY <1>2, <1>3 DEF LayoutIInv, LayoutInv, Storing, PackInv

\* The next bytes of an input file, and what follows the last ones.
LEMMA LayoutSave == LayoutIInv /\ SaveChunk => LayoutIInv'
<1> SUFFICES ASSUME LayoutIInv, SaveChunk PROVE LayoutIInv'
  OBVIOUS
<1>1. pc = "save" /\ dlist' = dlist /\ fb_list' = fb_list
  BY DEF SaveChunk, Transfer
<1>2. fb_list' \in Seq(ItemType) /\ LayoutOK(fb_list)'
  BY <1>1 DEF LayoutIInv, LayoutInv
<1>3. CASE pc' \in {"save", "patch"} /\ UNCHANGED <<req, queue>>
  BY <1>1, <1>3 DEF LayoutIInv, LayoutInv, ReqOK, Storing, PackInv
<1>4. CASE pc' \in {"alloc", "commit"} /\ NextItem(pc')
  BY <1>1, <1>2, <1>4, LayoutNextItem
<1> QED
  BY <1>3, <1>4 DEF SaveChunk, Transfer, NextItem

\* syslinux_patch sets a flag of the item.
LEMMA LayoutPatch == LayoutIInv /\ SyslinuxPatch => LayoutIInv'
<1> SUFFICES ASSUME LayoutIInv, SyslinuxPatch PROVE LayoutIInv'
  OBVIOUS
<1> DEFINE p == Position(fb_list, req.name)
<1>1. /\ pc = "patch" /\ dlist' = dlist
      /\ pc' \in {"alloc", "commit"} /\ NextItem(pc')
      /\ fb_list' = [fb_list EXCEPT ![p].sys = TRUE]
  BY DEF SyslinuxPatch, Transfer
<1>2. fb_list \in Seq(ItemType) /\ LayoutOK(fb_list) /\ req.name \in NamesOf(fb_list)
  BY <1>1 DEF LayoutIInv, LayoutInv, Storing
<1>3. p \in 1 .. Len(fb_list)
  BY <1>2, PositionOfName
<1>4. fb_list' \in Seq(ItemType) /\ LayoutOK(fb_list)'
  BY <1>1, <1>2, <1>3, FlagKeepsLayout
<1> QED
  BY <1>1, <1>4, LayoutNextItem

\* copy_disk moves the cursors of pack_disk together.
LEMMA LayoutCopyChunk == LayoutIInv /\ CopyChunk => LayoutIInv'
<1> SUFFICES ASSUME LayoutIInv, CopyChunk PROVE LayoutIInv'
  OBVIOUS
<1>1. /\ pc' = pc /\ pc \in {"copy", "packcopy"}
      /\ UNCHANGED <<dlist, fb_list, req, queue, idx>>
  BY DEF CopyChunk, Transfer
<1>2. CASE pc = "copy"
  BY <1>1, <1>2 DEF LayoutIInv, LayoutInv, ReqOK, Storing, PackInv
<1>3. CASE pc = "packcopy"
  <2> DEFINE n == Least(left, GlobBuf)
  <2>1. /\ idx \in 1 .. Len(fb_list) /\ at \in Nat /\ left \in Nat
        /\ PackedUpTo(PackBase)
        /\ InPrimary(PackBase) <=> InPrimary(fb_list[idx].start)
    BY <1>3 DEF LayoutIInv, PackInv
  <2>2. n \in Nat /\ n =< left
    BY <2>1, StoreAssumption DEF Least
  <2> HIDE DEF n
  <2>3. Len(CopyImage) = n
    BY <2>2 DEF CopyImage, n
  <2>4. at' = at + n /\ left' = left - n
    BY <2>3 DEF CopyChunk
  <2>5. Blocks(fb_list[idx]) \in Nat
    BY <2>1, ItemExtent DEF LayoutIInv
  <2>6. /\ at' \in Nat /\ left' \in Nat /\ fb_list' = fb_list /\ idx' = idx
        /\ PackBase' = PackBase
    BY <1>1, <2>1, <2>2, <2>4, <2>5 DEF PackBase
  <2>7. PackedUpTo(PackBase)'
    BY <2>1, <2>6 DEF PackedUpTo
  <2> QED
    BY <1>1, <1>3, <2>1, <2>6, <2>7
       DEF LayoutIInv, LayoutInv, ReqOK, Storing, PackInv
<1> QED
  BY <1>1, <1>2, <1>3

\* pack_disk looks at its next item.
LEMMA LayoutPackItem == LayoutIInv /\ PackItem => LayoutIInv'
<1> SUFFICES ASSUME LayoutIInv, PackItem PROVE LayoutIInv'
  OBVIOUS
<1> DEFINE f == fb_list[idx]
           b == PackStart(at, f)
<1>1. /\ pc = "pack" /\ idx \in 1 .. Len(fb_list)
      /\ at \in Nat /\ PackedUpTo(at)
      /\ fb_list \in Seq(ItemType) /\ LayoutOK(fb_list)
      /\ UNCHANGED <<dlist, fb_list, req, queue>>
  BY DEF PackItem, LayoutIInv, LayoutInv, PackInv, PackedUpTo
<1>2. /\ f \in ItemType /\ f.start \in Nat /\ Blocks(f) \in Nat
      /\ FileEnd(f) = f.start + Blocks(f)
  BY <1>1, ItemExtent DEF FileEnd
<1>3. /\ b \in Nat /\ at =< b /\ b =< f.start
      /\ InPrimary(b) <=> InPrimary(f.start)
  <2>1. at =< f.start
    BY <1>1 DEF PackedUpTo
  <2> QED
    BY <1>1, <1>2, <2>1, AreaAssumption DEF PackStart, InPrimary
<1> HIDE DEF b
<1>4. \A j \in 1 .. Len(fb_list) : j < idx => FileEnd(fb_list[j]) =< b
  <2> TAKE j \in 1 .. Len(fb_list)
  <2>1. FileEnd(fb_list[j]) \in Nat
    BY <1>1, ItemExtent
  <2> QED
    BY <1>1, <1>3, <2>1 DEF PackedUpTo
<1>5. CASE f.start = b
  <2>1. at' = b + Blocks(f) /\ idx' = idx + 1 /\ pc' = "pack"
    BY <1>1, <1>5 DEF PackItem, b
  <2>2. at' = FileEnd(f) /\ at' \in Nat /\ DataBegin =< at'
    BY <1>1, <1>2, <1>3, <1>5, <2>1, AreaAssumption DEF PackedUpTo
  <2>3. \A j \in 1 .. Len(fb_list) : j < idx + 1 => FileEnd(fb_list[j]) =< at'
    <3> TAKE j \in 1 .. Len(fb_list)
    <3>1. FileEnd(fb_list[j]) \in Nat
      BY <1>1, ItemExtent
    <3>2. CASE j < idx
      BY <1>2, <1>3, <1>4, <2>1, <3>1, <3>2
    <3>3. CASE j = idx
      BY <2>2, <3>3
    <3> QED
      BY <1>1, <3>2, <3>3
  <2>4. \A j \in 1 .. Len(fb_list) : idx + 1 =< j => at' =< fb_list[j].start
    BY <1>1, <2>2 DEF LayoutOK, InOrder
  <2>5. PackedUpTo(at)'
    BY <1>1, <2>1, <2>2, <2>3, <2>4 DEF PackedUpTo
  <2> QED
    BY <1>1, <2>1, <2>5 DEF LayoutIInv, LayoutInv, ReqOK, Storing, PackInv
<1>6. CASE f.start # b
  <2>1. /\ at' = b /\ left' = Blocks(f) /\ idx' = idx /\ pc' = "packcopy"
    BY <1>1, <1>6 DEF PackItem, b
  <2>2. PackBase' = b
    BY <1>1, <1>2, <1>3, <2>1 DEF PackBase
  <2>3. \A j \in 1 .. Len(fb_list) : idx =< j => b =< fb_list[j].start
    <3> TAKE j \in 1 .. Len(fb_list)
    <3>1. fb_list[j].start \in Nat
      BY <1>1, ItemExtent
    <3>2. CASE j = idx
      BY <1>3, <3>2
    <3>3. CASE idx < j
      <4>1. FileEnd(f) =< fb_list[j].start
        BY <1>1, <3>3 DEF LayoutOK, InOrder
      <4> QED
        BY <1>2, <1>3, <3>1, <4>1
    <3> QED
      BY <1>1, <3>2, <3>3
  <2>4. DataBegin =< b
    BY <1>1, <1>3, AreaAssumption DEF PackedUpTo
  <2>5. PackedUpTo(PackBase)'
    BY <1>1, <1>3, <1>4, <2>1, <2>2, <2>3, <2>4 DEF PackedUpTo
  <2> QED
    BY <1>1, <1>2, <1>3, <2>1, <2>2, <2>5
       DEF LayoutIInv, LayoutInv, ReqOK, Storing, PackInv
<1> QED
  BY <1>5, <1>6

\* pack_disk has copied the item.
LEMMA LayoutPackMoved == LayoutIInv /\ PackMoved => LayoutIInv'
<1> SUFFICES ASSUME LayoutIInv, PackMoved PROVE LayoutIInv'
  OBVIOUS
<1> DEFINE f == fb_list[idx]
           b == at - Blocks(f)
           new == [fb_list EXCEPT ![idx].start = b]
<1>1. /\ pc = "packcopy" /\ left = 0 /\ idx \in 1 .. Len(fb_list) /\ at \in Nat
      /\ PackedUpTo(PackBase)
      /\ InPrimary(PackBase) <=> InPrimary(f.start)
      /\ fb_list \in Seq(ItemType) /\ LayoutOK(fb_list)
  BY DEF PackMoved, LayoutIInv, LayoutInv, PackInv
<1>2. /\ f \in ItemType /\ f.start \in Nat /\ Blocks(f) \in Nat
      /\ FileEnd(f) = f.start + Blocks(f)
  BY <1>1, ItemExtent DEF FileEnd
<1>3. PackBase = b
  BY <1>1, <1>2 DEF PackBase
<1>4. /\ b \in Nat /\ DataBegin =< b /\ b =< f.start
      /\ InPrimary(b) <=> InPrimary(f.start)
      /\ \A j \in 1 .. idx - 1 : FileEnd(fb_list[j]) =< b
  BY <1>1, <1>3 DEF PackedUpTo
<1>5. /\ fb_list' = new /\ pc' = "pack" /\ idx' = idx + 1
      /\ UNCHANGED <<dlist, req, queue, at>>
  BY DEF PackMoved
<1> HIDE DEF b
<1>6. new \in Seq(ItemType) /\ LayoutOK(new) /\ FileEnd(new[idx]) = b + Blocks(f)
  BY <1>1, <1>4, SlideKeepsLayout
<1>7. /\ Len(new) = Len(fb_list)
      /\ \A j \in 1 .. Len(fb_list) : j # idx => new[j] = fb_list[j]
  OBVIOUS
<1> HIDE DEF new
<1>8. FileEnd(new[idx]) = at
  BY <1>1, <1>2, <1>6 DEF b
<1>9. \A j \in 1 .. Len(new) : j < idx + 1 => FileEnd(new[j]) =< at
  <2> TAKE j \in 1 .. Len(new)
  <2>1. FileEnd(new[j]) \in Nat
    BY <1>6, ItemExtent
  <2>2. CASE j < idx
    <3>1. FileEnd(new[j]) =< b
      BY <1>1, <1>4, <1>7, <2>2
    <3> QED
      BY <1>1, <1>2, <1>4, <2>1, <3>1 DEF b
  <2>3. CASE j = idx
    BY <1>1, <1>8, <2>3
  <2> QED
    BY <1>1, <2>2, <2>3
<1>10. \A j \in 1 .. Len(new) : idx + 1 =< j => at =< new[j].start
  BY <1>1, <1>6, <1>7, <1>8 DEF LayoutOK, InOrder
<1>11. DataBegin =< at
  BY <1>1, <1>2, <1>4, AreaAssumption DEF b
<1>12. PackedUpTo(at)'
  BY <1>1, <1>5, <1>9, <1>10, <1>11 DEF PackedUpTo
<1> QED
  BY <1>1, <1>5, <1>6, <1>12 DEF LayoutIInv, LayoutInv, ReqOK, Storing, PackInv

\* Each step of a command.
LEMMA LayoutStep == LayoutIInv /\ Step => LayoutIInv'
<1> SUFFICES ASSUME LayoutIInv, Step PROVE LayoutIInv'
  OBVIOUS
<1>1. CASE AllocFile
  BY <1>1, LayoutAlloc
<1>2. CASE AllocQuit \/ PatchQuit
  BY <1>2, LayoutForget DEF AllocQuit, PatchQuit, Quit, LayoutIInv, LayoutInv
<1>3. CASE SaveChunk
  BY <1>3, LayoutSave
<1>4. CASE SyslinuxPatch
  BY <1>4, LayoutPatch
<1>5. CASE CopyChunk
  BY <1>5, LayoutCopyChunk
<1>6. CASE CopyDone
  BY <1>6 DEF CopyDone, LayoutIInv, LayoutInv, ReqOK, Storing, PackInv
<1>7. CASE CopyTail
  BY <1>7 DEF CopyTail, Transfer, LayoutIInv, LayoutInv, ReqOK, Storing, PackInv
<1>8. CASE FillChunk
  <2>1. pc' \in {"fill", "commit"} /\ pc = "fill"
    BY <1>8 DEF FillChunk, Transfer
  <2> QED
    BY <1>8, <2>1 DEF FillChunk, Transfer, LayoutIInv, LayoutInv, ReqOK, Storing, PackInv
<1>9. CASE PackItem
  BY <1>9, LayoutPackItem
<1>10. CASE PackMoved
  BY <1>10, LayoutPackMoved
<1>11. CASE PackDone
  BY <1>11 DEF PackDone, LayoutIInv, LayoutInv, ReqOK, Storing, PackInv
<1>12. CASE WriteHeader
  BY <1>12, LayoutForget DEF WriteHeader, LayoutIInv, LayoutInv
<1> QED
  BY <1>1, <1>2, <1>3, <1>4, <1>5, <1>6, <1>7, <1>8, <1>9, <1>10, <1>11, <1>12 DEF Step

\* Every step keeps the invariant.
LEMMA LayoutNext == LayoutIInv /\ [Next]_vars => LayoutIInv'
<1> SUFFICES ASSUME LayoutIInv, [Next]_vars PROVE LayoutIInv'
  OBVIOUS
<1>1. CASE Command
  BY <1>1, LayoutCommand
<1>2. CASE Step
  BY <1>2, LayoutStep
<1>3. CASE Interrupt
  BY <1>3, LayoutForget DEF Interrupt, LayoutIInv, LayoutInv
<1>4. CASE UNCHANGED vars
  BY <1>4 DEF vars, work, LayoutIInv, LayoutInv, ReqOK, Storing, PackInv, PackedUpTo, PackBase
<1> QED
  BY <1>1, <1>2, <1>3, <1>4 DEF Next, Stop

\* At every moment of every sequence of commands, interrupted or not, the
\* list on the disk and the list in memory describe files in disk order
\* that do not overlap, stay inside their areas and differ in name.
THEOREM ListsWellFormed == Spec => []LayoutInv
<1>1. LayoutIInv => LayoutInv
  BY DEF LayoutIInv
<1> QED
  BY LayoutInit, LayoutNext, <1>1, PTL DEF Spec


-----------------------------------------------------------------------------
(***************************************************************************)
(* Arithmetic.                                                             *)
(***************************************************************************)

\* Whole blocks come out of a quotient.
LEMMA QuotientShift ==
    ASSUME NEW a \in Nat, NEW g \in Nat, NEW b \in Nat \ {0}
    PROVE  (a + g * b) \div b = (a \div b) + g
<1> DEFINE q == a \div b
           r == a % b
           m == g * b
<1>1. q \in Nat /\ r \in Nat /\ r < b /\ a = b * q + r
  OBVIOUS
<1>2. a + m = b * (q + g) + r
  BY <1>1
<1> QED
  BY <1>1, <1>2

\* A number below the divisor is its own remainder.
LEMMA SmallQuotient ==
    ASSUME NEW a \in Nat, NEW b \in Nat \ {0}, a < b
    PROVE  a \div b = 0 /\ a % b = a
  OBVIOUS

\* A size is its whole blocks and, if it does not end with one, one more.
LEMMA CeilDivSplit ==
    ASSUME NEW size \in Nat, NEW b \in Nat \ {0}
    PROVE  CeilDiv(size, b) = (size \div b) + (IF size % b = 0 THEN 0 ELSE 1)
<1> DEFINE q == size \div b
           r == size % b
           c == IF r = 0 THEN b - 1 ELSE r - 1
           e == IF r = 0 THEN 0 ELSE 1
<1>1. q \in Nat /\ r \in Nat /\ r < b /\ size = b * q + r
  OBVIOUS
<1> HIDE DEF q, r
<1>2. /\ c \in Nat /\ c < b /\ q + e \in Nat
      /\ size + b - 1 = c + (q + e) * b
  BY <1>1
<1> HIDE DEF c, e
<1>3. (c + (q + e) * b) \div b = (c \div b) + (q + e)
  BY <1>2, QuotientShift
<1>4. c \div b = 0
  BY <1>2, SmallQuotient
<1>5. (size + b - 1) \div b = q + e
  BY <1>2, <1>3, <1>4
<1> QED
  BY <1>5 DEF CeilDiv, q, r, e

\* A smaller file needs no more blocks, an empty one none.
LEMMA CeilDivLess ==
    ASSUME NEW less \in Nat, NEW size \in Nat \ {0}, less =< size, NEW b \in Nat \ {0}
    PROVE  CeilDiv(less, b) \in Nat /\ CeilDiv(less, b) =< CeilDiv(size, b)
<1>1. CASE less = 0
  <2>1. b - 1 \in Nat /\ b - 1 < b /\ 0 + b - 1 = b - 1
    OBVIOUS
  <2>2. (b - 1) \div b = 0
    BY <2>1, SmallQuotient
  <2>3. CeilDiv(0, b) = 0
    BY <2>1, <2>2 DEF CeilDiv
  <2>4. CeilDiv(less, b) = 0
    BY <1>1, <2>3
  <2>5. CeilDiv(size, b) \in Nat
    BY CeilDivBounds
  <2> QED
    BY <2>4, <2>5
<1>2. CASE less # 0
  BY <1>2, CeilDivMonotone, CeilDivBounds
<1> QED
  BY <1>1, <1>2

\* What is left after whole blocks have been written.
LEMMA CeilDivRest ==
    ASSUME NEW size \in Nat, NEW g \in Nat, NEW b \in Nat \ {0}, g * b =< size
    PROVE  CeilDiv(size - g * b, b) = CeilDiv(size, b) - g
<1> DEFINE m == g * b
           a == size - m + b - 1
<1>1. a \in Nat /\ size + b - 1 = a + g * b
  OBVIOUS
<1> HIDE DEF a
<1>2. (a + g * b) \div b = (a \div b) + g
  BY <1>1, QuotientShift
<1>3. a \div b \in Int
  BY <1>1
<1>4. (size + b - 1) \div b - g = a \div b
  BY <1>1, <1>2, <1>3
<1> QED
  BY <1>4 DEF CeilDiv, a

-----------------------------------------------------------------------------
(***************************************************************************)
(* The images of the pending write.                                        *)
(***************************************************************************)

\* The item the command stores is an item of its list.
LEMMA TargetItem ==
    ASSUME LayoutIInv, Storing
    PROVE  /\ Position(fb_list, req.name) \in 1 .. Len(fb_list)
           /\ Target = fb_list[Position(fb_list, req.name)]
           /\ Target \in ItemType /\ Target.name = req.name
           /\ Target.start \in Nat /\ Target.size \in Nat \ {0}
           /\ BlockOf(Target.start) \in Nat \ {0}
           /\ Blocks(Target) \in Nat \ {0}
           /\ FileEnd(Target) = Target.start + Blocks(Target)
<1>1. fb_list \in Seq(ItemType) /\ req.name \in NamesOf(fb_list)
  BY DEF LayoutIInv
<1>2. /\ Position(fb_list, req.name) \in 1 .. Len(fb_list)
      /\ fb_list[Position(fb_list, req.name)].name = req.name
  BY <1>1, PositionOfName
<1>3. Target = fb_list[Position(fb_list, req.name)]
  BY DEF Target, Item
<1>4. Target \in ItemType
  BY <1>1, <1>2, <1>3
<1> QED
  BY <1>2, <1>3, <1>4, ItemExtent DEF FileEnd

\* A cell of an image that lies in the primary area carries its mark.
ImageMarked(start, image) ==
    \A j \in 1 .. Len(image), k \in PriBlock + 1 .. ExtBlock :
        InPrimary(start + j - 1) => image[j][k] = Mark(start + j - 1)

\* The sectors from start on that an image of n sectors fills.
ImageInside(start, n) == Storing => Target.start =< start /\ start + n =< FileEnd(Target)

\* Least is a lower bound of its arguments.
LEMMA LeastOf ==
    ASSUME NEW a \in Nat, NEW b \in Nat
    PROVE  Least(a, b) \in Nat /\ Least(a, b) =< a /\ Least(a, b) =< b
  BY DEF Least

\* save_file_data and save_buff: a transfer is whole blocks or the rest of the file.
LEMMA SaveImageOK ==
    ASSUME TransferIInv, pc = "save"
    PROVE  /\ SaveBytes \in Nat /\ SaveBytes =< left
           /\ Len(SaveImage) \in Nat
           /\ Len(SaveImage) = CeilDiv(SaveBytes, BlockOf(Target.start))
           /\ ImageMarked(at, SaveImage)
           /\ ImageInside(at, Len(SaveImage))
           /\ CeilDiv(left - SaveBytes, BlockOf(Target.start))
                = CeilDiv(left, BlockOf(Target.start)) - Len(SaveImage)
<1> DEFINE b == BlockOf(Target.start)
           n == CeilDiv(SaveBytes, b)
<1>1. /\ Storing /\ LayoutIInv /\ at \in Nat /\ left \in Nat
      /\ Target.start =< at /\ at + CeilDiv(left, b) =< FileEnd(Target)
  BY DEF TransferIInv, TransferInside, Storing
<1>2. /\ b \in Nat \ {0} /\ Target.start \in Nat /\ FileEnd(Target) \in Nat
  BY <1>1, TargetItem
<1>3. GlobBuf \in Nat \ {0} /\ GlobBuf * b \in Nat
  BY <1>2, StoreAssumption
<1>4. SaveBytes \in Nat /\ SaveBytes =< left
  BY <1>1, <1>3, LeastOf DEF SaveBytes
<1>5. SaveBytes = left \/ SaveBytes = GlobBuf * b
  BY DEF SaveBytes, Least
<1>6. CeilDiv(0, b) = 0
  <2>1. 0 - 0 * b = 0 /\ 0 * b =< 0
    BY <1>2
  <2>2. 0 \div b = 0 /\ 0 % b = 0
    BY <1>2, SmallQuotient
  <2> QED
    BY <1>2, <2>2, CeilDivSplit
<1>7. n \in Nat /\ n =< CeilDiv(left, b) /\ CeilDiv(left, b) \in Nat
  <2>1. CASE left = 0
    BY <1>1, <1>4, <1>6, <2>1
  <2>2. CASE left # 0
    <3>1. n \in Nat /\ n =< CeilDiv(left, b)
      BY <1>1, <1>2, <1>4, <2>2, CeilDivLess
    <3>2. CeilDiv(left, b) \in Nat
      BY <1>1, <1>2, <2>2, CeilDivBounds
    <3> QED
      BY <3>1, <3>2
  <2> QED
    BY <2>1, <2>2
<1>8. Len(SaveImage) = n /\ DOMAIN SaveImage = 1 .. n
  BY <1>7 DEF SaveImage
<1>9. CeilDiv(left - SaveBytes, b) = CeilDiv(left, b) - n
  <2>1. CASE SaveBytes = left
    BY <1>1, <1>6, <1>7, <2>1
  <2>2. CASE SaveBytes = GlobBuf * b
    <3>1. CeilDiv(left - GlobBuf * b, b) = CeilDiv(left, b) - GlobBuf
      BY <1>1, <1>2, <1>3, <1>4, <2>2, CeilDivRest
    <3>2. CeilDiv(GlobBuf * b - GlobBuf * b, b) = CeilDiv(GlobBuf * b, b) - GlobBuf
      BY <1>2, <1>3, CeilDivRest
    <3>3. GlobBuf * b - GlobBuf * b = 0
      BY <1>3
    <3>4. n = GlobBuf
      BY <1>3, <1>6, <1>7, <2>2, <3>2, <3>3
    <3> QED
      BY <2>2, <3>1, <3>4
  <2> QED
    BY <1>5, <2>1, <2>2
<1>10. ImageMarked(at, SaveImage)
  <2> SUFFICES ASSUME NEW j \in 1 .. n, NEW k \in PriBlock + 1 .. ExtBlock, InPrimary(at + j - 1)
               PROVE  SaveImage[j][k] = Mark(at + j - 1)
    BY <1>8 DEF ImageMarked
  <2>1. PriBlock \in Nat \ {0} /\ ExtBlock \in Nat \ {0} /\ PriSize \in Nat
    BY BlockAssumption, AreaAssumption
  <2>2. j \in Nat \ {0} /\ k \in Nat /\ k > PriBlock /\ k \in 1 .. ExtBlock
    BY <1>7, <2>1
  <2>3. Target.start < PriSize
    BY <1>1, <1>2, <2>1, <2>2 DEF InPrimary
  <2>4. b = PriBlock
    BY <2>3 DEF BlockOf, InPrimary
  <2> QED
    BY <2>2, <2>4 DEF SaveImage
<1> QED
  BY <1>1, <1>2, <1>4, <1>7, <1>8, <1>9, <1>10 DEF ImageInside

\* copy_disk: the marks are those of the place copied to.
LEMMA CopyImageOK ==
    ASSUME TransferIInv, pc \in {"copy", "packcopy"}
    PROVE  /\ Len(CopyImage) \in Nat /\ Len(CopyImage) =< left
           /\ ImageMarked(at, CopyImage)
           /\ ImageInside(at, Len(CopyImage))
<1>1. at \in Nat /\ left \in Nat /\ GlobBuf \in Nat
  BY StoreAssumption DEF TransferIInv, TransferInside
<1> DEFINE n == Least(left, GlobBuf)
<1>2. n \in Nat /\ n =< left
  BY <1>1, LeastOf
<1> HIDE DEF n
<1>3. Len(CopyImage) = n
  BY <1>2 DEF CopyImage, n
<1>4. ImageMarked(at, CopyImage)
  <2> SUFFICES ASSUME NEW j \in 1 .. n, NEW k \in PriBlock + 1 .. ExtBlock, InPrimary(at + j - 1)
               PROVE  CopyImage[j][k] = Mark(at + j - 1)
    BY <1>3 DEF ImageMarked
  <2>1. PriBlock \in Nat \ {0} /\ ExtBlock \in Nat \ {0} /\ PriSize \in Nat
    BY BlockAssumption, AreaAssumption
  <2>2. j \in Nat \ {0} /\ k > PriBlock /\ k \in 1 .. ExtBlock
    BY <1>2, <2>1
  <2>3. InPrimary(at)
    BY <1>1, <2>1, <2>2 DEF InPrimary
  <2>4. CopyImage[j] = Stamp(disk[from + j - 1], at + j - 1)
    BY <2>3 DEF CopyImage, n
  <2> QED
    BY <2>2, <2>4 DEF Stamp
<1>5. ImageInside(at, Len(CopyImage))
  <2>1. SUFFICES ASSUME Storing
                 PROVE  Target.start =< at /\ at + n =< FileEnd(Target)
    BY <1>3 DEF ImageInside
  <2>2. /\ pc = "copy" /\ LayoutIInv
        /\ Target.start =< at /\ at + left =< FileEnd(Target)
    BY <2>1 DEF TransferIInv, TransferInside, Storing
  <2>3. Target.start \in Nat /\ FileEnd(Target) \in Nat
    BY <2>1, <2>2, TargetItem
  <2> QED
    BY <1>1, <1>2, <2>2, <2>3
<1> QED
  BY <1>2, <1>3, <1>4, <1>5

\* The blocks of the old file, whole ones and the rest, are blocks of the new one.
LEMMA OldBlocksFit ==
    ASSUME LayoutIInv, Storing, CopyFits, Target.size = req.size, pc \in {"copy", "tail"}
    PROVE  /\ OldWhole \in Nat /\ Len(TailImage) \in Nat /\ Len(TailImage) =< 1
           /\ OldWhole + Len(TailImage) =< Blocks(Target)
<1> DEFINE b == BlockOf(Target.start)
<1>1. b \in Nat \ {0} /\ Target.size \in Nat \ {0}
  BY TargetItem
<1>2. req.oldSize \in Nat /\ req.oldSize =< Target.size
  BY DEF CopyFits
<1>3. CeilDiv(req.oldSize, b) =< CeilDiv(Target.size, b)
  BY <1>1, <1>2, CeilDivLess
<1>4. CeilDiv(req.oldSize, b)
        = (req.oldSize \div b) + (IF req.oldSize % b = 0 THEN 0 ELSE 1)
  BY <1>1, <1>2, CeilDivSplit
<1>5. Len(TailImage) = IF req.oldSize % b = 0 THEN 0 ELSE 1
  <2>1. CASE req.oldSize % b = 0
    BY <2>1 DEF TailImage, OldRest
  <2>2. CASE req.oldSize % b # 0
    BY <2>2 DEF TailImage, OldRest
  <2> QED
    BY <2>1, <2>2
<1>6. req.oldSize \div b \in Nat
  BY <1>1, <1>2
<1> QED
  BY <1>3, <1>4, <1>5, <1>6 DEF OldWhole, Blocks

\* cpy_file: the last sector of the old file.
LEMMA TailImageOK ==
    ASSUME TransferIInv, pc = "tail"
    PROVE  /\ Len(TailImage) \in Nat
           /\ ImageMarked(at, TailImage)
           /\ ImageInside(at, Len(TailImage))
<1>1. /\ Storing /\ LayoutIInv /\ CopyFits /\ Target.size = req.size
      /\ at = Target.start + OldWhole
  BY DEF TransferIInv, TransferInside, Storing
<1>2. /\ OldWhole \in Nat /\ Len(TailImage) \in Nat /\ Len(TailImage) =< 1
      /\ OldWhole + Len(TailImage) =< Blocks(Target)
  BY <1>1, OldBlocksFit
<1>3. /\ Target.start \in Nat /\ Blocks(Target) \in Nat
      /\ FileEnd(Target) = Target.start + Blocks(Target)
  BY <1>1, TargetItem
<1>4. ImageMarked(at, TailImage)
  <2> SUFFICES ASSUME NEW j \in 1 .. Len(TailImage), NEW k \in PriBlock + 1 .. ExtBlock,
                      InPrimary(at + j - 1)
               PROVE  TailImage[j][k] = Mark(at + j - 1)
    BY DEF ImageMarked
  <2>1. PriBlock \in Nat \ {0} /\ ExtBlock \in Nat \ {0} /\ PriSize \in Nat
    BY BlockAssumption, AreaAssumption
  <2>2. j = 1 /\ at + j - 1 = at /\ k > PriBlock /\ k \in 1 .. ExtBlock
    BY <1>1, <1>2, <1>3, <2>1
  <2>3. InPrimary(Target.start)
    BY <1>1, <1>2, <1>3, <2>1, <2>2 DEF InPrimary
  <2>4. BlockOf(Target.start) = PriBlock
    BY <2>3 DEF BlockOf
  <2>5. j \in 1 .. (IF OldRest = 0 THEN 0 ELSE 1)
    BY DEF TailImage
  <2> QED
    BY <2>2, <2>4, <2>5 DEF TailImage
<1> QED
  BY <1>1, <1>2, <1>3, <1>4 DEF ImageInside

\* cpy_file: the sectors after it.
LEMMA FillImageOK ==
    ASSUME TransferIInv, pc = "fill"
    PROVE  /\ Len(FillImage) \in Nat /\ Len(FillImage) =< left
           /\ ImageMarked(at, FillImage)
           /\ ImageInside(at, Len(FillImage))
<1>1. /\ Storing /\ LayoutIInv /\ at \in Nat /\ left \in Nat
      /\ Target.start =< at /\ at + left =< FileEnd(Target)
  BY DEF TransferIInv, TransferInside, Storing
<1>2. GlobBuf \in Nat /\ Target.start \in Nat /\ FileEnd(Target) \in Nat
  BY <1>1, TargetItem, StoreAssumption
<1> DEFINE n == Least(left, GlobBuf)
<1>3. n \in Nat /\ n =< left
  BY <1>1, <1>2, LeastOf
<1> HIDE DEF n
<1>4. Len(FillImage) = n
  BY <1>3 DEF FillImage, n
<1>5. ImageMarked(at, FillImage)
  <2> SUFFICES ASSUME NEW j \in 1 .. n, NEW k \in PriBlock + 1 .. ExtBlock, InPrimary(at + j - 1)
               PROVE  FillImage[j][k] = Mark(at + j - 1)
    BY <1>4 DEF ImageMarked
  <2>1. PriBlock \in Nat \ {0} /\ ExtBlock \in Nat \ {0} /\ PriSize \in Nat
    BY BlockAssumption, AreaAssumption
  <2>2. j \in Nat \ {0} /\ k > PriBlock /\ k \in 1 .. ExtBlock
    BY <1>3, <2>1
  <2>3. InPrimary(Target.start)
    BY <1>1, <1>2, <2>1, <2>2 DEF InPrimary
  <2>4. BlockOf(Target.start) = PriBlock
    BY <2>3 DEF BlockOf
  <2> QED
    BY <2>2, <2>4 DEF FillImage, n
<1> QED
  BY <1>1, <1>2, <1>3, <1>4, <1>5 DEF ImageInside

\* syslinux_patch writes the first two of at least three extended sectors.
LEMMA PatchImageOK ==
    ASSUME TransferIInv, pc = "patch", Patchable
    PROVE  /\ Len(PatchImage) = 2
           /\ ImageMarked(Target.start, PatchImage)
           /\ ImageInside(Target.start, Len(PatchImage))
<1>1. Storing /\ LayoutIInv
  BY DEF TransferIInv, Storing
<1>2. /\ Target.start \in Nat /\ Blocks(Target) \in Nat
      /\ FileEnd(Target) = Target.start + Blocks(Target)
  BY <1>1, TargetItem
<1>3. Len(PatchImage) = 2
  BY DEF PatchImage
<1>4. ~InPrimary(Target.start) /\ Blocks(Target) > 2
  BY DEF Patchable, Blocks, BlockOf
<1>5. ImageMarked(Target.start, PatchImage)
  <2> SUFFICES ASSUME NEW j \in 1 .. 2, InPrimary(Target.start + j - 1)
               PROVE  FALSE
    BY <1>3 DEF ImageMarked
  <2> QED
    BY <1>2, <1>4, AreaAssumption DEF InPrimary
<1> QED
  BY <1>2, <1>3, <1>4, <1>5 DEF ImageInside

\* Whatever a command writes next is marked, and inside the file it stores.
LEMMA PendingOK ==
    ASSUME TransferIInv
    PROVE  /\ Pending.start \in Nat /\ Len(Pending.image) \in Nat
           /\ ImageMarked(Pending.start, Pending.image)
           /\ Len(Pending.image) > 0 => ImageInside(Pending.start, Len(Pending.image))
<1>1. at \in Nat
  BY DEF TransferIInv, TransferInside
<1>2. CASE pc = "save"
  BY <1>1, <1>2, SaveImageOK DEF Pending
<1>3. CASE pc \in {"copy", "packcopy"}
  BY <1>1, <1>3, CopyImageOK DEF Pending
<1>4. CASE pc = "tail"
  BY <1>1, <1>4, TailImageOK DEF Pending
<1>5. CASE pc = "fill"
  BY <1>1, <1>5, FillImageOK DEF Pending
<1>6. CASE pc = "patch" /\ Patchable
  <2>1. Target.start \in Nat
    BY <1>6, TargetItem DEF TransferIInv, Storing
  <2>2. Pending = [start |-> Target.start, image |-> PatchImage]
    BY <1>6 DEF Pending
  <2> QED
    BY <1>6, <2>1, <2>2, PatchImageOK
<1>7. CASE /\ pc \notin {"save", "copy", "packcopy", "tail", "fill"}
           /\ ~(pc = "patch" /\ Patchable)
  <2>1. Pending = NoWrite
    BY <1>7 DEF Pending
  <2>2. Pending.start = DataBegin /\ Pending.image = << >>
    BY <2>1 DEF NoWrite
  <2> QED
    BY <2>2, AreaAssumption DEF ImageMarked
<1> QED
  BY <1>2, <1>3, <1>4, <1>5, <1>6, <1>7

\* A write, whole or torn, keeps the marks.
LEMMA MarksWritten ==
    ASSUME TransferIInv, NEW n \in 0 .. Len(Pending.image), disk' = Written(n)
    PROVE  MarksOK'
<1>1. /\ Pending.start \in Nat /\ Len(Pending.image) \in Nat
      /\ ImageMarked(Pending.start, Pending.image)
  BY PendingOK
<1>2. SUFFICES ASSUME NEW s \in Area, NEW k \in PriBlock + 1 .. ExtBlock, InPrimary(s)
               PROVE  Written(n)[s][k] = Mark(s)
  BY DEF MarksOK, Area, InPrimary, Mark
<1>3. s \in Nat
  BY AreaAssumption DEF Area
<1>4. CASE s \in Pending.start .. Pending.start + n - 1
  <2> DEFINE j == s - Pending.start + 1
  <2>1. j \in 1 .. Len(Pending.image) /\ s = Pending.start + j - 1
    BY <1>1, <1>3, <1>4
  <2>2. Written(n)[s] = Pending.image[j]
    BY <1>2, <1>4 DEF Written
  <2> HIDE DEF j
  <2>3. Pending.image[j][k] = Mark(Pending.start + j - 1)
    BY <1>1, <1>2, <2>1 DEF ImageMarked
  <2> QED
    BY <2>1, <2>2, <2>3
<1>5. CASE s \notin Pending.start .. Pending.start + n - 1
  BY <1>2, <1>5 DEF Written, MarksOK, TransferIInv
<1> QED
  BY <1>4, <1>5

-----------------------------------------------------------------------------
(***************************************************************************)
(* The inductive invariant of the transfers.                               *)
(***************************************************************************)

\* Deleting a name leaves the items of the other names.
LEMMA WithoutKeepsItem ==
    ASSUME NEW list \in Seq(ItemType), NEW name, NEW i \in 1 .. Len(list), list[i].name # name
    PROVE  \E j \in 1 .. Len(Without(list, name)) : Without(list, name)[j] = list[i]
<1>1. CASE name \notin NamesOf(list)
  BY <1>1 DEF Without
<1>2. CASE name \in NamesOf(list)
  <2> DEFINE p == Position(list, name)
             short == RemoveAt(list, p)
  <2>1. p \in 1 .. Len(list) /\ list[p].name = name
    BY <1>2, PositionOfName
  <2> HIDE DEF p
  <2>2. /\ Len(short) = Len(list) - 1
        /\ \A j \in 1 .. Len(list) - 1 : short[j] = IF j < p THEN list[j] ELSE list[j + 1]
    BY <2>1, RemoveAtItems
  <2> HIDE DEF short
  <2>3. CASE i < p
    BY <1>2, <2>1, <2>2, <2>3 DEF Without, p, short
  <2>4. CASE p < i
    <3>1. i - 1 \in 1 .. Len(short) /\ short[i - 1] = list[i]
      BY <2>1, <2>2, <2>4
    <3> QED
      BY <1>2, <3>1 DEF Without, p, short
  <2>5. i # p
    BY <2>1
  <2> QED
    BY <2>1, <2>3, <2>4, <2>5
<1> QED
  BY <1>1, <1>2

\* Inserting an item leaves the others.
LEMMA InsertKeepsItem ==
    ASSUME NEW list \in Seq(ItemType), NEW f \in ItemType, NEW i \in 1 .. Len(list) + 1,
           NEW j \in 1 .. Len(list)
    PROVE  \E k \in 1 .. Len(InsertAt(list, i, f)) : InsertAt(list, i, f)[k] = list[j]
<1>1. /\ Len(InsertAt(list, i, f)) = Len(list) + 1
      /\ \A k \in 1 .. Len(list) + 1 :
            InsertAt(list, i, f)[k] = IF k < i THEN list[k]
                                      ELSE IF k = i THEN f ELSE list[k - 1]
  BY InsertAtItems
<1>2. CASE j < i
  BY <1>1, <1>2
<1>3. CASE ~(j < i)
  <2>1. j + 1 \in 1 .. Len(list) + 1 /\ ~(j + 1 < i) /\ j + 1 # i /\ j + 1 - 1 = j
    BY <1>3
  <2> QED
    BY <1>1, <2>1
<1> QED
  BY <1>2, <1>3

\* The formatted disk has all its marks.
LEMMA TransferInit == Init => TransferIInv
<1> SUFFICES ASSUME Init PROVE TransferIInv
  OBVIOUS
<1>1. LayoutIInv
  BY LayoutInit
<1>2. /\ pc = "idle" /\ queue = <<>> /\ at = 0 /\ left = 0
      /\ disk = [s \in Area |-> [k \in 1 .. ExtBlock |->
                    IF InPrimary(s) /\ k > PriBlock THEN Mark(s) ELSE Blank]]
  BY DEF Init
<1>3. MarksOK
  <2> SUFFICES ASSUME NEW s \in Area, NEW k \in PriBlock + 1 .. ExtBlock, InPrimary(s)
               PROVE  disk[s][k] = Mark(s)
    BY DEF MarksOK
  <2>1. k \in 1 .. ExtBlock /\ k > PriBlock
    BY BlockAssumption
  <2> QED
    BY <1>2, <2>1
<1> QED
  BY <1>1, <1>2, <1>3 DEF TransferIInv, BystandersListed, CopyFits, TransferInside, Storing

\* A command that allocates next.
LEMMA TransferAllocates ==
    ASSUME TransferIInv, LayoutIInv', NEW list, Begin("alloc", list), NoTransfer,
           req'.name \in goal'.writes,
           \A k \in 1 .. Len(queue') : queue'[k].name \in goal'.writes,
           \A i \in 1 .. Len(dlist) :
               dlist[i].name \notin goal'.writes => \E j \in 1 .. Len(list) : list[j] = dlist[i],
           req'.oldSize \in Nat, req'.oldSize =< req'.size
    PROVE  TransferIInv'
<1>1. /\ pc' = "alloc" /\ fb_list' = list
      /\ UNCHANGED <<disk, dlist, at, left>>
  BY DEF Begin, NoTransfer
<1>2. MarksOK'
  BY <1>1 DEF TransferIInv, MarksOK
<1> QED
  BY <1>1, <1>2
     DEF TransferIInv, BystandersListed, CopyFits, TransferInside, Storing

\* A command that changes only the list.
LEMMA TransferCommits ==
    ASSUME TransferIInv, LayoutIInv', NEW list, Begin("commit", list), NoTransfer
    PROVE  TransferIInv'
<1>1. pc' = "commit" /\ UNCHANGED <<disk, dlist, at, left>>
  BY DEF Begin, NoTransfer
<1>2. MarksOK'
  BY <1>1 DEF TransferIInv, MarksOK
<1> QED
  BY <1>1, <1>2
     DEF TransferIInv, BystandersListed, CopyFits, TransferInside, Storing

\* The beginning of each command.
LEMMA TransferCommand == TransferIInv /\ Command => TransferIInv'
<1> SUFFICES ASSUME TransferIInv, Command PROVE TransferIInv'
  OBVIOUS
<1>1. LayoutIInv' /\ LayoutIInv /\ dlist \in Seq(ItemType)
  BY LayoutCommand DEF TransferIInv, LayoutIInv
<1>2. pc = "idle" /\ queue = <<>>
  BY DEF TransferIInv, Command, AddFile, AddMenu, Shrink, Grow, CopyFile, MoveFile,
         RemoveFile, ClearMenu, PackDisk, LoadArchive, Begin
<1>3. ASSUME NEW name \in Names, NEW data \in Datas, NEW ext \in BOOLEAN,
             NEW sys \in BOOLEAN, NEW stdin \in BOOLEAN, AddFile(name, data, ext, sys, stdin)
      PROVE  TransferIInv'
  <2>1. req'.name = name /\ req'.size = Len(data) /\ req'.oldSize = 0
    BY <1>3 DEF AddFile, SaveReq
  <2>2. goal'.writes = {name}
    BY <1>3 DEF AddFile, FS!Goal
  <2>3. Len(data) \in Nat
    BY StoreAssumption
  <2>4. Begin("alloc", dlist) /\ NoTransfer /\ queue' = queue
    BY <1>3 DEF AddFile
  <2> QED
    BY <1>1, <1>2, <2>1, <2>2, <2>3, <2>4, TransferAllocates
<1>4. ASSUME NEW name \in Names, NEW items \in Datas, NEW append \in BOOLEAN,
             AddMenu(name, items, append)
      PROVE  TransferIInv'
  <2>1. req'.name = name /\ req'.oldSize = 0
    BY <1>4 DEF AddMenu, SaveReq
  <2>2. goal'.writes = {name}
    BY <1>4 DEF AddMenu, FS!Goal
  <2>3. Begin("alloc", dlist) /\ NoTransfer /\ queue' = queue
    BY <1>4 DEF AddMenu
  <2>4. req'.size \in Nat
    BY <1>1, <2>3 DEF LayoutIInv, ReqOK, Begin
  <2> QED
    BY <1>1, <1>2, <2>1, <2>2, <2>3, <2>4, TransferAllocates
<1>5. ASSUME NEW name \in Names, NEW size \in Sizes, NEW ext \in BOOLEAN,
             Grow(name, size, ext)
      PROVE  TransferIInv'
  <2>1. goal'.writes = {name}
    BY <1>5 DEF Grow, FS!Goal
  <2>2. /\ Begin("alloc", Without(dlist, name)) /\ NoTransfer /\ queue' = queue
    BY <1>5 DEF Grow
  <2>3. req'.name = name /\ req'.size = size
    BY <1>5 DEF Grow, CpyReq
  <2>4. size \in Nat
    BY StoreAssumption
  <2>5. req'.oldSize \in Nat /\ req'.oldSize =< size
    <3>1. CASE name \notin NamesOf(dlist)
      <4>1. req'.oldSize = 0
        BY <1>5, <3>1 DEF Grow, CpyReq
      <4> QED
        BY <2>4, <4>1
    <3>2. CASE name \in NamesOf(dlist)
      <4>1. req'.oldSize = Item(dlist, name).size /\ Item(dlist, name).size < size
        BY <1>5, <3>2 DEF Grow, CpyReq
      <4>2. Item(dlist, name) \in ItemType
        BY <1>1, <3>2, PositionOfName DEF Item
      <4>3. Item(dlist, name).size \in Nat
        BY <4>2, ItemExtent
      <4> QED
        BY <2>4, <4>1, <4>3
    <3> QED
      BY <3>1, <3>2
  <2>6. \A i \in 1 .. Len(dlist) :
            dlist[i].name # name =>
                \E j \in 1 .. Len(Without(dlist, name)) : Without(dlist, name)[j] = dlist[i]
    BY <1>1, WithoutKeepsItem
  <2> QED
    BY <1>1, <1>2, <2>1, <2>2, <2>3, <2>5, <2>6, TransferAllocates
<1>6. ASSUME NEW old \in Names, NEW new \in Names, CopyFile(old, new)
      PROVE  TransferIInv'
  <2>1. goal'.writes = {new}
    BY <1>6 DEF CopyFile, FS!Goal
  <2>2. /\ Begin("alloc", Without(dlist, new)) /\ NoTransfer /\ queue' = queue
    BY <1>6 DEF CopyFile
  <2>3. /\ req'.name = new /\ req'.size = Item(dlist, old).size
        /\ req'.oldSize = Item(dlist, old).size
    BY <1>6 DEF CopyFile, CpyReq
  <2>4. Item(dlist, old) \in ItemType
    BY <1>1, <1>6, PositionOfName DEF CopyFile, Item
  <2>5. Item(dlist, old).size \in Nat
    BY <2>4, ItemExtent
  <2>6. \A i \in 1 .. Len(dlist) :
            dlist[i].name # new =>
                \E j \in 1 .. Len(Without(dlist, new)) : Without(dlist, new)[j] = dlist[i]
    BY <1>1, WithoutKeepsItem
  <2> QED
    BY <1>1, <1>2, <2>1, <2>2, <2>3, <2>5, <2>6, TransferAllocates
<1>7. ASSUME NEW archive \in Archives, LoadArchive(archive)
      PROVE  TransferIInv'
  <2> DEFINE ItemSet == [name : Names, data : Seq(Bytes) \ {<<>>},
                         ext : BOOLEAN, sys : BOOLEAN]
             writes == {archive[i].name : i \in 1 .. Len(archive)}
  <2>1. archive \in Seq(ItemSet) /\ archive # <<>>
    BY ArchiveAssumption
  <2>2. goal'.writes = writes
    BY <1>7 DEF LoadArchive, FS!Goal
  <2>3. /\ Begin("alloc", dlist) /\ NoTransfer
        /\ req' = ItemReq(Head(archive)) /\ queue' = Tail(archive)
    BY <1>7 DEF LoadArchive
  <2> HIDE DEF ItemSet
  <2>4. 1 \in 1 .. Len(archive) /\ Head(archive) = archive[1] /\ Head(archive) \in ItemSet
    BY <2>1, HeadTailProperties
  <2>5. /\ req'.name = archive[1].name /\ req'.oldSize = 0
        /\ req'.size = Len(Head(archive).data)
    BY <2>3, <2>4 DEF ItemReq, SaveReq
  <2>6. Len(Head(archive).data) \in Nat
    BY <2>4 DEF ItemSet
  <2>7. \A k \in 1 .. Len(Tail(archive)) : Tail(archive)[k].name \in writes
    <3> TAKE k \in 1 .. Len(Tail(archive))
    <3>1. k + 1 \in 1 .. Len(archive) /\ Tail(archive)[k] = archive[k + 1]
      BY <2>1, HeadTailProperties
    <3> QED
      BY <3>1
  <2>8. req'.name \in writes
    BY <2>4, <2>5
  <2> HIDE DEF writes
  <2> QED
    BY <1>1, <2>2, <2>3, <2>5, <2>6, <2>7, <2>8, TransferAllocates
<1>8. CASE PackDisk
  <2>1. /\ pc' = "pack" /\ at' = DataBegin /\ goal'.writes = NamesOf(dlist)
        /\ UNCHANGED <<disk, dlist, left>>
    BY <1>8 DEF PackDisk, Begin, FS!Goal
  <2>2. MarksOK'
    BY <2>1 DEF TransferIInv, MarksOK
  <2> QED
    BY <1>1, <2>1, <2>2, AreaAssumption
       DEF TransferIInv, BystandersListed, CopyFits, TransferInside, Storing
<1>9. ASSUME NEW name \in Names, NEW size \in Sizes, Shrink(name, size)
      PROVE  TransferIInv'
  BY <1>1, <1>9, TransferCommits DEF Shrink
<1>10. ASSUME NEW old \in Names, NEW new \in Names, MoveFile(old, new)
       PROVE  TransferIInv'
  BY <1>1, <1>10, TransferCommits DEF MoveFile
<1>11. ASSUME NEW name \in Names, RemoveFile(name)
       PROVE  TransferIInv'
  BY <1>1, <1>11, TransferCommits DEF RemoveFile
<1>12. CASE ClearMenu
  BY <1>1, <1>12, TransferCommits DEF ClearMenu
<1> QED
  BY <1>3, <1>4, <1>5, <1>6, <1>7, <1>8, <1>9, <1>10, <1>11, <1>12 DEF Command

\* Forgetting the command leaves nothing to prove but the marks.
LEMMA TransferForget ==
    ASSUME NEW outcome, TransferIInv, LayoutIInv', Forget(outcome), MarksOK'
    PROVE  TransferIInv'
<1>1. pc' = "idle" /\ queue' = <<>> /\ at' = 0 /\ left' = 0
  BY DEF Forget
<1> QED
  BY <1>1 DEF TransferIInv, BystandersListed, CopyFits, TransferInside, Storing

\* alloc_file hands out the blocks the transfer is to fill.
LEMMA TransferAlloc == TransferIInv /\ AllocFile => TransferIInv'
<1> SUFFICES ASSUME TransferIInv, AllocFile PROVE TransferIInv'
  OBVIOUS
<1>1. /\ pc = "alloc" /\ pc' \in {"save", "copy"} /\ LayoutIInv
      /\ UNCHANGED <<disk, dlist, req, queue, goal>>
  BY DEF AllocFile, TransferIInv
<1>2. LayoutIInv'
  BY <1>1, LayoutAlloc
<1>3. /\ req.name \in Names /\ req.size \in Nat \ {0} /\ req.ext \in BOOLEAN
      /\ fb_list \in Seq(ItemType) /\ LayoutOK(fb_list)
      /\ req.oldSize \in Nat /\ req.oldSize =< req.size
  BY <1>1 DEF LayoutIInv, LayoutInv, ReqOK, TransferIInv, CopyFits
<1>4. Kept \in Seq(ItemType) /\ LayoutOK(Kept)
  BY <1>3, WithoutKeepsLayout DEF Kept
<1> DEFINE start(i) == StartIn(Kept, i, req.size, req.ext)
<1>5. PICK i \in Gaps(Kept) :
        /\ fb_list' = InsertAt(Kept, i, NewItem(start(i)))
        /\ at' = start(i)
        /\ pc' = IF req.kind = "save" THEN "save" ELSE "copy"
        /\ left' = IF req.kind = "save" THEN req.size
                   ELSE IF start(i) = req.oldStart THEN 0
                   ELSE req.oldSize \div BlockOf(start(i))
  BY DEF AllocFile
<1> DEFINE s == start(i)
           f == NewItem(s)
<1>6. s \in Nat
  BY <1>4, GapBounds, AreaAssumption DEF StartIn
<1>7. /\ at' = s
      /\ pc' = "save" => left' = req.size
      /\ pc' = "copy" => left' \in {0, req.oldSize \div BlockOf(s)}
  BY <1>5
<1> HIDE DEF s
<1>8. f \in ItemType /\ f.name = req.name /\ f.size = req.size /\ f.start = s
  BY <1>3, <1>6 DEF NewItem, ItemType
<1>9. fb_list' = InsertAt(Kept, i, f)
  BY <1>5 DEF s
<1> HIDE DEF f
<1>10. i \in 1 .. Len(Kept) + 1
  BY DEF Gaps
<1>11. Target' = f
  <2>1. i \in 1 .. Len(fb_list') /\ fb_list'[i] = f
    BY <1>4, <1>8, <1>9, <1>10, InsertAtItems
  <2>2. fb_list' \in Seq(ItemType) /\ UniqueNames(fb_list')
    BY <1>2 DEF LayoutIInv, LayoutInv, LayoutOK, UniqueNames
  <2>3. req.name \in NamesOf(fb_list')
    BY <1>8, <2>1 DEF NamesOf
  <2>4. /\ Position(fb_list', req.name) \in 1 .. Len(fb_list')
        /\ fb_list'[Position(fb_list', req.name)].name = req.name
    BY <2>2, <2>3, PositionOfName
  <2>5. Position(fb_list', req.name) = i
    BY <1>8, <2>1, <2>2, <2>4 DEF UniqueNames
  <2> QED
    BY <1>1, <2>1, <2>5 DEF Target, Item
<1>12. /\ BlockOf(s) \in Nat \ {0} /\ Blocks(f) \in Nat
       /\ Blocks(f) = CeilDiv(req.size, BlockOf(s))
       /\ FileEnd(f) = s + Blocks(f)
  BY <1>8, ItemExtent DEF Blocks, FileEnd
<1>13. MarksOK'
  BY <1>1 DEF TransferIInv, MarksOK
<1>14. BystandersListed'
  <2>1. /\ req.name \in goal.writes
        /\ \A k \in 1 .. Len(queue) : queue[k].name \in goal.writes
    BY <1>1 DEF TransferIInv, BystandersListed
  <2>2. ASSUME NEW n \in 1 .. Len(dlist), dlist[n].name \notin goal.writes
        PROVE  \E k \in 1 .. Len(fb_list') : fb_list'[k] = dlist[n]
    <3>1. PICK j \in 1 .. Len(fb_list) : fb_list[j] = dlist[n]
      BY <1>1, <2>2 DEF TransferIInv, BystandersListed
    <3>2. fb_list[j].name # req.name
      BY <2>1, <2>2, <3>1
    <3>3. PICK k \in 1 .. Len(Kept) : Kept[k] = fb_list[j]
      BY <1>3, <3>2, WithoutKeepsItem DEF Kept
    <3>4. PICK m \in 1 .. Len(InsertAt(Kept, i, f)) : InsertAt(Kept, i, f)[m] = Kept[k]
      BY <1>4, <1>8, <1>10, InsertKeepsItem
    <3> QED
      BY <1>9, <3>1, <3>3, <3>4
  <2> QED
    BY <1>1, <2>1, <2>2 DEF BystandersListed
<1>15. CopyFits'
  BY <1>1, <1>3 DEF CopyFits
<1>16. TransferInside'
  <2>1. CASE pc' = "save"
    BY <1>1, <1>3, <1>6, <1>7, <1>8, <1>11, <1>12, <2>1 DEF TransferInside, Storing
  <2>2. CASE pc' = "copy"
    <3>1. /\ req.oldSize \div BlockOf(s) \in Nat
          /\ req.oldSize \div BlockOf(s) =< Blocks(f)
      <4>1. CeilDiv(req.oldSize, BlockOf(s)) =< Blocks(f)
        BY <1>3, <1>12, CeilDivLess
      <4>2. CeilDiv(req.oldSize, BlockOf(s))
              = (req.oldSize \div BlockOf(s))
                + (IF req.oldSize % BlockOf(s) = 0 THEN 0 ELSE 1)
        BY <1>3, <1>12, CeilDivSplit
      <4>3. req.oldSize \div BlockOf(s) \in Nat
        BY <1>3, <1>12
      <4> QED
        BY <1>12, <4>1, <4>2, <4>3
    <3>2. left' \in Nat /\ left' =< Blocks(f)
      BY <1>7, <1>12, <2>2, <3>1
    <3>3. at' = f.start /\ s + left' =< FileEnd(f)
      BY <1>6, <1>7, <1>8, <1>12, <3>2
    <3> QED
      BY <1>1, <1>6, <1>7, <1>8, <1>11, <2>2, <3>2, <3>3 DEF TransferInside, Storing
  <2> QED
    BY <1>1, <2>1, <2>2
<1> QED
  BY <1>1, <1>2, <1>13, <1>14, <1>15, <1>16 DEF TransferIInv

\* load_archive between two items.
LEMMA TransferNextItem ==
    ASSUME TransferIInv, LayoutIInv', MarksOK', Storing,
           NEW next \in {"alloc", "commit"}, NextItem(next), pc' = next,
           UNCHANGED <<dlist, goal>>, at' \in Nat, left' \in Nat,
           \A j \in 1 .. Len(fb_list) : fb_list[j].name # req.name =>
               j \in 1 .. Len(fb_list') /\ fb_list'[j] = fb_list[j]
    PROVE  TransferIInv'
<1>1. CASE next = "commit"
  BY <1>1 DEF TransferIInv, BystandersListed, CopyFits, TransferInside, Storing
<1>2. CASE next = "alloc"
  <2>1. queue # <<>> /\ req' = ItemReq(Head(queue)) /\ queue' = Tail(queue)
    BY <1>2 DEF NextItem
  <2>2. /\ req.name \in goal.writes
        /\ \A k \in 1 .. Len(queue) : queue[k].name \in goal.writes
        /\ queue \in QueueType
    BY DEF TransferIInv, BystandersListed, LayoutIInv
  <2>3. /\ 1 \in 1 .. Len(queue) /\ Head(queue) = queue[1]
        /\ \A k \in 1 .. Len(Tail(queue)) :
              k + 1 \in 1 .. Len(queue) /\ Tail(queue)[k] = queue[k + 1]
    BY <2>1, <2>2, HeadTailProperties DEF QueueType
  <2>4. req'.name = queue[1].name /\ req'.oldSize = 0
    BY <2>1, <2>3 DEF ItemReq, SaveReq
  <2>5. req'.size \in Nat
    BY <1>2 DEF LayoutIInv, ReqOK
  <2>6. BystandersListed'
    <3>1. req'.name \in goal.writes
      BY <2>2, <2>3, <2>4
    <3>2. \A k \in 1 .. Len(queue') : queue'[k].name \in goal.writes
      BY <2>1, <2>2, <2>3
    <3>3. ASSUME NEW n \in 1 .. Len(dlist), dlist[n].name \notin goal.writes
          PROVE  \E k \in 1 .. Len(fb_list') : fb_list'[k] = dlist[n]
      <4>1. PICK j \in 1 .. Len(fb_list) : fb_list[j] = dlist[n]
        BY <3>3 DEF TransferIInv, BystandersListed
      <4>2. fb_list[j].name # req.name
        BY <2>2, <3>3, <4>1
      <4> QED
        BY <4>1, <4>2
    <3> QED
      BY <3>1, <3>2, <3>3 DEF BystandersListed
  <2>7. CopyFits'
    BY <2>4, <2>5 DEF CopyFits
  <2>8. TransferInside'
    BY <1>2 DEF TransferInside, Storing
  <2> QED
    BY <1>2, <2>6, <2>7, <2>8 DEF TransferIInv
<1> QED
  BY <1>1, <1>2

\* A step of a transfer that goes on: the list, the request and the queue stay.
LEMMA TransferGoesOn ==
    ASSUME TransferIInv, LayoutIInv', MarksOK', Storing, pc' # "idle",
           pc' \notin {"alloc", "pack", "packcopy"},
           UNCHANGED <<dlist, fb_list, req, queue, goal>>,
           pc' \in {"copy", "tail"} => pc \in {"copy", "tail"},
           TransferInside'
    PROVE  TransferIInv'
<1>1. BystandersListed'
  BY DEF TransferIInv, BystandersListed
<1>2. CopyFits'
  BY DEF TransferIInv, CopyFits
<1> QED
  BY <1>1, <1>2 DEF TransferIInv

\* The next bytes of an input file.
LEMMA TransferSave == TransferIInv /\ SaveChunk => TransferIInv'
<1> SUFFICES ASSUME TransferIInv, SaveChunk PROVE TransferIInv'
  OBVIOUS
<1>1. /\ pc = "save" /\ Storing /\ LayoutIInv
      /\ left' = left - SaveBytes /\ at' = at + Len(SaveImage)
      /\ disk' = Written(Len(Pending.image))
      /\ UNCHANGED <<dlist, fb_list, goal>>
  BY DEF SaveChunk, Transfer, TransferIInv, Storing
<1>2. LayoutIInv'
  BY <1>1, LayoutSave
<1>3. MarksOK'
  BY <1>1, PendingOK, MarksWritten
<1>4. /\ SaveBytes \in Nat /\ SaveBytes =< left /\ Len(SaveImage) \in Nat
      /\ CeilDiv(left - SaveBytes, BlockOf(Target.start))
           = CeilDiv(left, BlockOf(Target.start)) - Len(SaveImage)
  BY <1>1, SaveImageOK
<1>5. /\ at \in Nat /\ left \in Nat /\ Target.size = req.size
      /\ Target.start =< at
      /\ at + CeilDiv(left, BlockOf(Target.start)) =< FileEnd(Target)
  BY <1>1 DEF TransferIInv, TransferInside
<1>6. at' \in Nat /\ left' \in Nat
  BY <1>1, <1>4, <1>5
<1>7. CASE pc' \in {"save", "patch"} /\ UNCHANGED <<req, queue>>
  <2>1. Target' = Target
    BY <1>1, <1>7 DEF Target
  <2>2. /\ Target.start \in Nat /\ FileEnd(Target) \in Nat
        /\ BlockOf(Target.start) \in Nat \ {0}
    BY <1>1, TargetItem
  <2>3. CeilDiv(left, BlockOf(Target.start)) \in Int
    BY <1>5, <2>2 DEF CeilDiv
  <2>4. Target.start =< at' /\ at' + CeilDiv(left', BlockOf(Target.start)) =< FileEnd(Target)
    BY <1>1, <1>4, <1>5, <2>2, <2>3
  <2>5. TransferInside'
    BY <1>5, <1>6, <1>7, <2>1, <2>4 DEF TransferInside, Storing
  <2> QED
    BY <1>1, <1>2, <1>3, <1>7, <2>5, TransferGoesOn
<1>8. CASE pc' \in {"alloc", "commit"} /\ NextItem(pc')
  BY <1>1, <1>2, <1>3, <1>6, <1>8, TransferNextItem
<1> QED
  BY <1>7, <1>8 DEF SaveChunk, Transfer, NextItem

\* syslinux_patch.
LEMMA TransferPatch == TransferIInv /\ SyslinuxPatch => TransferIInv'
<1> SUFFICES ASSUME TransferIInv, SyslinuxPatch PROVE TransferIInv'
  OBVIOUS
<1> DEFINE p == Position(fb_list, req.name)
<1>1. /\ pc = "patch" /\ Storing /\ LayoutIInv
      /\ pc' \in {"alloc", "commit"} /\ NextItem(pc')
      /\ fb_list' = [fb_list EXCEPT ![p].sys = TRUE]
      /\ disk' = Written(Len(Pending.image))
      /\ UNCHANGED <<dlist, goal, at, left>>
  BY DEF SyslinuxPatch, Transfer, TransferIInv, Storing
<1>2. LayoutIInv'
  BY <1>1, LayoutPatch
<1>3. MarksOK'
  BY <1>1, PendingOK, MarksWritten
<1>4. at' \in Nat /\ left' \in Nat
  BY <1>1 DEF TransferIInv, TransferInside
<1>5. fb_list \in Seq(ItemType) /\ p \in 1 .. Len(fb_list) /\ fb_list[p].name = req.name
  BY <1>1, PositionOfName DEF LayoutIInv
<1> HIDE DEF p
<1>6. \A j \in 1 .. Len(fb_list) : fb_list[j].name # req.name =>
          j \in 1 .. Len(fb_list') /\ fb_list'[j] = fb_list[j]
  BY <1>1, <1>5
<1> QED
  BY <1>1, <1>2, <1>3, <1>4, <1>6, TransferNextItem

\* copy_disk, for a copy and for pack.
LEMMA TransferCopyChunk == TransferIInv /\ CopyChunk => TransferIInv'
<1> SUFFICES ASSUME TransferIInv, CopyChunk PROVE TransferIInv'
  OBVIOUS
<1>1. /\ pc \in {"copy", "packcopy"} /\ pc' = pc /\ LayoutIInv
      /\ at' = at + Len(CopyImage) /\ left' = left - Len(CopyImage)
      /\ disk' = Written(Len(Pending.image))
      /\ UNCHANGED <<dlist, fb_list, req, queue, goal>>
  BY DEF CopyChunk, Transfer, TransferIInv
<1>2. LayoutIInv'
  BY <1>1, LayoutCopyChunk
<1>3. MarksOK'
  BY <1>1, PendingOK, MarksWritten
<1>4. Len(CopyImage) \in Nat /\ Len(CopyImage) =< left /\ at \in Nat /\ left \in Nat
  BY <1>1, CopyImageOK DEF TransferIInv, TransferInside
<1>5. at' \in Nat /\ left' \in Nat
  BY <1>1, <1>4
<1>6. CASE pc = "copy"
  <2>1. /\ Storing /\ Target' = Target /\ Target.size = req.size
        /\ Target.start =< at /\ at + left =< FileEnd(Target)
    BY <1>1, <1>6 DEF TransferIInv, TransferInside, Storing, Target
  <2>2. Target.start \in Nat
    BY <1>1, <2>1, TargetItem
  <2>3. Target.start =< at' /\ at' + left' = at + left
    BY <1>1, <1>4, <2>1, <2>2
  <2>4. TransferInside'
    BY <1>1, <1>5, <1>6, <2>1, <2>3 DEF TransferInside
  <2> QED
    BY <1>1, <1>2, <1>3, <1>6, <2>1, <2>4, TransferGoesOn
<1>7. CASE pc = "packcopy"
  BY <1>1, <1>2, <1>3, <1>5, <1>7
     DEF TransferIInv, BystandersListed, CopyFits, TransferInside, Storing
<1> QED
  BY <1>1, <1>6, <1>7

\* cpy_file after the whole blocks.
LEMMA TransferCopyDone == TransferIInv /\ CopyDone => TransferIInv'
<1> SUFFICES ASSUME TransferIInv, CopyDone PROVE TransferIInv'
  OBVIOUS
<1>1. /\ pc = "copy" /\ pc' = "tail" /\ Storing /\ LayoutIInv /\ CopyFits
      /\ at' = Target.start + OldWhole
      /\ UNCHANGED <<disk, dlist, fb_list, req, queue, left, goal>>
  BY DEF CopyDone, TransferIInv, Storing
<1>2. LayoutIInv'
  BY <1>1, LayoutStep DEF Step
<1>3. MarksOK'
  BY <1>1 DEF TransferIInv, MarksOK
<1>4. Target.size = req.size /\ left \in Nat
  BY <1>1 DEF TransferIInv, TransferInside
<1>5. OldWhole \in Nat /\ Target.start \in Nat
  BY <1>1, <1>4, OldBlocksFit, TargetItem
<1>6. Target' = Target /\ OldWhole' = OldWhole
  BY <1>1 DEF Target, OldWhole
<1>7. TransferInside'
  BY <1>1, <1>4, <1>5, <1>6 DEF TransferInside
<1> QED
  BY <1>1, <1>2, <1>3, <1>7, TransferGoesOn

\* cpy_file after the last block of the old file.
LEMMA TransferCopyTail == TransferIInv /\ CopyTail => TransferIInv'
<1> SUFFICES ASSUME TransferIInv, CopyTail PROVE TransferIInv'
  OBVIOUS
<1>1. /\ pc = "tail" /\ pc' = "fill" /\ Storing /\ LayoutIInv /\ CopyFits
      /\ at' = at + Len(TailImage)
      /\ left' = Blocks(Target) - OldWhole - Len(TailImage)
      /\ disk' = Written(Len(Pending.image))
      /\ UNCHANGED <<dlist, fb_list, req, queue, goal>>
  BY DEF CopyTail, Transfer, TransferIInv, Storing
<1>2. LayoutIInv'
  BY <1>1, LayoutStep DEF Step
<1>3. MarksOK'
  BY <1>1, PendingOK, MarksWritten
<1>4. Target.size = req.size /\ at = Target.start + OldWhole
  BY <1>1 DEF TransferIInv, TransferInside
<1>5. /\ OldWhole \in Nat /\ Len(TailImage) \in Nat
      /\ OldWhole + Len(TailImage) =< Blocks(Target)
  BY <1>1, <1>4, OldBlocksFit
<1>6. /\ Target.start \in Nat /\ Blocks(Target) \in Nat
      /\ FileEnd(Target) = Target.start + Blocks(Target)
  BY <1>1, TargetItem
<1> DEFINE t == Target.start
           w == OldWhole
           n == Len(TailImage)
           b == Blocks(Target)
<1>7. /\ at' \in Nat /\ left' \in Nat /\ Target.start =< at'
      /\ at' + left' =< FileEnd(Target)
  <2>1. t \in Nat /\ w \in Nat /\ n \in Nat /\ b \in Nat /\ w + n =< b
    BY <1>5, <1>6
  <2>2. at' = t + w + n /\ left' = b - w - n /\ FileEnd(Target) = t + b
    BY <1>1, <1>4, <1>6
  <2> HIDE DEF t, w, n, b
  <2>3. at' \in Nat /\ left' \in Nat /\ t =< at' /\ at' + left' = t + b
    BY <2>1, <2>2
  <2> QED
    BY <2>1, <2>2, <2>3 DEF t
<1>8. Target' = Target
  BY <1>1 DEF Target
<1>9. TransferInside'
  BY <1>1, <1>4, <1>7, <1>8 DEF TransferInside
<1> QED
  BY <1>1, <1>2, <1>3, <1>9, TransferGoesOn

\* cpy_file fills up the new file.
LEMMA TransferFill == TransferIInv /\ FillChunk => TransferIInv'
<1> SUFFICES ASSUME TransferIInv, FillChunk PROVE TransferIInv'
  OBVIOUS
<1>1. /\ pc = "fill" /\ pc' \in {"fill", "commit"} /\ Storing /\ LayoutIInv
      /\ at' = at + Len(FillImage) /\ left' = left - Len(FillImage)
      /\ disk' = Written(Len(Pending.image))
      /\ UNCHANGED <<dlist, fb_list, req, queue, goal>>
  BY DEF FillChunk, Transfer, TransferIInv, Storing
<1>2. LayoutIInv'
  BY LayoutStep DEF Step, TransferIInv
<1>3. MarksOK'
  BY <1>1, PendingOK, MarksWritten
<1>4. /\ Target.size = req.size /\ at \in Nat /\ left \in Nat
      /\ Target.start =< at /\ at + left =< FileEnd(Target)
  BY <1>1 DEF TransferIInv, TransferInside
<1>5. Len(FillImage) \in Nat /\ Len(FillImage) =< left /\ Target.start \in Nat
  BY <1>1, FillImageOK, TargetItem
<1>6. /\ at' \in Nat /\ left' \in Nat /\ Target.start =< at'
      /\ at' + left' = at + left
  BY <1>1, <1>4, <1>5
<1>7. Target' = Target
  BY <1>1 DEF Target
<1>8. TransferInside'
  BY <1>1, <1>4, <1>6, <1>7 DEF TransferInside, Storing
<1> QED
  BY <1>1, <1>2, <1>3, <1>8, TransferGoesOn

\* pack_disk between two transfers.
LEMMA TransferPack ==
    ASSUME TransferIInv, PackItem \/ PackMoved \/ PackDone
    PROVE  TransferIInv'
<1>1. /\ pc \in {"pack", "packcopy"} /\ pc' \in {"pack", "packcopy", "commit"}
      /\ LayoutIInv /\ UNCHANGED <<disk, dlist, goal>>
  BY DEF PackItem, PackMoved, PackDone, TransferIInv
<1>2. LayoutIInv'
  BY <1>1, LayoutStep DEF Step
<1>3. MarksOK'
  BY <1>1 DEF TransferIInv, MarksOK
<1>4. at \in Nat /\ left \in Nat
  BY DEF TransferIInv, TransferInside
<1>5. at' \in Nat /\ left' \in Nat
  <2>1. CASE PackMoved \/ PackDone
    BY <1>4, <2>1 DEF PackMoved, PackDone
  <2>2. CASE PackItem
    <3> DEFINE f == fb_list[idx]
               b == PackStart(at, f)
    <3>1. idx \in 1 .. Len(fb_list)
      BY <2>2 DEF PackItem, LayoutIInv, PackInv, TransferIInv
    <3>2. f \in ItemType
      BY <1>1, <3>1 DEF LayoutIInv
    <3>3. Blocks(f) \in Nat
      BY <3>2, ItemExtent
    <3>4. b \in Nat
      BY <1>4, AreaAssumption DEF PackStart
    <3>5. \/ at' = b + Blocks(f) /\ left' = left
          \/ at' = b /\ left' = Blocks(f)
      BY <2>2 DEF PackItem
    <3> HIDE DEF b, f
    <3> QED
      BY <1>4, <3>3, <3>4, <3>5
  <2> QED
    BY <2>1, <2>2
<1> QED
  BY <1>1, <1>2, <1>3, <1>5
     DEF TransferIInv, BystandersListed, CopyFits, TransferInside, Storing

\* A run that ends early, wherever it was.
LEMMA TransferInterrupt == TransferIInv /\ Interrupt => TransferIInv'
<1> SUFFICES ASSUME TransferIInv, Interrupt PROVE TransferIInv'
  OBVIOUS
<1>1. LayoutIInv'
  BY LayoutNext DEF TransferIInv, Next
<1>2. PICK n \in 0 .. Len(Pending.image) : disk' = Written(n)
  BY DEF Interrupt
<1>3. MarksOK'
  BY <1>2, MarksWritten
<1> QED
  BY <1>1, <1>3, TransferForget DEF Interrupt

\* Every step keeps the invariant.
LEMMA TransferNext == TransferIInv /\ [Next]_vars => TransferIInv'
<1> SUFFICES ASSUME TransferIInv, [Next]_vars PROVE TransferIInv'
  OBVIOUS
<1>1. LayoutIInv'
  BY LayoutNext DEF TransferIInv
<1>2. CASE Command
  BY <1>2, TransferCommand
<1>3. CASE AllocFile
  BY <1>3, TransferAlloc
<1>4. CASE AllocQuit \/ PatchQuit \/ WriteHeader
  <2>1. UNCHANGED disk /\ \E outcome : Forget(outcome)
    BY <1>4 DEF AllocQuit, PatchQuit, Quit, WriteHeader
  <2>2. MarksOK'
    BY <2>1 DEF TransferIInv, MarksOK
  <2> QED
    BY <1>1, <2>1, <2>2, TransferForget
<1>5. CASE SaveChunk
  BY <1>5, TransferSave
<1>6. CASE SyslinuxPatch
  BY <1>6, TransferPatch
<1>7. CASE CopyChunk
  BY <1>7, TransferCopyChunk
<1>8. CASE CopyDone
  BY <1>8, TransferCopyDone
<1>9. CASE CopyTail
  BY <1>9, TransferCopyTail
<1>10. CASE FillChunk
  BY <1>10, TransferFill
<1>11. CASE PackItem \/ PackMoved \/ PackDone
  BY <1>11, TransferPack
<1>12. CASE Interrupt
  BY <1>12, TransferInterrupt
<1>13. CASE UNCHANGED vars
  <2>1. UNCHANGED <<disk, dlist, fb_list, pc, req, queue, at, from, left, idx, goal>>
    BY <1>13 DEF vars, work
  <2>2. MarksOK' /\ BystandersListed' /\ CopyFits' /\ TransferInside'
    BY <2>1 DEF TransferIInv, MarksOK, BystandersListed, CopyFits, TransferInside,
                Storing, Target, OldWhole
  <2> QED
    BY <1>1, <2>1, <2>2 DEF TransferIInv
<1> QED
  BY <1>2, <1>3, <1>4, <1>5, <1>6, <1>7, <1>8, <1>9, <1>10, <1>11, <1>12, <1>13
     DEF Next, Step, Stop

-----------------------------------------------------------------------------
(***************************************************************************)
(* The theorems about placement, marks and writes.                         *)
(***************************************************************************)

\* The blocks of a bystander and those of the file the command stores are
\* apart: they are two items of one list.
LEMMA WritesApart == TransferIInv => WritesAside
<1> SUFFICES ASSUME TransferIInv, NEW i \in 1 .. Len(dlist),
                    dlist[i].name \notin goal.writes,
                    NEW s \in Extent(dlist[i]), s \in PendingExtent
             PROVE  FALSE
  BY DEF WritesAside
<1>1. LayoutIInv /\ dlist \in Seq(ItemType)
  BY DEF TransferIInv, LayoutIInv
<1>2. Pending.start \in Nat /\ Len(Pending.image) \in Nat
  BY PendingOK
<1>3. /\ dlist[i] \in ItemType /\ dlist[i].start \in Nat /\ FileEnd(dlist[i]) \in Nat
  BY <1>1, ItemExtent
<1>4. /\ s \in Nat /\ dlist[i].start =< s /\ s < FileEnd(dlist[i])
      /\ Pending.start =< s /\ s < Pending.start + Len(Pending.image)
      /\ Len(Pending.image) > 0
  BY <1>2, <1>3 DEF Extent, PendingExtent
<1>5. CASE Storing
  <2>1. /\ Target.start =< Pending.start
        /\ Pending.start + Len(Pending.image) =< FileEnd(Target)
    BY <1>4, <1>5, PendingOK DEF ImageInside
  <2> DEFINE p == Position(fb_list, req.name)
  <2>2. /\ p \in 1 .. Len(fb_list) /\ Target = fb_list[p] /\ Target.name = req.name
        /\ Target.start \in Nat /\ FileEnd(Target) = Target.start + Blocks(Target)
        /\ Blocks(Target) \in Nat
    BY <1>1, <1>5, TargetItem
  <2> HIDE DEF p
  <2>3. req.name \in goal.writes
    BY <1>5 DEF TransferIInv, BystandersListed
  <2>4. PICK j \in 1 .. Len(fb_list) : fb_list[j] = dlist[i]
    BY <1>5 DEF TransferIInv, BystandersListed
  <2>5. j # p
    BY <2>2, <2>3, <2>4
  <2>6. \/ FileEnd(fb_list[j]) =< fb_list[p].start
        \/ FileEnd(fb_list[p]) =< fb_list[j].start
    <3>1. j < p \/ p < j
      BY <2>2, <2>5
    <3> QED
      BY <1>1, <2>2, <3>1 DEF LayoutIInv, LayoutInv, LayoutOK, InOrder
  <2>7. \/ FileEnd(dlist[i]) =< Target.start
        \/ FileEnd(Target) =< dlist[i].start
    BY <2>2, <2>4, <2>6
  <2>8. PICK lo \in Nat, hi \in Nat : lo = Target.start /\ hi = FileEnd(Target)
    BY <2>2
  <2>9. lo =< s /\ s < hi
    BY <1>2, <1>4, <2>1, <2>8
  <2>10. PICK a \in Nat, b \in Nat : a = dlist[i].start /\ b = FileEnd(dlist[i])
    BY <1>3
  <2>11. a =< s /\ s < b /\ (b =< lo \/ hi =< a)
    BY <1>4, <2>7, <2>8, <2>10
  <2> QED
    BY <1>4, <2>8, <2>9, <2>10, <2>11
<1>6. CASE pc = "packcopy"
  <2>1. NamesOf(dlist) \subseteq goal.writes
    BY <1>6 DEF TransferIInv
  <2> QED
    BY <2>1 DEF NamesOf
<1>7. CASE ~Storing /\ pc # "packcopy"
  <2>1. Pending = NoWrite
    BY <1>7 DEF Pending, Storing
  <2> QED
    BY <1>4, <2>1 DEF NoWrite
<1> QED
  BY <1>5, <1>6, <1>7

\* At every moment, between the writes of a command and after an interruption
\* in the middle of one, each primary sector carries its own number: what
\* check_disk verifies and the boot code relies on to tell a BIOS that reads
\* the wrong sector.
THEOREM MarksAlwaysKept == Spec => []MarksOK
<1>1. TransferIInv => MarksOK
  BY DEF TransferIInv
<1> QED
  BY TransferInit, TransferNext, <1>1, PTL DEF Spec

\* No write of any command, of whatever length, touches a block of a committed
\* file that the command does not name.
THEOREM WritesStayAside == Spec => []WritesAside
  BY TransferInit, TransferNext, WritesApart, PTL DEF Spec

-----------------------------------------------------------------------------
(***************************************************************************)
(* The inductive invariant of the refinement.                              *)
(***************************************************************************)

\* A byte as the files of a disk show it.
Masked(x) == IF x \in {LbaOf(s) : s \in Area} THEN Lba ELSE x

\* On the disk d, byte i of a file that starts at the given sector, and the
\* block of the file it is in.
ByteAt(d, start, i) == d[start + ((i - 1) \div BlockOf(start))][((i - 1) % BlockOf(start)) + 1]
BlockIn(start, i) == (i - 1) \div BlockOf(start)

ContentAt(d, f) == [i \in 1 .. f.size |-> Masked(ByteAt(d, f.start, i))]

ItemSet(list) == {list[j] : j \in 1 .. Len(list)}

\* What the files committed with this list would be.
FilesAt(d, list) == [n \in NamesOf(list) |-> ContentAt(d, Item(list, n))]

\* The names a command has not finished.
Unfinished ==
    IF pc = "alloc" \/ Storing
    THEN {req.name} \union {queue[k].name : k \in 1 .. Len(queue)}
    ELSE IF pc = "packcopy" THEN {fb_list[idx].name} ELSE {}

\* The files of a list but the unfinished ones are as they are wanted.
Fulfils(d, list, want, unfinished) ==
    /\ want = [n \in DOMAIN want |-> want[n]]
    /\ DOMAIN want = NamesOf(list) \union unfinished
    /\ \A f \in ItemSet(list) : f.name \notin unfinished => want[f.name] = ContentAt(d, f)

\* The content a file to be saved is to have.
Saved(r) == [i \in 1 .. r.size |-> IF r.sys /\ i = 1 THEN Lba ELSE Masked(r.data[i])]

\* What becomes of the names that are not finished: the last item of a name counts.
QueueWanted ==
    /\ req \in ReqType
    /\ \A k \in 1 .. Len(queue) :
          (\A j \in k + 1 .. Len(queue) : queue[j].name # queue[k].name)
             => goal.want[queue[k].name] = FS!Patched(queue[k].data, queue[k].sys)
    /\ req.kind = "save" =>
          /\ Len(req.data) = req.size
          /\ (\A j \in 1 .. Len(queue) : queue[j].name # req.name)
                => goal.want[req.name] = Saved(req)

\* The end of the old file of a copy.
OldEnd(r) == r.oldStart + CeilDiv(r.oldSize, BlockOf(r.oldStart))

\* The old file lies in an area, and no file but itself shares a sector with it.
OldInside(r) ==
    r.oldSize > 0 =>
        /\ DataBegin =< r.oldStart /\ OldEnd(r) =< TotalSize
        /\ InPrimary(r.oldStart) => OldEnd(r) =< PriSize
        /\ r.ext <=> ~InPrimary(r.oldStart)

OldAlone(r, list) ==
    r.oldSize > 0 =>
        \A f \in ItemSet(list) :
            \/ FileEnd(f) =< r.oldStart \/ OldEnd(r) =< f.start
            \/ f.name # r.name /\ f.start = r.oldStart /\ f.size = r.oldSize

\* A copy gives a file the bytes of the old one, and fills up.
CopyWanted(r, content) ==
    /\ r.kind = "cpy" /\ r.oldStart \in Nat /\ OldInside(r)
    /\ content = [i \in 1 .. r.size |-> content[i]]
    /\ \A i \in r.oldSize + 1 .. r.size : content[i] = Filler

\* A file in the middle of a move from one sector to another: its first blocks
\* are at the new place, the others at the old one.
Halfway(d, content, size, new, old, done) ==
    \A i \in 1 .. size :
        content[i] = Masked(ByteAt(d, IF BlockIn(old, i) < done THEN new ELSE old, i))

AllocOK ==
    pc = "alloc" /\ req.kind = "cpy" =>
        /\ queue = <<>> /\ CopyWanted(req, goal.want[req.name]) /\ OldAlone(req, fb_list)
        /\ Halfway(disk, goal.want[req.name], req.oldSize, 0, req.oldStart, 0)

SaveOK ==
    pc \in {"save", "patch"} =>
        /\ req.kind = "save" /\ left =< req.size
        /\ left > 0 => req.size - left = (at - Target.start) * BlockOf(Target.start)
        /\ \A i \in 1 .. req.size - left : ByteAt(disk, Target.start, i) = req.data[i]
        /\ IF pc = "save" THEN left > 0 ELSE left = 0 /\ req.sys

\* Where the new place of a copy is: in the same area, and not where writing it
\* from its beginning on destroys what is still to be read.
CopyPlaced(r, start) ==
    r.oldSize > 0 =>
        /\ InPrimary(start) <=> InPrimary(r.oldStart)
        /\ start =< r.oldStart \/ OldEnd(r) =< start

CopyOK ==
    pc \in {"copy", "tail"} =>
        /\ queue = <<>> /\ CopyWanted(req, goal.want[req.name])
        /\ CopyPlaced(req, Target.start)
        /\ from = req.oldStart + (at - Target.start)
        /\ pc = "copy" /\ Target.start # req.oldStart => at + left = Target.start + OldWhole
        /\ pc = "copy" /\ Target.start = req.oldStart => left = 0 /\ at = Target.start
        /\ Halfway(disk, goal.want[req.name], req.oldSize, Target.start, req.oldStart,
                   at - Target.start)

FillOK ==
    pc = "fill" =>
        /\ queue = <<>> /\ CopyWanted(req, goal.want[req.name])
        /\ at + left = FileEnd(Target)
        /\ \A i \in 1 .. req.size :
              goal.want[req.name][i] =
                 IF BlockIn(Target.start, i) < at - Target.start
                 THEN Masked(ByteAt(disk, Target.start, i)) ELSE Filler

\* pack_disk leaves no room before a file, but at the end of the primary area.
NextTo(start, list, i) ==
    start = GapBegin(list, i) \/ (start = PriSize /\ InPrimary(GapBegin(list, i)))

PackOK ==
    /\ pc \in {"pack", "packcopy"} => \A i \in 1 .. idx - 1 : NextTo(fb_list[i].start, fb_list, i)
    /\ pc = "pack" => at = GapBegin(fb_list, idx)
    /\ pc = "packcopy" =>
          LET f == fb_list[idx] IN
          /\ NextTo(PackBase, fb_list, idx)
          /\ left =< Blocks(f) /\ from = f.start + (at - PackBase)
          /\ goal.want[f.name] = [i \in 1 .. f.size |-> goal.want[f.name][i]]
          /\ Halfway(disk, goal.want[f.name], f.size, PackBase, f.start, at - PackBase)

FilesIInv ==
    /\ TransferIInv /\ TypeOK
    /\ goal.phase = "busy" <=> pc # "idle"
    /\ pc # "idle" => Fulfils(disk, fb_list, goal.want, Unfinished)
    /\ pc = "alloc" \/ Storing => QueueWanted
    /\ AllocOK /\ SaveOK /\ CopyOK /\ FillOK /\ PackOK

-----------------------------------------------------------------------------
(***************************************************************************)
(* Lists and contents.                                                     *)
(***************************************************************************)

\* A list as a set of items.
LEMMA ListItems ==
    ASSUME NEW list \in Seq(ItemType)
    PROVE  /\ ItemSet(list) \subseteq ItemType
           /\ NamesOf(list) = {f.name : f \in ItemSet(list)}
           /\ \A i \in 1 .. Len(list) : list[i] \in ItemSet(list)
<1>1. \A i \in 1 .. Len(list) : list[i] \in ItemType
  OBVIOUS
<1>2. ItemSet(list) \subseteq ItemType
  BY <1>1 DEF ItemSet
<1>3. \A i \in 1 .. Len(list) : list[i] \in ItemSet(list)
  BY DEF ItemSet
<1>4. NamesOf(list) = {f.name : f \in ItemSet(list)}
  BY DEF NamesOf, ItemSet
<1> QED
  BY <1>2, <1>3, <1>4

\* find_file returns the item of that name.
LEMMA ItemOfName ==
    ASSUME NEW list \in Seq(ItemType), LayoutOK(list), NEW name
    PROVE  /\ \A f \in ItemSet(list) : f.name = name => Item(list, name) = f
           /\ name \in NamesOf(list) =>
                 /\ Item(list, name) \in ItemSet(list) /\ Item(list, name) \in ItemType
                 /\ Item(list, name).name = name
<1>1. ASSUME name \in NamesOf(list)
      PROVE  /\ Item(list, name) \in ItemSet(list) /\ Item(list, name) \in ItemType
             /\ Item(list, name).name = name
  <2>1. /\ Position(list, name) \in 1 .. Len(list)
        /\ list[Position(list, name)].name = name
    BY <1>1, PositionOfName
  <2> QED
    BY <2>1, ListItems DEF Item
<1>2. ASSUME NEW f \in ItemSet(list), f.name = name PROVE Item(list, name) = f
  <2>1. PICK i \in 1 .. Len(list) : f = list[i]
    BY DEF ItemSet
  <2>2. name \in NamesOf(list)
    BY <1>2, <2>1 DEF NamesOf
  <2>3. /\ Position(list, name) \in 1 .. Len(list)
        /\ list[Position(list, name)].name = name
    BY <2>2, PositionOfName
  <2>4. Position(list, name) = i
    BY <1>2, <2>1, <2>3 DEF LayoutOK, UniqueNames
  <2> QED
    BY <2>1, <2>4 DEF Item
<1> QED
  BY <1>1, <1>2

\* Two items of a list are apart.
LEMMA ItemsApart ==
    ASSUME NEW list \in Seq(ItemType), LayoutOK(list),
           NEW f \in ItemSet(list), NEW g \in ItemSet(list)
    PROVE  f = g \/ (f.name # g.name /\ (FileEnd(f) =< g.start \/ FileEnd(g) =< f.start))
<1>1. PICK i \in 1 .. Len(list) : f = list[i]
  BY DEF ItemSet
<1>2. PICK j \in 1 .. Len(list) : g = list[j]
  BY DEF ItemSet
<1>3. i = j \/ i < j \/ j < i
  OBVIOUS
<1> QED
  BY <1>1, <1>2, <1>3 DEF LayoutOK, InOrder, UniqueNames

\* An item lies in the data areas, and in one of them.
LEMMA ItemInside ==
    ASSUME NEW list \in Seq(ItemType), LayoutOK(list), NEW f \in ItemSet(list)
    PROVE  /\ DataBegin =< f.start /\ FileEnd(f) =< TotalSize
           /\ InPrimary(f.start) => FileEnd(f) =< PriSize
           /\ Extent(f) \subseteq Area
<1>1. PICK i \in 1 .. Len(list) : f = list[i]
  BY DEF ItemSet
<1>2. /\ DataBegin =< f.start /\ FileEnd(f) =< TotalSize
      /\ InPrimary(f.start) => FileEnd(f) =< PriSize
  BY <1>1 DEF LayoutOK, InAreas
<1>3. f \in ItemType
  BY ListItems
<1>4. f.start \in Nat /\ FileEnd(f) \in Nat
  BY <1>3, ItemExtent
<1> QED
  BY <1>2, <1>4, AreaAssumption DEF Extent, Area

\* del_file as a set of items.
LEMMA WithoutItems ==
    ASSUME NEW list \in Seq(ItemType), LayoutOK(list), NEW name
    PROVE  /\ ItemSet(Without(list, name)) = {f \in ItemSet(list) : f.name # name}
           /\ NamesOf(Without(list, name)) = NamesOf(list) \ {name}
<1> DEFINE short == Without(list, name)
<1>1. /\ short \in Seq(ItemType) /\ LayoutOK(short) /\ name \notin NamesOf(short)
  BY WithoutKeepsLayout
<1>2. ASSUME NEW f \in ItemSet(list), f.name # name PROVE f \in ItemSet(short)
  <2>1. PICK i \in 1 .. Len(list) : f = list[i]
    BY DEF ItemSet
  <2>2. \E j \in 1 .. Len(short) : short[j] = list[i]
    BY <1>2, <2>1, WithoutKeepsItem
  <2> QED
    BY <2>1, <2>2 DEF ItemSet
<1>3. ASSUME NEW f \in ItemSet(short) PROVE f \in ItemSet(list) /\ f.name # name
  <2>1. PICK k \in 1 .. Len(short) : f = short[k]
    BY DEF ItemSet
  <2>2. f.name # name
    BY <1>1, <2>1 DEF NamesOf
  <2>3. f \in ItemSet(list)
    <3>1. CASE name \notin NamesOf(list)
      BY <2>1, <3>1, ListItems DEF Without
    <3>2. CASE name \in NamesOf(list)
      <4> DEFINE p == Position(list, name)
      <4>1. p \in 1 .. Len(list)
        BY <3>2, PositionOfName
      <4>2. short = RemoveAt(list, p)
        BY <3>2 DEF Without
      <4> HIDE DEF p, short
      <4>3. /\ Len(short) = Len(list) - 1
            /\ short[k] = list[k] \/ short[k] = list[k + 1]
            /\ k \in 1 .. Len(list) /\ k + 1 \in 1 .. Len(list)
        BY <2>1, <4>1, <4>2, RemoveAtItems
      <4> QED
        BY <2>1, <4>3 DEF ItemSet
    <3> QED
      BY <3>1, <3>2
  <2> QED
    BY <2>2, <2>3
<1>4. ItemSet(short) = {f \in ItemSet(list) : f.name # name}
  BY <1>2, <1>3
<1>5. NamesOf(short) = NamesOf(list) \ {name}
  <2>1. NamesOf(short) = {f.name : f \in ItemSet(short)} /\ NamesOf(list) = {f.name : f \in ItemSet(list)}
    BY <1>1, ListItems
  <2> HIDE DEF short
  <2> QED
    BY <1>4, <2>1
<1> QED
  BY <1>4, <1>5

\* An insertion as a set of items.
LEMMA InsertItems ==
    ASSUME NEW list \in Seq(ItemType), NEW e \in ItemType, NEW i \in Gaps(list)
    PROVE  /\ ItemSet(InsertAt(list, i, e)) = ItemSet(list) \union {e}
           /\ NamesOf(InsertAt(list, i, e)) = NamesOf(list) \union {e.name}
<1>0. i \in 1 .. Len(list) + 1 /\ list \in Seq(ItemType) /\ e \in ItemType
  BY DEF Gaps
<1>9. /\ InsertAt(list, i, e) \in Seq(ItemType) /\ Len(InsertAt(list, i, e)) = Len(list) + 1
      /\ \A j \in 1 .. Len(list) + 1 :
            InsertAt(list, i, e)[j] = IF j < i THEN list[j] ELSE IF j = i THEN e ELSE list[j - 1]
  BY <1>0, InsertAtItems
<1> DEFINE long == InsertAt(list, i, e)
<1>1. /\ long \in Seq(ItemType) /\ Len(long) = Len(list) + 1
      /\ \A j \in 1 .. Len(list) + 1 :
            long[j] = IF j < i THEN list[j] ELSE IF j = i THEN e ELSE list[j - 1]
  BY <1>9
<1>2. ASSUME NEW f \in ItemSet(list) PROVE f \in ItemSet(long)
  <2>1. PICK j \in 1 .. Len(list) : f = list[j]
    BY DEF ItemSet
  <2>2. \E k \in 1 .. Len(long) : long[k] = list[j]
    BY <1>0, InsertKeepsItem
  <2> QED
    BY <2>1, <2>2 DEF ItemSet
<1> HIDE DEF long
<1>3. e \in ItemSet(long)
  <2>1. i \in 1 .. Len(long) /\ long[i] = e
    BY <1>0, <1>1
  <2> QED
    BY <2>1 DEF ItemSet
<1>4. ASSUME NEW f \in ItemSet(long) PROVE f \in ItemSet(list) \union {e}
  <2>1. PICK k \in 1 .. Len(list) + 1 : f = long[k]
    BY <1>1 DEF ItemSet
  <2>2. CASE k < i
    <3>1. k \in 1 .. Len(list) /\ f = list[k]
      BY <1>0, <1>1, <2>1, <2>2
    <3> QED
      BY <3>1 DEF ItemSet
  <2>3. CASE k = i
    BY <1>1, <2>1, <2>3
  <2>4. CASE k > i
    <3>1. k - 1 \in 1 .. Len(list) /\ f = list[k - 1]
      BY <1>0, <1>1, <2>1, <2>4
    <3> QED
      BY <3>1 DEF ItemSet
  <2> QED
    BY <1>0, <2>2, <2>3, <2>4
<1>5. ItemSet(long) = ItemSet(list) \union {e}
  BY <1>2, <1>3, <1>4
<1>6. NamesOf(long) = {f.name : f \in ItemSet(long)} /\ NamesOf(list) = {f.name : f \in ItemSet(list)}
  BY <1>1, ListItems
<1>7. NamesOf(long) = NamesOf(list) \union {e.name}
  BY <1>5, <1>6
<1> QED
  BY <1>5, <1>7 DEF long

\* One item of a list is another one.
LEMMA ExceptItems ==
    ASSUME NEW list \in Seq(ItemType), LayoutOK(list), NEW p \in 1 .. Len(list), NEW g \in ItemType,
           NEW new \in Seq(ItemType), Len(new) = Len(list), new[p] = g,
           \A j \in 1 .. Len(list) : j # p => new[j] = list[j]
    PROVE  /\ ItemSet(new) = (ItemSet(list) \ {list[p]}) \union {g}
           /\ NamesOf(new) = (NamesOf(list) \ {list[p].name}) \union {g.name}
<1>1. /\ new \in Seq(ItemType) /\ Len(new) = Len(list) /\ new[p] = g
      /\ \A j \in 1 .. Len(list) : j # p => new[j] = list[j]
  OBVIOUS
<1>2. \A j \in 1 .. Len(list) : list[j] = list[p] => j = p
  BY DEF LayoutOK, UniqueNames
<1>3. ItemSet(new) = (ItemSet(list) \ {list[p]}) \union {g}
  <2>1. ASSUME NEW f \in ItemSet(new) PROVE f \in (ItemSet(list) \ {list[p]}) \union {g}
    <3>1. PICK j \in 1 .. Len(list) : f = new[j]
      BY <1>1 DEF ItemSet
    <3>2. CASE j = p
      BY <1>1, <3>1, <3>2
    <3>3. CASE j # p
      BY <1>1, <1>2, <3>1, <3>3 DEF ItemSet
    <3> QED
      BY <3>2, <3>3
  <2>2. ASSUME NEW f \in ItemSet(list), f # list[p] PROVE f \in ItemSet(new)
    <3>1. PICK j \in 1 .. Len(list) : f = list[j]
      BY DEF ItemSet
    <3>2. f = new[j]
      BY <1>1, <2>2, <3>1
    <3> QED
      BY <1>1, <3>2 DEF ItemSet
  <2>3. g \in ItemSet(new)
    BY <1>1 DEF ItemSet
  <2> QED
    BY <2>1, <2>2, <2>3
<1>4. NamesOf(new) = {f.name : f \in ItemSet(new)} /\ NamesOf(list) = {f.name : f \in ItemSet(list)}
  BY <1>1, ListItems
<1>5. list[p] \in ItemSet(list) /\ \A f \in ItemSet(list) : f.name = list[p].name => f = list[p]
  BY ListItems, ItemsApart
<1>6. NamesOf(new) = (NamesOf(list) \ {list[p].name}) \union {g.name}
  BY <1>3, <1>4, <1>5
<1> QED
  BY <1>3, <1>6

\* A byte of a file is in one of its blocks.
LEMMA ByteBlock ==
    ASSUME NEW size \in Nat \ {0}, NEW b \in Nat \ {0}, NEW i \in 1 .. size
    PROVE  /\ (i - 1) \div b \in Nat /\ (i - 1) \div b < CeilDiv(size, b)
           /\ (i - 1) % b \in 0 .. b - 1
           /\ i - 1 = b * ((i - 1) \div b) + ((i - 1) % b)
<1> DEFINE q == (i - 1) \div b
           r == (i - 1) % b
           c == CeilDiv(size, b)
<1>1. q \in Nat /\ r \in 0 .. b - 1 /\ i - 1 = b * q + r
  OBVIOUS
<1>2. c \in Nat \ {0} /\ size =< b * c
  BY CeilDivBounds
<1> HIDE DEF q, r, c
<1>3. b * q < b * c
  BY <1>1, <1>2
<1>4. q < c
  BY <1>1, <1>2, <1>3, ProductLess
<1> QED
  BY <1>1, <1>4 DEF q, r, c

\* So it is in a sector of the file.
LEMMA ByteSector ==
    ASSUME NEW f \in ItemType, NEW i \in 1 .. f.size
    PROVE  /\ BlockIn(f.start, i) \in Nat /\ BlockIn(f.start, i) < Blocks(f)
           /\ f.start + BlockIn(f.start, i) \in Extent(f)
<1>1. /\ f.start \in Nat /\ f.size \in Nat \ {0} /\ BlockOf(f.start) \in Nat \ {0}
      /\ Blocks(f) \in Nat /\ FileEnd(f) = f.start + Blocks(f)
  BY ItemExtent DEF FileEnd
<1>2. /\ BlockIn(f.start, i) \in Nat /\ BlockIn(f.start, i) < Blocks(f)
  BY <1>1, ByteBlock DEF BlockIn, Blocks
<1> QED
  BY <1>1, <1>2 DEF Extent

\* The content of a file is in its sectors.
LEMMA ContentSame ==
    ASSUME NEW d, NEW e, NEW f \in ItemType, \A s \in Extent(f) : e[s] = d[s]
    PROVE  ContentAt(e, f) = ContentAt(d, f)
<1>1. \A i \in 1 .. f.size : ByteAt(e, f.start, i) = ByteAt(d, f.start, i)
  BY ByteSector DEF ByteAt, BlockIn
<1> QED
  BY <1>1 DEF ContentAt

\* The committed files.
LEMMA StoreFiles == Store = FilesAt(disk, dlist)
  BY DEF Store, FilesAt, ContentAt, Masked, ByteOf, ByteAt

\* A list that fulfils what is wanted, with nothing unfinished, is what is wanted.
LEMMA Fulfilled ==
    ASSUME NEW d, NEW list \in Seq(ItemType), LayoutOK(list), NEW want, Fulfils(d, list, want, {})
    PROVE  FilesAt(d, list) = want
<1>1. /\ want = [n \in DOMAIN want |-> want[n]] /\ DOMAIN want = NamesOf(list)
      /\ \A f \in ItemSet(list) : want[f.name] = ContentAt(d, f)
  BY DEF Fulfils
<1>2. \A n \in NamesOf(list) : want[n] = ContentAt(d, Item(list, n))
  BY <1>1, ItemOfName
<1> QED
  BY <1>1, <1>2 DEF FilesAt

\* The files of a list, one by one.
LEMMA FilesItems ==
    ASSUME NEW d, NEW list \in Seq(ItemType), LayoutOK(list)
    PROVE  /\ DOMAIN FilesAt(d, list) = NamesOf(list)
           /\ \A f \in ItemSet(list) :
                 /\ f.name \in NamesOf(list)
                 /\ FilesAt(d, list)[f.name] = ContentAt(d, f)
<1>1. DOMAIN FilesAt(d, list) = NamesOf(list)
  BY DEF FilesAt
<1>2. ASSUME NEW f \in ItemSet(list)
      PROVE  f.name \in NamesOf(list) /\ FilesAt(d, list)[f.name] = ContentAt(d, f)
  <2>1. f.name \in NamesOf(list)
    BY ListItems
  <2>2. Item(list, f.name) = f
    BY ItemOfName
  <2> QED
    BY <2>1, <2>2 DEF FilesAt
<1> QED
  BY <1>1, <1>2

-----------------------------------------------------------------------------
(***************************************************************************)
(* What a write changes.                                                   *)
(***************************************************************************)

\* A write, whole or cut short, leaves the sectors it is not for.
LEMMA WriteLeaves ==
    ASSUME TransferIInv, NEW n \in 0 .. Len(Pending.image), disk' = Written(n)
    PROVE  \A s \in Area : s \notin PendingExtent => disk'[s] = disk[s]
<1>1. Pending.start \in Nat /\ Len(Pending.image) \in Nat
  BY PendingOK
<1>2. ASSUME NEW s \in Area, s \notin PendingExtent PROVE disk'[s] = disk[s]
  <2>1. s \in Nat
    BY AreaAssumption DEF Area
  <2>2. s \notin Pending.start .. Pending.start + n - 1
    BY <1>1, <1>2, <2>1 DEF PendingExtent
  <2> QED
    BY <2>2 DEF Written
<1> QED
  BY <1>2

\* A whole one puts its image there.
LEMMA WritePuts ==
    ASSUME TransferIInv, disk' = Written(Len(Pending.image))
    PROVE  \A j \in 1 .. Len(Pending.image) :
              Pending.start + j - 1 \in Area => disk'[Pending.start + j - 1] = Pending.image[j]
<1> DEFINE p == Pending.start
           m == Len(Pending.image)
<1>1. p \in Nat /\ m \in Nat
  BY PendingOK
<1>2. ASSUME NEW j \in 1 .. m, NEW s \in Area, s = p + j - 1
      PROVE  disk'[s] = Pending.image[j]
  <2>1. s \in p .. p + m - 1 /\ s - p + 1 = j
    BY <1>1, <1>2
  <2> QED
    BY <2>1 DEF Written
<1> QED
  BY <1>2

\* The files of the committed list that the command does not write.
LEMMA CommittedSpared ==
    ASSUME TransferIInv, NEW n \in 0 .. Len(Pending.image), disk' = Written(n),
           NEW f \in ItemSet(dlist), f.name \notin goal.writes
    PROVE  ContentAt(disk', f) = ContentAt(disk, f)
<1>1. dlist \in Seq(ItemType) /\ LayoutOK(dlist)
  BY DEF TransferIInv, LayoutIInv, LayoutInv
<1>2. f \in ItemType /\ Extent(f) \subseteq Area
  BY <1>1, ListItems, ItemInside
<1>3. PICK i \in 1 .. Len(dlist) : f = dlist[i]
  BY DEF ItemSet
<1>4. Extent(f) \cap PendingExtent = {}
  BY <1>3, WritesApart DEF WritesAside
<1>5. \A s \in Extent(f) : disk'[s] = disk[s]
  BY <1>2, <1>4, WriteLeaves
<1> QED
  BY <1>2, <1>5, ContentSame

\* A write to the file being stored stays inside it.
LEMMA WriteInTarget ==
    ASSUME TransferIInv, Storing
    PROVE  PendingExtent \subseteq Extent(Target)
<1>1. /\ Pending.start \in Nat /\ Len(Pending.image) \in Nat
      /\ Len(Pending.image) > 0 =>
            Target.start =< Pending.start /\ Pending.start + Len(Pending.image) =< FileEnd(Target)
  BY PendingOK DEF ImageInside
<1>2. Target.start \in Nat /\ FileEnd(Target) \in Nat
  BY TargetItem DEF TransferIInv
<1> QED
  BY <1>1, <1>2 DEF PendingExtent, Extent

\* The other files of the list in memory.
LEMMA OthersSpared ==
    ASSUME TransferIInv, Storing, NEW n \in 0 .. Len(Pending.image), disk' = Written(n),
           NEW f \in ItemSet(fb_list), f.name # req.name
    PROVE  ContentAt(disk', f) = ContentAt(disk, f)
<1>1. fb_list \in Seq(ItemType) /\ LayoutOK(fb_list) /\ LayoutIInv
  BY DEF TransferIInv, LayoutIInv, LayoutInv
<1>2. f \in ItemType /\ Extent(f) \subseteq Area /\ f.start \in Nat /\ FileEnd(f) \in Nat
  BY <1>1, ListItems, ItemInside, ItemExtent
<1>3. PICK g \in ItemSet(fb_list) : g = Target
  BY <1>1, TargetItem, ListItems
<1>4. g.name = req.name /\ g.start \in Nat /\ FileEnd(g) \in Nat
  BY <1>1, <1>3, TargetItem
<1>5. FileEnd(f) =< g.start \/ FileEnd(g) =< f.start
  BY <1>1, <1>4, ItemsApart
<1>6. Extent(f) \cap Extent(g) = {}
  BY <1>2, <1>4, <1>5 DEF Extent
<1>7. \A s \in Extent(f) : disk'[s] = disk[s]
  BY <1>2, <1>3, <1>6, WriteInTarget, WriteLeaves
<1> QED
  BY <1>2, <1>7, ContentSame

\* What a write of a command does to the committed files.
LEMMA WriteDamages ==
    ASSUME TransferIInv, NEW n \in 0 .. Len(Pending.image), disk' = Written(n), dlist' = dlist
    PROVE  FS!Damaged
<1>1. dlist \in Seq(ItemType) /\ LayoutOK(dlist)
  BY DEF TransferIInv, LayoutIInv, LayoutInv
<1>2. Store = FilesAt(disk, dlist)
  BY StoreFiles
<1>3. Store' = FilesAt(disk', dlist)
  BY DEF Store, FilesAt, ContentAt, Masked, ByteOf, ByteAt
<1>4. DOMAIN Store' = DOMAIN Store
  BY <1>2, <1>3 DEF FilesAt
<1>5. ASSUME NEW name \in DOMAIN Store \ goal.writes PROVE Store'[name] = Store[name]
  <2>1. name \in NamesOf(dlist)
    BY <1>2 DEF FilesAt
  <2>2. PICK f \in ItemSet(dlist) : f.name = name
    BY <1>1, <2>1, ItemOfName
  <2>3. ContentAt(disk', f) = ContentAt(disk, f)
    BY <1>5, <2>2, CommittedSpared
  <2>4. /\ FilesAt(disk, dlist)[f.name] = ContentAt(disk, f)
        /\ FilesAt(disk', dlist)[f.name] = ContentAt(disk', f)
    BY <1>1, FilesItems
  <2> QED
    BY <1>2, <1>3, <2>2, <2>3, <2>4
<1> QED
  BY <1>4, <1>5 DEF FS!Damaged

\* What leaves the disk and the committed list leaves the committed files.
LEMMA StoreSame ==
    ASSUME UNCHANGED <<disk, dlist>> PROVE Store' = Store
<1>1. Store' = FilesAt(disk', dlist')
  BY DEF Store, FilesAt, ContentAt, Masked, ByteOf, ByteAt
<1> QED
  BY <1>1, StoreFiles

-----------------------------------------------------------------------------
(***************************************************************************)
(* Every step is a step of FileStore.                                      *)
(***************************************************************************)

\* A command fixes what it will commit.
LEMMA CommandRefines ==
    ASSUME FilesIInv, Command PROVE FS!Next
<1>1. /\ pc = "idle" /\ UNCHANGED <<disk, dlist>>
  BY DEF Command, AddFile, AddMenu, Shrink, Grow, CopyFile, MoveFile,
         RemoveFile, ClearMenu, PackDisk, LoadArchive, Begin
<1>2. ~FS!Busy
  BY <1>1 DEF FilesIInv, FS!Busy
<1>3. Store' = Store
  BY <1>1, StoreSame
<1>4. /\ dlist \in Seq(ItemType) /\ LayoutOK(dlist)
  BY DEF FilesIInv, TransferIInv, LayoutIInv, LayoutInv
<1>5. DOMAIN Store = NamesOf(dlist)
  BY StoreFiles DEF FilesAt
<1>6. ASSUME NEW writes, NEW want, goal' = FS!Goal(writes, want) PROVE FS!Start(writes, want)
  BY <1>2, <1>3, <1>6 DEF FS!Start
<1>7. ASSUME NEW name \in NamesOf(dlist)
      PROVE  Len(Store[name]) = Item(dlist, name).size /\ Item(dlist, name).size \in Nat
  <2>1. /\ Item(dlist, name) \in ItemType /\ Item(dlist, name) \in ItemSet(dlist)
        /\ Item(dlist, name).name = name
    BY <1>4, <1>7, ItemOfName
  <2>2. PICK f \in ItemType : f = Item(dlist, name)
    BY <2>1
  <2>3. Store[name] = ContentAt(disk, f)
    BY <1>7, <2>2, StoreFiles DEF FilesAt
  <2>4. f.size \in Nat
    BY ItemExtent
  <2>5. Len(ContentAt(disk, f)) = f.size
    BY <2>4 DEF ContentAt
  <2> QED
    BY <2>2, <2>3, <2>4, <2>5
<1>8. CASE \E name \in Names, data \in Datas, ext, sys, stdin \in BOOLEAN :
              AddFile(name, data, ext, sys, stdin)
  <2>1. PICK name \in Names, data \in Datas, sys \in BOOLEAN :
           goal' = FS!Goal({name}, FS!Put(Store, name, FS!Patched(data, sys)))
    BY <1>8 DEF AddFile
  <2>2. FS!AddFile
    BY <1>6, <2>1 DEF FS!AddFile
  <2> QED
    BY <2>2 DEF FS!Next
<1>9. ASSUME NEW name \in Names, NEW items \in Datas, NEW append \in BOOLEAN,
             AddMenu(name, items, append)
      PROVE  FS!Next
  <2>1. CASE append
    <3>1. goal' = FS!Goal({name}, FS!Appended(Store, name, Append(items, Term)))
      BY <1>9, <2>1 DEF AddMenu
    <3>2. FS!AddMenu
      BY <1>6, <3>1 DEF FS!AddMenu
    <3> QED
      BY <3>2 DEF FS!Next
  <2>2. CASE ~append
    <3>1. goal' = FS!Goal({name}, FS!Put(Store, name, Append(items, Term)))
      BY <1>9, <2>2 DEF AddMenu
    <3>2. FS!NewMenu
      BY <1>6, <3>1 DEF FS!NewMenu
    <3> QED
      BY <3>2 DEF FS!Next
  <2> QED
    BY <2>1, <2>2
<1>10. ASSUME NEW name \in Names, NEW size \in Sizes, Shrink(name, size)
       PROVE  FS!Next
  <2>1. /\ name \in NamesOf(dlist) /\ Item(dlist, name).size >= size /\ size \in Nat
        /\ goal' = FS!Goal({}, FS!Resized(Store, name, size))
    BY <1>10, StoreAssumption DEF Shrink
  <2>2. name \in DOMAIN Store /\ size =< Len(Store[name])
    BY <1>5, <1>7, <2>1
  <2>3. FS!ResizeFile
    BY <1>6, <2>1, <2>2 DEF FS!ResizeFile
  <2> QED
    BY <2>3 DEF FS!Next
<1>11. ASSUME NEW name \in Names, NEW size \in Sizes, NEW ext \in BOOLEAN, Grow(name, size, ext)
       PROVE  FS!Next
  <2>1. /\ name \in NamesOf(dlist) => Item(dlist, name).size < size
        /\ size \in Nat
        /\ goal' = FS!Goal({name}, FS!Resized(Store, name, size))
    BY <1>11, StoreAssumption DEF Grow
  <2>2. ~(name \in DOMAIN Store /\ size =< Len(Store[name]))
    BY <1>5, <1>7, <2>1
  <2>3. FS!ResizeFile
    BY <1>6, <2>1, <2>2 DEF FS!ResizeFile
  <2> QED
    BY <2>3 DEF FS!Next
<1>12. ASSUME NEW old \in Names, NEW new \in Names, CopyFile(old, new)
       PROVE  FS!Next
  <2>1. /\ old \in DOMAIN Store /\ new \in Names \ {old}
        /\ goal' = FS!Goal({new}, FS!Put(Store, new, Store[old]))
    BY <1>5, <1>12 DEF CopyFile
  <2>2. FS!CopyFile
    BY <1>6, <2>1 DEF FS!CopyFile
  <2> QED
    BY <2>2 DEF FS!Next
<1>13. ASSUME NEW old \in Names, NEW new \in Names, MoveFile(old, new)
       PROVE  FS!Next
  <2>1. /\ old \in DOMAIN Store /\ new \in Names \ {old}
        /\ goal' = FS!Goal({}, FS!Moved(Store, old, new))
    BY <1>5, <1>13 DEF MoveFile
  <2>2. FS!MoveFile
    BY <1>6, <2>1 DEF FS!MoveFile
  <2> QED
    BY <2>2 DEF FS!Next
<1>14. ASSUME NEW name \in Names, RemoveFile(name)
       PROVE  FS!Next
  <2>1. name \in DOMAIN Store /\ goal' = FS!Goal({}, FS!Drop(Store, name))
    BY <1>5, <1>14 DEF RemoveFile
  <2>2. FS!RemoveFile
    BY <1>6, <2>1 DEF FS!RemoveFile
  <2> QED
    BY <2>2 DEF FS!Next
<1>15. CASE ClearMenu
  <2>1. FS!ClearFiles
    BY <1>6, <1>15 DEF ClearMenu, FS!ClearFiles
  <2> QED
    BY <2>1 DEF FS!Next
<1>16. CASE PackDisk
  <2>1. goal' = FS!Goal(DOMAIN Store, Store)
    BY <1>5, <1>16 DEF PackDisk
  <2>2. FS!PackDisk
    BY <1>6, <2>1 DEF FS!PackDisk
  <2> QED
    BY <2>2 DEF FS!Next
<1>17. ASSUME NEW archive \in Archives, LoadArchive(archive)
       PROVE  FS!Next
  <2>1. DOMAIN archive = 1 .. Len(archive)
    BY ArchiveAssumption
  <2>2. goal' = FS!Goal({archive[i].name : i \in DOMAIN archive}, FS!Loaded(Store, archive))
    BY <1>17, <2>1 DEF LoadArchive
  <2>3. FS!LoadArchive
    BY <1>6, <2>2 DEF FS!LoadArchive
  <2> QED
    BY <2>3 DEF FS!Next
<1> QED
  BY <1>8, <1>9, <1>10, <1>11, <1>12, <1>13, <1>14, <1>15, <1>16, <1>17 DEF Command

\* The steps of a command write, or do nothing to the committed files, until it
\* commits or gives up.
LEMMA StepRefines ==
    ASSUME FilesIInv, [Next]_vars PROVE [FS!Next]_(FS!vars)
<1>1. TransferIInv /\ fb_list \in Seq(ItemType) /\ LayoutOK(fb_list)
  BY DEF FilesIInv, TransferIInv, LayoutIInv, LayoutInv
<1>2. Len(Pending.image) \in Nat
  BY <1>1, PendingOK
<1>3. CASE Command
  BY <1>3, CommandRefines
<1>4. CASE /\ disk' = Written(Len(Pending.image)) /\ pc # "idle"
           /\ UNCHANGED <<dlist, goal>>
  <2>1. FS!Damaged
    BY <1>1, <1>2, <1>4, WriteDamages
  <2>2. FS!Write
    BY <1>4, <2>1 DEF FilesIInv, FS!Write, FS!Busy
  <2> QED
    BY <2>2 DEF FS!Next
<1>5. CASE UNCHANGED <<disk, dlist, goal>>
  BY <1>5, StoreSame DEF FS!vars
<1>6. CASE /\ pc # "idle" /\ dlist' = dlist /\ goal' = FS!NoGoal
           /\ \E n \in 0 .. Len(Pending.image) : disk' = Written(n)
  <2>1. FS!Damaged
    BY <1>1, <1>6, WriteDamages
  <2>2. FS!Abort
    BY <1>6, <2>1 DEF FilesIInv, FS!Abort, FS!Busy
  <2> QED
    BY <2>2 DEF FS!Next
<1>7. CASE pc # "idle" /\ UNCHANGED <<disk, dlist>> /\ goal' = FS!NoGoal
  <2>1. Store' = Store
    BY <1>7, StoreSame
  <2>2. FS!Abort
    BY <1>7, <2>1 DEF FilesIInv, FS!Abort, FS!Busy, FS!Damaged
  <2> QED
    BY <2>2 DEF FS!Next
<1>8. CASE WriteHeader
  <2>1. pc = "commit" /\ dlist' = fb_list /\ disk' = disk /\ goal' = FS!Achieved
    BY <1>8 DEF WriteHeader, Forget
  <2>2. Unfinished = {}
    BY <2>1 DEF Unfinished, Storing
  <2>3. FilesAt(disk, fb_list) = goal.want
    BY <1>1, <2>1, <2>2, Fulfilled DEF FilesIInv
  <2>4. Store' = FilesAt(disk, fb_list)
    BY <2>1 DEF Store, FilesAt, ContentAt, Masked, ByteOf, ByteAt
  <2>5. FS!Commit
    BY <2>1, <2>3, <2>4 DEF FilesIInv, FS!Commit, FS!Busy
  <2> QED
    BY <2>5 DEF FS!Next
<1>9. CASE SaveChunk \/ SyslinuxPatch \/ CopyChunk \/ CopyTail \/ FillChunk
  <2>1. /\ disk' = Written(Len(Pending.image)) /\ pc # "idle"
        /\ UNCHANGED <<dlist, goal>>
    BY <1>9 DEF SaveChunk, SyslinuxPatch, CopyChunk, CopyTail, FillChunk, Transfer
  <2> QED
    BY <1>4, <2>1
<1>10. CASE AllocFile \/ CopyDone \/ PackItem \/ PackMoved \/ PackDone
  BY <1>5, <1>10 DEF AllocFile, CopyDone, PackItem, PackMoved, PackDone
<1>11. CASE AllocQuit \/ PatchQuit
  <2>1. pc # "idle" /\ UNCHANGED <<disk, dlist>> /\ goal' = FS!NoGoal
    BY <1>11 DEF AllocQuit, PatchQuit, Quit, Forget
  <2> QED
    BY <1>7, <2>1
<1>12. CASE Interrupt
  <2>1. /\ pc # "idle" /\ dlist' = dlist /\ goal' = FS!NoGoal
        /\ \E n \in 0 .. Len(Pending.image) : disk' = Written(n)
    BY <1>12 DEF Interrupt, Forget
  <2> QED
    BY <1>6, <2>1
<1>13. CASE Stop \/ UNCHANGED vars
  BY <1>5, <1>13 DEF Stop, vars, work
<1> QED
  BY <1>3, <1>8, <1>9, <1>10, <1>11, <1>12, <1>13 DEF Next, Step

-----------------------------------------------------------------------------
(***************************************************************************)
(* The invariant holds initially, and a step keeps it.  First the types.   *)
(***************************************************************************)

LEMMA FilesInit == Init => FilesIInv
<1> SUFFICES ASSUME Init PROVE FilesIInv
  OBVIOUS
<1>1. TransferIInv
  BY TransferInit
<1>2. disk \in [Area -> [1 .. ExtBlock -> Cell]]
  BY DEF Init, Cell
<1>3. TypeOK
  BY <1>2 DEF Init, TypeOK
<1>4. pc = "idle" /\ goal.phase = "none"
  BY DEF Init, FS!NoGoal
<1> QED
  BY <1>1, <1>3, <1>4 DEF FilesIInv, AllocOK, SaveOK, CopyOK, FillOK, PackOK, Storing

\* What a step has to keep of the types beside those TransferIInv states.
LEMMA TypeStep ==
    ASSUME FilesIInv, TransferIInv', disk' \in [Area -> [1 .. ExtBlock -> Cell]],
           pc' \in {"idle", "alloc", "save", "patch", "copy", "tail", "fill",
                    "pack", "packcopy", "commit"},
           req' \in ReqType \cup {NoReq}, from' \in Nat, idx' \in Nat, ncmd' \in Nat
    PROVE  TypeOK'
  BY DEF TransferIInv, LayoutIInv, TransferInside, TypeOK

\* Where a run ends, nothing else is required.
LEMMA FilesForget ==
    ASSUME FilesIInv, TransferIInv', disk' \in [Area -> [1 .. ExtBlock -> Cell]],
           ncmd' = ncmd, NEW outcome, Forget(outcome), outcome.phase # "busy"
    PROVE  FilesIInv'
<1>1. /\ pc' = "idle" /\ req' = NoReq /\ from' = 0 /\ idx' = 0 /\ goal'.phase # "busy"
  BY DEF Forget
<1>2. TypeOK'
  BY <1>1, TypeStep DEF FilesIInv, TypeOK
<1> QED
  BY <1>1, <1>2 DEF FilesIInv, AllocOK, SaveOK, CopyOK, FillOK, PackOK, Storing

\* A command that only waits to commit its list.
LEMMA FilesCommits ==
    ASSUME FilesIInv, TransferIInv', TypeOK', pc' = "commit", goal'.phase = "busy",
           Fulfils(disk', fb_list', goal'.want, {})
    PROVE  FilesIInv'
<1>1. Unfinished' = {}
  BY DEF Unfinished, Storing
<1> QED
  BY <1>1 DEF FilesIInv, AllocOK, SaveOK, CopyOK, FillOK, PackOK, Storing

\* A command that is to allocate a file.
LEMMA FilesAllocates ==
    ASSUME FilesIInv, TransferIInv', TypeOK', pc' = "alloc", goal'.phase = "busy",
           Fulfils(disk', fb_list', goal'.want,
                   {req'.name} \union {queue'[k].name : k \in 1 .. Len(queue')}),
           QueueWanted', AllocOK'
    PROVE  FilesIInv'
<1>1. Unfinished' = {req'.name} \union {queue'[k].name : k \in 1 .. Len(queue')}
  BY DEF Unfinished
<1> QED
  BY <1>1 DEF FilesIInv, SaveOK, CopyOK, FillOK, PackOK, Storing

-----------------------------------------------------------------------------
(***************************************************************************)
(* What the commands are to commit.                                        *)
(***************************************************************************)

\* Input bytes are none that say where a file lies.
LEMMA InputShown ==
    /\ \A x \in Bytes : Masked(x) = x
    /\ Masked(Filler) = Filler /\ Masked(Term) = Term
    /\ \A s \in Area : Masked(LbaOf(s)) = Lba
  BY ByteAssumption DEF Masked

\* A file of input bytes, saved, is what FileStore puts in its place.
LEMMA SavedPatched ==
    ASSUME NEW name, NEW data \in Seq(Bytes) \ {<<>>}, NEW ext, NEW sys \in BOOLEAN
    PROVE  /\ Saved(SaveReq(name, data, ext, sys)) = FS!Patched(data, sys)
           /\ data \in Seq(Cell) /\ Len(data) \in Nat \ {0}
<1>1. /\ Len(data) \in Nat \ {0} /\ data = [i \in 1 .. Len(data) |-> data[i]]
      /\ \A i \in 1 .. Len(data) : data[i] \in Bytes
  OBVIOUS
<1>2. data \in Seq(Cell)
  BY DEF Cell
<1>3. \A i \in 1 .. Len(data) : Masked(data[i]) = data[i]
  BY <1>1, InputShown
<1>4. Saved(SaveReq(name, data, ext, sys))
        = [i \in 1 .. Len(data) |-> IF sys /\ i = 1 THEN Lba ELSE data[i]]
  BY <1>3 DEF Saved, SaveReq
<1>5. FS!Patched(data, sys) = [i \in 1 .. Len(data) |-> IF sys /\ i = 1 THEN Lba ELSE data[i]]
  <2>1. CASE sys
    BY <1>1, <2>1 DEF FS!Patched
  <2>2. CASE ~sys
    BY <1>1, <2>2 DEF FS!Patched
  <2> QED
    BY <2>1, <2>2
<1> QED
  BY <1>1, <1>2, <1>4, <1>5

\* A command that stores one file leaves the others as they are wanted,
\* whether its item is still in the list or not.
LEMMA PutFulfils ==
    ASSUME NEW d, NEW list \in Seq(ItemType), LayoutOK(list), NEW name, NEW data
    PROVE  /\ Fulfils(d, list, FS!Put(FilesAt(d, list), name, data), {name})
           /\ Fulfils(d, Without(list, name), FS!Put(FilesAt(d, list), name, data), {name})
           /\ FS!Put(FilesAt(d, list), name, data)[name] = data
<1> DEFINE want == FS!Put(FilesAt(d, list), name, data)
<1>1. /\ DOMAIN want = NamesOf(list) \union {name} /\ want = [n \in DOMAIN want |-> want[n]]
      /\ want[name] = data
  BY FilesItems DEF FS!Put
<1>2. ASSUME NEW f \in ItemSet(list), f.name # name PROVE want[f.name] = ContentAt(d, f)
  BY <1>2, FilesItems DEF FS!Put
<1>3. /\ ItemSet(Without(list, name)) = {f \in ItemSet(list) : f.name # name}
      /\ NamesOf(Without(list, name)) = NamesOf(list) \ {name}
  BY WithoutItems
<1> HIDE DEF want
<1>4. NamesOf(Without(list, name)) \union {name} = NamesOf(list) \union {name}
  BY <1>3
<1>5. Fulfils(d, list, want, {name})
  BY <1>1, <1>2 DEF Fulfils
<1>6. Fulfils(d, Without(list, name), want, {name})
  BY <1>1, <1>2, <1>3, <1>4 DEF Fulfils
<1> QED
  BY <1>1, <1>5, <1>6 DEF want

-----------------------------------------------------------------------------
(***************************************************************************)
(* The commands.                                                           *)
(***************************************************************************)

\* What a command finds.
LEMMA CommandFinds ==
    ASSUME FilesIInv, NEW next, NEW list, Begin(next, list)
    PROVE  /\ queue = <<>> /\ Store = FilesAt(disk, dlist)
           /\ dlist \in Seq(ItemType) /\ LayoutOK(dlist)
           /\ disk' = disk /\ disk \in [Area -> [1 .. ExtBlock -> Cell]]
           /\ fb_list' = list /\ pc' = next
           /\ ncmd' \in Nat /\ from \in Nat /\ idx \in Nat /\ req \in ReqType \cup {NoReq}
<1>1. pc = "idle" /\ disk' = disk /\ fb_list' = list /\ pc' = next /\ ncmd' = ncmd + 1
  BY DEF Begin
<1>2. TypeOK /\ TransferIInv
  BY DEF FilesIInv
<1>3. queue = <<>> /\ dlist \in Seq(ItemType) /\ LayoutOK(dlist)
  BY <1>1, <1>2 DEF TransferIInv, LayoutIInv, LayoutInv
<1> QED
  BY <1>1, <1>2, <1>3, StoreFiles DEF TypeOK

\* A command that changes nothing but the list in memory.
LEMMA CommitCommand ==
    ASSUME FilesIInv, TransferIInv', NEW list, Begin("commit", list), NoTransfer,
           UNCHANGED req, NEW writes, NEW want, goal' = FS!Goal(writes, want),
           Fulfils(disk, list, want, {})
    PROVE  FilesIInv'
<1>1. /\ disk' = disk /\ disk \in [Area -> [1 .. ExtBlock -> Cell]]
      /\ fb_list' = list /\ pc' = "commit"
      /\ ncmd' \in Nat /\ from \in Nat /\ idx \in Nat /\ req \in ReqType \cup {NoReq}
  BY CommandFinds
<1>2. TypeOK'
  BY <1>1, TypeStep DEF NoTransfer
<1>3. goal'.phase = "busy" /\ goal'.want = want
  BY DEF FS!Goal
<1> QED
  BY <1>1, <1>2, <1>3, FilesCommits

\* A command that is to store a file: it saves data, or copies an old file.
LEMMA AllocCommand ==
    ASSUME FilesIInv, TransferIInv', NEW list, Begin("alloc", list), NoTransfer,
           UNCHANGED queue, req' \in ReqType, NEW writes, NEW content,
           goal' = FS!Goal(writes, FS!Put(Store, req'.name, content)),
           list = dlist \/ list = Without(dlist, req'.name),
           \/ req'.kind = "save" /\ Len(req'.data) = req'.size /\ content = Saved(req')
           \/ /\ CopyWanted(req', content) /\ OldAlone(req', list)
              /\ Halfway(disk, content, req'.oldSize, 0, req'.oldStart, 0)
    PROVE  FilesIInv'
<1>1. /\ queue = <<>> /\ Store = FilesAt(disk, dlist)
      /\ dlist \in Seq(ItemType) /\ LayoutOK(dlist)
      /\ disk' = disk /\ disk \in [Area -> [1 .. ExtBlock -> Cell]]
      /\ fb_list' = list /\ pc' = "alloc"
      /\ ncmd' \in Nat /\ from \in Nat /\ idx \in Nat
  BY CommandFinds
<1>2. TypeOK'
  BY <1>1, TypeStep DEF NoTransfer
<1>3. /\ goal'.phase = "busy" /\ goal'.want = FS!Put(FilesAt(disk, dlist), req'.name, content)
  BY <1>1 DEF FS!Goal
<1>4. /\ Fulfils(disk, list, goal'.want, {req'.name}) /\ goal'.want[req'.name] = content
  <2> DEFINE n == req'.name
  <2> HIDE DEF n
  <2>1. PICK want : want = FS!Put(FilesAt(disk, dlist), n, content)
    OBVIOUS
  <2>2. /\ Fulfils(disk, dlist, want, {n}) /\ Fulfils(disk, Without(dlist, n), want, {n})
        /\ want[n] = content
    BY <1>1, <2>1, PutFulfils
  <2>3. goal'.want = want /\ (list = dlist \/ list = Without(dlist, n))
    BY <1>3, <2>1 DEF n
  <2>4. Fulfils(disk, list, want, {n})
    BY <2>2, <2>3
  <2> QED
    BY <2>2, <2>3, <2>4 DEF n
<1>5. queue' = <<>> /\ Len(queue') = 0
  BY <1>1
<1>6. {req'.name} \union {queue'[k].name : k \in 1 .. Len(queue')} = {req'.name}
  BY <1>5
<1>7. QueueWanted'
  <2>1. req'.kind = "save" => Len(req'.data) = req'.size /\ content = Saved(req')
    BY DEF CopyWanted
  <2> QED
    BY <1>4, <1>5, <2>1 DEF QueueWanted, Saved, Masked
<1>8. AllocOK'
  <2>1. req'.kind = "cpy" =>
           /\ CopyWanted(req', content) /\ OldAlone(req', list)
           /\ Halfway(disk, content, req'.oldSize, 0, req'.oldStart, 0)
    OBVIOUS
  <2> QED
    BY <1>1, <1>4, <1>5, <2>1 DEF AllocOK
<1> QED
  BY <1>1, <1>2, <1>3, <1>4, <1>6, <1>7, <1>8, FilesAllocates

LEMMA FilesAdd ==
    ASSUME FilesIInv, TransferIInv', NEW name \in Names, NEW data \in Datas, NEW ext \in BOOLEAN,
           NEW sys \in BOOLEAN, NEW stdin \in BOOLEAN, AddFile(name, data, ext, sys, stdin)
    PROVE  FilesIInv'
<1> DEFINE wide == ~stdin /\ (ext \/ sys)
<1>1. data \in Seq(Bytes) \ {<<>>} /\ wide \in BOOLEAN
  BY StoreAssumption
<1>2. /\ Begin("alloc", dlist) /\ NoTransfer /\ UNCHANGED queue
      /\ req' = SaveReq(name, data, wide, sys)
      /\ goal' = FS!Goal({name}, FS!Put(Store, name, FS!Patched(data, sys)))
  BY DEF AddFile
<1> HIDE DEF wide
<1>3. Saved(req') = FS!Patched(data, sys) /\ data \in Seq(Cell) /\ Len(data) \in Nat \ {0}
  BY <1>1, <1>2, SavedPatched
<1>4. /\ req' \in ReqType /\ req'.kind = "save" /\ req'.name = name
      /\ Len(req'.data) = req'.size
  BY <1>1, <1>2, <1>3 DEF SaveReq, ReqType
<1> QED
  BY <1>2, <1>3, <1>4, AllocCommand

\* The bytes of a sequence, as they are shown.
ShownBytes(s) == [i \in 1 .. Len(s) |-> Masked(s[i])]

\* The bytes of a committed file.
LEMMA FileBytes ==
    ASSUME TypeOK, LayoutOK(dlist), NEW f \in ItemSet(dlist)
    PROVE  /\ f \in ItemType /\ Content(f) \in Seq(Cell) /\ Len(Content(f)) = f.size
           /\ \A i \in 1 .. f.size : ContentAt(disk, f)[i] = Masked(Content(f)[i])
           /\ ContentAt(disk, f) \in Seq({Masked(x) : x \in Cell})
           /\ Len(ContentAt(disk, f)) = f.size
           /\ ContentAt(disk, f) = ShownBytes(Content(f))
<1>1. dlist \in Seq(ItemType)
  BY DEF TypeOK
<1>2. f \in ItemType /\ Extent(f) \subseteq Area
  BY <1>1, ListItems, ItemInside
<1>3. f.size \in Nat \ {0} /\ BlockOf(f.start) \in Nat \ {0} /\ BlockOf(f.start) =< ExtBlock
  BY <1>2, ItemExtent, BlockAssumption DEF BlockOf
<1>4. ASSUME NEW i \in 1 .. f.size PROVE ByteAt(disk, f.start, i) \in Cell
  <2> DEFINE s == f.start + BlockIn(f.start, i)
             k == ((i - 1) % BlockOf(f.start)) + 1
  <2>1. s \in Area
    BY <1>2, ByteSector
  <2>2. k \in 1 .. ExtBlock
    <3>1. (i - 1) % BlockOf(f.start) \in 0 .. BlockOf(f.start) - 1
      BY <1>3, ByteBlock
    <3> QED
      BY <1>3, <3>1, BlockAssumption
  <2>3. disk[s][k] \in Cell
    BY <2>1, <2>2 DEF TypeOK
  <2> QED
    BY <2>3 DEF ByteAt, BlockIn
<1>5. Content(f) = [i \in 1 .. f.size |-> ByteAt(disk, f.start, i)]
  BY DEF Content, ByteOf, ByteAt
<1>6. Content(f) \in Seq(Cell) /\ Len(Content(f)) = f.size
  BY <1>3, <1>4, <1>5
<1>7. \A i \in 1 .. f.size : ContentAt(disk, f)[i] = Masked(Content(f)[i])
  BY <1>5 DEF ContentAt
<1>8. \A i \in 1 .. f.size : Masked(Content(f)[i]) \in {Masked(x) : x \in Cell}
  BY <1>4, <1>5
<1>9. /\ ContentAt(disk, f) \in Seq({Masked(x) : x \in Cell})
      /\ Len(ContentAt(disk, f)) = f.size
  <2> DEFINE c == ContentAt(disk, f)
             M == {Masked(x) : x \in Cell}
  <2>1. c = [i \in 1 .. f.size |-> c[i]] /\ \A i \in 1 .. f.size : c[i] \in M
    BY <1>7, <1>8 DEF ContentAt
  <2> HIDE DEF c, M
  <2>2. c \in Seq(M) /\ Len(c) = f.size
    BY <1>3, <2>1
  <2> QED
    BY <2>2 DEF c, M
<1>10. ContentAt(disk, f) = ShownBytes(Content(f))
  BY <1>6, <1>7 DEF ContentAt, ShownBytes
<1> QED
  BY <1>2, <1>6, <1>7, <1>9, <1>10

\* An element after two sequences.
LEMMA AppendConcat ==
    ASSUME NEW s \in Seq(Cell), NEW t \in Seq(Cell), NEW e \in Cell
    PROVE  Append(s \o t, e) = s \o Append(t, e)
<1>1. /\ s \o t \in Seq(Cell) /\ <<e>> \in Seq(Cell) /\ Append(t, e) = t \o <<e>>
  BY ConcatProperties, AppendIsConcat
<1>2. Append(s \o t, e) = (s \o t) \o <<e>>
  BY <1>1, AppendIsConcat
<1>3. (s \o t) \o <<e>> = s \o (t \o <<e>>)
  BY <1>1, ConcatAssociative
<1> QED
  BY <1>1, <1>2, <1>3

\* Two sequences are shown as they are shown one after the other.
LEMMA ShownConcat ==
    ASSUME NEW s \in Seq(Cell), NEW t \in Seq(Cell)
    PROVE  ShownBytes(s \o t) = ShownBytes(s) \o ShownBytes(t)
<1>a. PICK u : u = ShownBytes(s)
  OBVIOUS
<1>b. PICK v : v = ShownBytes(t)
  OBVIOUS
<1>1. PICK D : D = {Masked(x) : x \in Cell}
  OBVIOUS
<1>2. PICK n \in Nat : Len(s) = n
  OBVIOUS
<1>3. PICK m \in Nat : Len(t) = m
  OBVIOUS
<1>4. u \in Seq(D) /\ Len(u) = n /\ \A i \in 1 .. n : u[i] = Masked(s[i])
  BY <1>1, <1>2, <1>a DEF ShownBytes
<1>5. v \in Seq(D) /\ Len(v) = m /\ \A i \in 1 .. m : v[i] = Masked(t[i])
  BY <1>1, <1>3, <1>b DEF ShownBytes
<1>6. /\ s \o t \in Seq(Cell) /\ Len(s \o t) = n + m
      /\ \A i \in 1 .. n : (s \o t)[i] = s[i]
      /\ \A i \in n + 1 .. n + m : (s \o t)[i] = t[i - n]
  <2>1. /\ s \o t \in Seq(Cell) /\ Len(s \o t) = Len(s) + Len(t)
        /\ \A i \in 1 .. Len(s) + Len(t) :
              (s \o t)[i] = IF i <= Len(s) THEN s[i] ELSE t[i - Len(s)]
    BY ConcatProperties
  <2> QED
    BY <1>2, <1>3, <2>1
<1>7. /\ u \o v \in Seq(D) /\ Len(u \o v) = n + m
      /\ \A i \in 1 .. n : (u \o v)[i] = u[i]
      /\ \A i \in n + 1 .. n + m : (u \o v)[i] = v[i - n]
  <2>1. /\ u \o v \in Seq(D) /\ Len(u \o v) = Len(u) + Len(v)
        /\ \A i \in 1 .. Len(u) + Len(v) :
              (u \o v)[i] = IF i <= Len(u) THEN u[i] ELSE v[i - Len(u)]
    BY <1>4, <1>5, ConcatProperties
  <2> QED
    BY <1>4, <1>5, <2>1
<1>8. PICK one : one = s \o t
  OBVIOUS
<1>9. PICK two : two = u \o v
  OBVIOUS
<1>10. ASSUME NEW i \in 1 .. n + m PROVE Masked(one[i]) = two[i]
  <2>1. CASE i =< n
    BY <1>4, <1>6, <1>7, <1>8, <1>9, <2>1
  <2>2. CASE i > n
    <3>1. i \in n + 1 .. n + m /\ i - n \in 1 .. m
      BY <2>2
    <3> QED
      BY <1>5, <1>6, <1>7, <1>8, <1>9, <3>1
  <2> QED
    BY <2>1, <2>2
<1>11. two \in Seq(D) /\ Len(two) = n + m /\ Len(one) = n + m
  BY <1>6, <1>7, <1>8, <1>9
<1>12. two = [i \in 1 .. n + m |-> two[i]]
  BY <1>11
<1>13. ShownBytes(one) = two
  BY <1>10, <1>11, <1>12 DEF ShownBytes
<1> QED
  BY <1>8, <1>9, <1>13, <1>a, <1>b

\* A menu file that keeps its items is the old one without its terminator, and
\* the new ones.
LEMMA MenuSaved ==
    ASSUME NEW old \in Seq(Cell) \ {<<>>}, NEW items \in Seq(Bytes), NEW name
    PROVE  Saved(SaveReq(name, Append(Front(old) \o items, Term), FALSE, FALSE))
             = Front(ShownBytes(old)) \o Append(items, Term)
<1>a. PICK shown : shown = ShownBytes(old)
  OBVIOUS
<1>0. items \in Seq(Cell) /\ Term \in Cell
  BY DEF Cell
<1>1. PICK front \in Seq(Cell) : front = Front(old)
  <2>1. Front(old) \in Seq(Cell)
    BY DEF Front
  <2> QED
    BY <2>1
<1>2. PICK back \in Seq(Cell) : back = Append(items, Term)
  <2>1. Append(items, Term) \in Seq(Cell)
    BY <1>0
  <2> QED
    BY <2>1
<1>3. ShownBytes(front) = Front(shown)
  <2>1. PICK n \in Nat : Len(old) = n + 1
    <3>1. Len(old) - 1 \in Nat /\ Len(old) = (Len(old) - 1) + 1
      OBVIOUS
    <3> QED
      BY <3>1
  <2>2. Len(front) = n /\ \A i \in 1 .. n : front[i] = old[i]
    BY <1>1, <2>1 DEF Front
  <2>3. PICK D : D = {Masked(x) : x \in Cell}
    OBVIOUS
  <2>4. shown \in Seq(D) /\ Len(shown) = n + 1 /\ \A i \in 1 .. n + 1 : shown[i] = Masked(old[i])
    BY <1>a, <2>1, <2>3 DEF ShownBytes
  <2>5. Front(shown) = [i \in 1 .. n |-> shown[i]]
    BY <2>4 DEF Front
  <2>6. \A i \in 1 .. n : Masked(front[i]) = shown[i]
    BY <2>2, <2>4
  <2>7. ShownBytes(front) = [i \in 1 .. n |-> Masked(front[i])]
    BY <2>2 DEF ShownBytes
  <2> QED
    BY <2>5, <2>6, <2>7
<1>4. ShownBytes(back) = back
  <2>1. back \in Seq(Bytes \union {Term})
    <3>1. items \in Seq(Bytes \union {Term})
      OBVIOUS
    <3>2. Append(items, Term) \in Seq(Bytes \union {Term})
      BY <3>1
    <3> QED
      BY <1>2, <3>2
  <2>2. /\ back = [i \in 1 .. Len(back) |-> back[i]]
        /\ \A i \in 1 .. Len(back) : back[i] \in Bytes \union {Term}
    BY <2>1
  <2>3. \A i \in 1 .. Len(back) : Masked(back[i]) = back[i]
    BY <2>2, InputShown
  <2> QED
    BY <2>2, <2>3 DEF ShownBytes
<1>5. Append(Front(old) \o items, Term) = front \o back
  <2>1. Append(front \o items, Term) = front \o Append(items, Term)
    BY <1>0, <1>1, AppendConcat
  <2> QED
    BY <1>1, <1>2, <2>1
<1>6. ShownBytes(front \o back) = Front(shown) \o back
  BY <1>3, <1>4, ShownConcat
<1>7. \A data : Saved(SaveReq(name, data, FALSE, FALSE)) = ShownBytes(data)
  BY DEF Saved, SaveReq, ShownBytes
<1> QED
  BY <1>a, <1>2, <1>5, <1>6, <1>7

LEMMA FilesMenu ==
    ASSUME FilesIInv, TransferIInv', NEW name \in Names, NEW items \in Datas,
           NEW append \in BOOLEAN, AddMenu(name, items, append)
    PROVE  FilesIInv'
<1>1. PICK data : /\ data = Append(IF append /\ name \in NamesOf(dlist)
                                    THEN Front(Content(Item(dlist, name))) \o items
                                    ELSE items, Term)
                  /\ Begin("alloc", dlist) /\ NoTransfer /\ UNCHANGED queue
                  /\ req' = SaveReq(name, data, FALSE, FALSE)
                  /\ goal' = FS!Goal({name}, IF append
                                             THEN FS!Appended(Store, name, Append(items, Term))
                                             ELSE FS!Put(Store, name, data))
  BY DEF AddMenu
<1>2. /\ Store = FilesAt(disk, dlist) /\ dlist \in Seq(ItemType) /\ LayoutOK(dlist)
  BY <1>1, CommandFinds
<1>3. items \in Seq(Bytes) /\ items \in Seq(Cell) /\ Term \in Cell
  <2>1. items \in Seq(Bytes)
    BY StoreAssumption
  <2> QED
    BY <2>1 DEF Cell
<1>4. PICK old \in BOOLEAN : old <=> append /\ name \in NamesOf(dlist)
  OBVIOUS
<1>5. CASE ~old
  <2>1. data = Append(items, Term)
    BY <1>1, <1>4, <1>5
  <2>2. data \in Seq(Cell) /\ Len(data) \in Nat \ {0} /\ data \in Seq(Bytes \union {Term})
    <3>1. items \in Seq(Bytes \union {Term})
      BY <1>3
    <3>2. /\ Append(items, Term) \in Seq(Cell) /\ Len(Append(items, Term)) \in Nat \ {0}
          /\ Append(items, Term) \in Seq(Bytes \union {Term})
      BY <1>3, <3>1
    <3> QED
      BY <2>1, <3>2
  <2>3. Saved(req') = data
    <3>1. data = [i \in 1 .. Len(data) |-> data[i]]
          /\ \A i \in 1 .. Len(data) : data[i] \in Bytes \union {Term}
      BY <2>2
    <3>2. \A i \in 1 .. Len(data) : Masked(data[i]) = data[i]
      BY <3>1, InputShown
    <3> QED
      BY <1>1, <3>1, <3>2 DEF Saved, SaveReq
  <2>4. goal' = FS!Goal({name}, FS!Put(Store, name, data))
    <3>1. DOMAIN Store = NamesOf(dlist)
      BY <1>2, FilesItems
    <3>2. append => FS!Appended(Store, name, Append(items, Term)) = FS!Put(Store, name, data)
      BY <1>4, <1>5, <2>1, <3>1 DEF FS!Appended
    <3> QED
      BY <1>1, <3>2
  <2>5. req' \in ReqType /\ req'.kind = "save" /\ req'.name = name /\ Len(req'.data) = req'.size
    BY <1>1, <2>2 DEF SaveReq, ReqType
  <2> QED
    BY <1>1, <2>3, <2>4, <2>5, AllocCommand
<1>6. CASE old
  <2>1. PICK f \in ItemSet(dlist) : f = Item(dlist, name) /\ f.name = name
    BY <1>2, <1>4, <1>6, ItemOfName
  <2>2. /\ Content(f) \in Seq(Cell) /\ Len(Content(f)) = f.size /\ f.size \in Nat \ {0}
        /\ ContentAt(disk, f) = ShownBytes(Content(f))
    BY <1>2, FileBytes, ItemExtent DEF FilesIInv
  <2>3. PICK was \in Seq(Cell) : was = Content(f)
    BY <2>2
  <2>4. was # <<>>
    BY <2>2, <2>3
  <2>5. data = Append(Front(was) \o items, Term)
    BY <1>1, <1>4, <1>6, <2>1, <2>3
  <2>6. Store[name] = ShownBytes(was) /\ name \in DOMAIN Store
    BY <1>2, <2>1, <2>2, <2>3, FilesItems
  <2>7. Saved(req') = Front(ShownBytes(was)) \o Append(items, Term)
    <3>1. Saved(SaveReq(name, Append(Front(was) \o items, Term), FALSE, FALSE))
            = Front(ShownBytes(was)) \o Append(items, Term)
      BY <1>3, <2>4, MenuSaved
    <3> QED
      BY <1>1, <2>5, <3>1
  <2>8. goal' = FS!Goal({name}, FS!Put(Store, name, Saved(req')))
    <3>1. PICK new : new = Append(items, Term)
      OBVIOUS
    <3>2. FS!Appended(Store, name, new) = FS!Put(Store, name, Front(Store[name]) \o new)
      BY <2>6 DEF FS!Appended, FS!Front, Front
    <3>3. FS!Appended(Store, name, new) = FS!Put(Store, name, Saved(req'))
      BY <2>6, <2>7, <3>1, <3>2
    <3> QED
      BY <1>1, <1>4, <1>6, <3>1, <3>3
  <2>9. data \in Seq(Cell) /\ Len(data) \in Nat \ {0}
    <3>1. Front(was) \in Seq(Cell)
      BY <2>4 DEF Front
    <3>2. Front(was) \o items \in Seq(Cell)
      BY <1>3, <3>1, ConcatProperties
    <3>3. PICK most \in Seq(Cell) : most = Front(was) \o items
      BY <3>2
    <3>4. Append(most, Term) \in Seq(Cell) /\ Len(Append(most, Term)) = Len(most) + 1
      BY <1>3, AppendProperties
    <3> QED
      BY <2>5, <3>3, <3>4
  <2>10. req' \in ReqType /\ req'.kind = "save" /\ req'.name = name /\ Len(req'.data) = req'.size
    BY <1>1, <2>9 DEF SaveReq, ReqType
  <2> QED
    BY <1>1, <2>8, <2>10, AllocCommand
<1> QED
  BY <1>5, <1>6

\* What cpy_file is asked to copy.
LEMMA CpyReqType ==
    ASSUME NEW r, NEW name \in Names, NEW size \in Nat \ {0}, NEW start \in Nat, NEW oldSize \in Nat,
           r.ext \in BOOLEAN,
           r = [kind |-> "cpy", name |-> name, data |-> <<>>, size |-> size, ext |-> r.ext,
                sys |-> FALSE, oldStart |-> start, oldSize |-> oldSize]
    PROVE  r \in ReqType
<1>1. PICK none \in Seq(Cell) : none = <<>>
  <2>1. <<>> \in Seq(Cell)
    OBVIOUS
  <2> QED
    BY <2>1
<1>2. PICK wide \in BOOLEAN : wide = r.ext
  OBVIOUS
<1>3. r = [kind |-> "cpy", name |-> name, data |-> none, size |-> size, ext |-> wide,
           sys |-> FALSE, oldStart |-> start, oldSize |-> oldSize]
  BY <1>1, <1>2
<1> QED
  BY <1>3 DEF ReqType

\* A request to copy f into a file of the given name and size, and the content
\* that file is to have.
AsksCopy(r, name, size, f) ==
    /\ r.kind = "cpy" /\ r.name = name /\ r.size = size
    /\ r.oldStart = f.start /\ r.oldSize = f.size
    /\ r.ext <=> ~InPrimary(f.start)

FilledUp(content, old, oldSize, size) ==
    /\ content = [i \in 1 .. size |-> content[i]]
    /\ \A i \in 1 .. size : content[i] = IF i =< oldSize THEN old[i] ELSE Filler

\* A copy of a committed file into a new one of at least its size: the new file
\* is the old one, filled up.
LEMMA CopySource ==
    ASSUME FilesIInv, LayoutOK(dlist), NEW f \in ItemSet(dlist), NEW name \in Names, NEW size \in Nat,
           f.size =< size, NEW content, NEW r,
           AsksCopy(r, name, size, f), FilledUp(content, ContentAt(disk, f), f.size, size)
    PROVE  /\ CopyWanted(r, content) /\ OldAlone(r, Without(dlist, name))
           /\ Halfway(disk, content, r.oldSize, 0, r.oldStart, 0)
<1>1. dlist \in Seq(ItemType)
  BY DEF FilesIInv, TypeOK
<1>2. /\ f \in ItemType /\ DataBegin =< f.start /\ FileEnd(f) =< TotalSize
      /\ InPrimary(f.start) => FileEnd(f) =< PriSize
  BY <1>1, ListItems, ItemInside
<1>3. f.start \in Nat /\ f.size \in Nat \ {0} /\ BlockOf(f.start) \in Nat \ {0}
  BY <1>2, ItemExtent
<1>4. /\ r.kind = "cpy" /\ r.name = name /\ r.size = size /\ r.oldStart = f.start
      /\ r.oldSize = f.size
      /\ r.ext <=> ~InPrimary(f.start)
  BY DEF AsksCopy
<1>5. /\ content = [i \in 1 .. size |-> content[i]]
      /\ \A i \in 1 .. size :
            content[i] = IF i =< f.size THEN ContentAt(disk, f)[i] ELSE Filler
  BY DEF FilledUp
<1>6. OldEnd(r) = FileEnd(f)
  BY <1>4 DEF OldEnd, FileEnd, Blocks
<1>7. CopyWanted(r, content)
  <2>1. OldInside(r)
    BY <1>2, <1>4, <1>6 DEF OldInside, InPrimary
  <2>2. \A i \in f.size + 1 .. size : content[i] = Filler
    BY <1>3, <1>5
  <2> QED
    BY <1>3, <1>4, <1>5, <2>1, <2>2 DEF CopyWanted
<1>8. OldAlone(r, Without(dlist, name))
  <2>1. ASSUME NEW g \in ItemSet(Without(dlist, name))
        PROVE  \/ FileEnd(g) =< f.start \/ FileEnd(f) =< g.start
               \/ g.name # name /\ g.start = f.start /\ g.size = f.size
    <3>1. g \in ItemSet(dlist) /\ g.name # name
      BY <1>1, WithoutItems
    <3> QED
      BY <1>1, <3>1, ItemsApart
  <2> QED
    BY <1>4, <1>6, <2>1 DEF OldAlone
<1>9. ASSUME NEW i \in 1 .. f.size
      PROVE  content[i] = Masked(ByteAt(disk, IF BlockIn(f.start, i) < 0 THEN 0 ELSE f.start, i))
  <2>1. BlockIn(f.start, i) \in Nat
    BY <1>2, ByteSector
  <2>2. content[i] = ContentAt(disk, f)[i]
    BY <1>3, <1>5
  <2>3. ~(BlockIn(f.start, i) < 0)
    BY <2>1
  <2> QED
    BY <2>2, <2>3 DEF ContentAt
<1> QED
  BY <1>4, <1>7, <1>8, <1>9 DEF Halfway

LEMMA FilesCopy ==
    ASSUME FilesIInv, TransferIInv', NEW old \in Names, NEW new \in Names, CopyFile(old, new)
    PROVE  FilesIInv'
<1>1. /\ old \in NamesOf(dlist) /\ old # new
      /\ Begin("alloc", Without(dlist, new)) /\ NoTransfer /\ UNCHANGED queue
      /\ goal' = FS!Goal({new}, FS!Put(Store, new, Store[old]))
  BY DEF CopyFile
<1>2. Store = FilesAt(disk, dlist) /\ dlist \in Seq(ItemType) /\ LayoutOK(dlist)
  BY <1>1, CommandFinds
<1>3. PICK f \in ItemSet(dlist) : f = Item(dlist, old) /\ f.name = old
  BY <1>1, <1>2, ItemOfName
<1>4. PICK r : /\ r = req' /\ r.name = new /\ AsksCopy(r, new, f.size, f)
               /\ r.ext \in BOOLEAN
               /\ r = [kind |-> "cpy", name |-> new, data |-> <<>>, size |-> f.size, ext |-> r.ext,
                       sys |-> FALSE, oldStart |-> f.start, oldSize |-> f.size]
  <2>1. PICK r : r = req'
    OBVIOUS
  <2>2. r = CpyReq(new, f.size, ~InPrimary(f.start), f.start, f.size)
    BY <1>3, <2>1 DEF CopyFile
  <2>3. /\ r.kind = "cpy" /\ r.name = new /\ r.size = f.size
        /\ r.oldStart = f.start /\ r.oldSize = f.size
    BY <2>2 DEF CpyReq
  <2>4. (r.ext <=> ~InPrimary(f.start)) /\ r.ext \in BOOLEAN
    BY <2>2 DEF CpyReq
  <2>5. r = [kind |-> "cpy", name |-> new, data |-> <<>>, size |-> f.size, ext |-> r.ext,
             sys |-> FALSE, oldStart |-> f.start, oldSize |-> f.size]
    BY <2>2 DEF CpyReq
  <2> QED
    BY <2>1, <2>3, <2>4, <2>5 DEF AsksCopy
<1>5. Store[old] = ContentAt(disk, f)
  BY <1>2, <1>3, FilesItems
<1>6. f \in ItemType /\ f.size \in Nat \ {0} /\ f.start \in Nat
  BY <1>2, <1>3, ListItems, ItemExtent
<1>7. PICK content : content = ContentAt(disk, f)
  OBVIOUS
<1>8. /\ content = [i \in 1 .. f.size |-> content[i]]
      /\ \A i \in 1 .. f.size : content[i] = IF i =< f.size THEN ContentAt(disk, f)[i] ELSE Filler
  BY <1>7 DEF ContentAt
<1>11. FilledUp(content, ContentAt(disk, f), f.size, f.size)
  BY <1>8 DEF FilledUp
<1>9. r \in ReqType
  BY <1>4, <1>6, CpyReqType
<1>10. /\ CopyWanted(r, content) /\ OldAlone(r, Without(dlist, new))
       /\ Halfway(disk, content, r.oldSize, 0, r.oldStart, 0)
  <2>1. f.size =< f.size /\ f.size \in Nat
    BY <1>6
  <2> QED
    BY <1>2, <1>4, <1>11, <2>1, CopySource
<1> QED
  BY <1>1, <1>4, <1>5, <1>7, <1>9, <1>10, AllocCommand

LEMMA FilesGrow ==
    ASSUME FilesIInv, TransferIInv', NEW name \in Names, NEW size \in Sizes, NEW ext \in BOOLEAN,
           Grow(name, size, ext)
    PROVE  FilesIInv'
<1>1. /\ name \in NamesOf(dlist) => Item(dlist, name).size < size
      /\ Begin("alloc", Without(dlist, name)) /\ NoTransfer /\ UNCHANGED queue
      /\ goal' = FS!Goal({name}, FS!Resized(Store, name, size))
      /\ size \in Nat \ {0}
  BY StoreAssumption DEF Grow
<1>2. Store = FilesAt(disk, dlist) /\ dlist \in Seq(ItemType) /\ LayoutOK(dlist)
  BY <1>1, CommandFinds
<1>3. DOMAIN Store = NamesOf(dlist)
  BY <1>2, FilesItems
<1>4. CASE name \notin NamesOf(dlist)
  <2>1. req' = CpyReq(name, size, ext, 0, 0)
    BY <1>4 DEF Grow
  <2>2. PICK content : content = [i \in 1 .. size |-> Filler]
    OBVIOUS
  <2>3. FS!Resized(Store, name, size) = FS!Put(Store, name, content)
    <3>1. <<>> \o [i \in 1 .. size - 0 |-> Filler] = [i \in 1 .. size |-> Filler]
      BY <1>1
    <3>2. Len(<<>>) = 0 /\ ~(size =< 0)
      BY <1>1
    <3> QED
      BY <1>3, <1>4, <2>2, <3>1, <3>2 DEF FS!Resized, FS!Padding
  <2>4. req' \in ReqType /\ req'.name = name
    <3>1. /\ req'.ext \in BOOLEAN /\ req'.name = name
          /\ req' = [kind |-> "cpy", name |-> name, data |-> <<>>, size |-> size, ext |-> req'.ext,
                     sys |-> FALSE, oldStart |-> 0, oldSize |-> 0]
      BY <2>1 DEF CpyReq
    <3> QED
      BY <1>1, <3>1, CpyReqType
  <2>5. /\ CopyWanted(req', content) /\ OldAlone(req', Without(dlist, name))
        /\ Halfway(disk, content, req'.oldSize, 0, req'.oldStart, 0)
    <3>1. /\ req'.kind = "cpy" /\ req'.size = size /\ req'.oldStart = 0 /\ req'.oldSize = 0
      BY <2>1 DEF CpyReq
    <3>2. OldInside(req') /\ OldAlone(req', Without(dlist, name))
      BY <3>1 DEF OldInside, OldAlone
    <3> QED
      BY <2>2, <3>1, <3>2 DEF CopyWanted, Halfway
  <2> QED
    BY <1>1, <2>3, <2>4, <2>5, AllocCommand
<1>5. CASE name \in NamesOf(dlist)
  <2>1. PICK f \in ItemSet(dlist) : f = Item(dlist, name) /\ f.name = name
    BY <1>2, <1>5, ItemOfName
  <2>2. PICK r : /\ r = req' /\ r.name = name /\ AsksCopy(r, name, size, f)
                 /\ r.ext \in BOOLEAN
                 /\ r = [kind |-> "cpy", name |-> name, data |-> <<>>, size |-> size, ext |-> r.ext,
                         sys |-> FALSE, oldStart |-> f.start, oldSize |-> f.size]
                 /\ f.size < size
    <3>1. PICK r : r = req'
      OBVIOUS
    <3>2. r = CpyReq(name, size, ~InPrimary(f.start), f.start, f.size)
      BY <1>5, <2>1, <3>1 DEF Grow
    <3>3. /\ r.kind = "cpy" /\ r.name = name /\ r.size = size
          /\ r.oldStart = f.start /\ r.oldSize = f.size
      BY <3>2 DEF CpyReq
    <3>4. (r.ext <=> ~InPrimary(f.start)) /\ r.ext \in BOOLEAN
      BY <3>2 DEF CpyReq
    <3>5. r = [kind |-> "cpy", name |-> name, data |-> <<>>, size |-> size, ext |-> r.ext,
               sys |-> FALSE, oldStart |-> f.start, oldSize |-> f.size]
      BY <3>2 DEF CpyReq
    <3> QED
      BY <1>1, <1>5, <2>1, <3>1, <3>3, <3>4, <3>5 DEF AsksCopy
  <2>3. PICK was : was = ContentAt(disk, f)
    OBVIOUS
  <2>4. PICK D : was \in Seq(D) /\ Len(was) = f.size /\ f.size \in Nat
    BY <1>2, <2>3, FileBytes, ItemExtent DEF FilesIInv
  <2>5. PICK content : content = was \o [i \in 1 .. size - f.size |-> Filler]
    OBVIOUS
  <2>6. FS!Resized(Store, name, size) = FS!Put(Store, name, content)
    <3>1. Store[name] = was
      BY <1>2, <2>1, <2>3, FilesItems
    <3>2. ~(size =< Len(was))
      BY <1>1, <2>2, <2>4
    <3> QED
      BY <1>3, <1>5, <2>4, <2>5, <3>1, <3>2 DEF FS!Resized, FS!Padding
  <2>7. /\ content = [i \in 1 .. size |-> content[i]]
        /\ \A i \in 1 .. size : content[i] = IF i =< f.size THEN was[i] ELSE Filler
    <3>1. PICK pad : pad = [i \in 1 .. size - f.size |-> Filler]
      OBVIOUS
    <3>2. /\ pad \in Seq({Filler}) /\ Len(pad) = size - f.size
          /\ \A i \in 1 .. size - f.size : pad[i] = Filler
      <4>1. PICK n \in Nat : n = size - f.size
        BY <1>1, <2>2, <2>4
      <4>2. pad = [i \in 1 .. n |-> Filler]
        BY <3>1, <4>1
      <4> QED
        BY <4>1, <4>2
    <3>3. PICK E : E = D \union {Filler}
      OBVIOUS
    <3>4. was \in Seq(E) /\ pad \in Seq(E)
      BY <2>4, <3>2, <3>3
    <3>5. /\ was \o pad \in Seq(E) /\ Len(was \o pad) = Len(was) + Len(pad)
          /\ \A i \in 1 .. Len(was) + Len(pad) :
                (was \o pad)[i] = IF i <= Len(was) THEN was[i] ELSE pad[i - Len(was)]
      BY <3>4, ConcatProperties
    <3>6. /\ content \in Seq(E) /\ Len(content) = size
          /\ \A i \in 1 .. size : content[i] = IF i =< f.size THEN was[i] ELSE pad[i - f.size]
      <4>1. Len(was) = f.size /\ Len(was) + Len(pad) = size /\ content = was \o pad
        BY <1>1, <2>2, <2>4, <2>5, <3>1, <3>2
      <4> QED
        BY <3>5, <4>1
    <3>7. \A i \in 1 .. size : ~(i =< f.size) => i - f.size \in 1 .. size - f.size
      BY <1>1, <2>4
    <3> QED
      BY <1>1, <3>2, <3>6, <3>7
  <2>8. r \in ReqType
    <3>1. f.start \in Nat
      BY <1>2, ListItems, ItemExtent
    <3> QED
      BY <1>1, <2>2, <2>4, <3>1, CpyReqType
  <2>9. /\ CopyWanted(r, content) /\ OldAlone(r, Without(dlist, name))
        /\ Halfway(disk, content, r.oldSize, 0, r.oldStart, 0)
    <3>1. f.size =< size /\ size \in Nat
      BY <1>1, <2>2, <2>4
    <3>2. FilledUp(content, ContentAt(disk, f), f.size, size)
      BY <2>3, <2>7 DEF FilledUp
    <3> QED
      BY <1>2, <2>2, <3>1, <3>2, CopySource
  <2> QED
    BY <1>1, <2>2, <2>6, <2>8, <2>9, AllocCommand
<1> QED
  BY <1>4, <1>5

LEMMA FilesShrink ==
    ASSUME FilesIInv, TransferIInv', NEW name \in Names, NEW size \in Sizes, Shrink(name, size)
    PROVE  FilesIInv'
<1>1. /\ name \in NamesOf(dlist) /\ Item(dlist, name).size >= size /\ size \in Nat \ {0}
      /\ Begin("commit", [dlist EXCEPT ![Position(dlist, name)].size = size])
      /\ goal' = FS!Goal({}, FS!Resized(Store, name, size))
      /\ NoTransfer /\ UNCHANGED req
  BY StoreAssumption DEF Shrink
<1>2. Store = FilesAt(disk, dlist) /\ dlist \in Seq(ItemType) /\ LayoutOK(dlist)
  BY <1>1, CommandFinds
<1>3. PICK p \in 1 .. Len(dlist) : p = Position(dlist, name) /\ dlist[p].name = name
  BY <1>1, <1>2, PositionOfName
<1>4. PICK f \in ItemType : f = dlist[p] /\ f = Item(dlist, name)
  BY <1>2, <1>3 DEF Item
<1>5. f \in ItemSet(dlist) /\ f.size \in Nat \ {0} /\ size =< f.size /\ f.name = name
  BY <1>1, <1>2, <1>3, <1>4, ListItems, ItemExtent
<1>6. PICK g : g = [f EXCEPT !.size = size]
  OBVIOUS
<1>7. g \in ItemType /\ g.name = f.name /\ g.start = f.start /\ g.size = size
  BY <1>1, <1>6 DEF ItemType
<1>8. PICK list : list = [dlist EXCEPT ![p] = g]
  OBVIOUS
<1>9. list = [dlist EXCEPT ![Position(dlist, name)].size = size]
  BY <1>2, <1>3, <1>4, <1>6, <1>8
<1>10. /\ ItemSet(list) = (ItemSet(dlist) \ {f}) \union {g}
       /\ NamesOf(list) = (NamesOf(dlist) \ {name}) \union {name}
  <2>1. /\ ItemSet(list) = (ItemSet(dlist) \ {dlist[p]}) \union {g}
        /\ NamesOf(list) = (NamesOf(dlist) \ {dlist[p].name}) \union {g.name}
    <3>1. /\ list \in Seq(ItemType) /\ Len(list) = Len(dlist) /\ list[p] = g
          /\ \A j \in 1 .. Len(dlist) : j # p => list[j] = dlist[j]
      BY <1>2, <1>3, <1>7, <1>8
    <3> QED
      <4>1. /\ dlist \in Seq(ItemType) /\ LayoutOK(dlist) /\ p \in 1 .. Len(dlist)
            /\ g \in ItemType
        BY <1>2, <1>3, <1>7, <1>8
      <4> QED
        BY <3>1, <4>1, ExceptItems
  <2> QED
    BY <1>3, <1>4, <1>5, <1>7, <1>8, <2>1
<1>11. PICK was : was = ContentAt(disk, f)
  OBVIOUS
<1>12. PICK D : was \in Seq(D) /\ Len(was) = f.size
  BY <1>2, <1>5, <1>11, FileBytes DEF FilesIInv
<1>13. ContentAt(disk, g) = SubSeq(was, 1, size)
  <2>1. ContentAt(disk, g) = [i \in 1 .. size |-> Masked(ByteAt(disk, f.start, i))]
    BY <1>7 DEF ContentAt
  <2>2. \A i \in 1 .. size : was[i] = Masked(ByteAt(disk, f.start, i))
    BY <1>1, <1>5, <1>11 DEF ContentAt
  <2>3. SubSeq(was, 1, size) = [i \in 1 .. size |-> was[i]]
    BY <1>1, <1>5, <1>12
  <2> QED
    BY <2>1, <2>2, <2>3
<1>14. PICK want : want = FS!Put(Store, name, SubSeq(was, 1, size))
  OBVIOUS
<1>15. FS!Resized(Store, name, size) = want
  <2>1. Store[name] = was /\ name \in DOMAIN Store
    BY <1>2, <1>5, <1>11, FilesItems
  <2>2. size =< Len(was)
    BY <1>5, <1>12
  <2> QED
    BY <1>14, <2>1, <2>2 DEF FS!Resized
<1>16. Fulfils(disk, list, want, {})
  <2>1. /\ Fulfils(disk, dlist, want, {name}) /\ want[name] = SubSeq(was, 1, size)
    <3>1. PICK x : x = SubSeq(was, 1, size)
      OBVIOUS
    <3>2. /\ Fulfils(disk, dlist, FS!Put(FilesAt(disk, dlist), name, x), {name})
          /\ FS!Put(FilesAt(disk, dlist), name, x)[name] = x
      BY <1>2, PutFulfils
    <3> QED
      BY <1>2, <1>14, <3>1, <3>2
  <2>2. /\ want = [n \in DOMAIN want |-> want[n]] /\ DOMAIN want = NamesOf(dlist) \union {name}
        /\ \A h \in ItemSet(dlist) : h.name # name => want[h.name] = ContentAt(disk, h)
    BY <2>1 DEF Fulfils
  <2>3. \A h \in ItemSet(list) : want[h.name] = ContentAt(disk, h)
    <3> TAKE h \in ItemSet(list)
    <3>1. CASE h = g
      BY <1>5, <1>7, <1>13, <2>1, <3>1
    <3>2. CASE h # g
      <4>1. h \in ItemSet(dlist) /\ h # f
        BY <1>10, <3>2
      <4>2. h.name # name
        BY <1>2, <1>5, <4>1, ItemsApart
      <4> QED
        BY <2>2, <4>1, <4>2
    <3> QED
      BY <3>1, <3>2
  <2>4. DOMAIN want = NamesOf(list) \union {}
    BY <1>10, <2>2
  <2> QED
    BY <2>2, <2>3, <2>4 DEF Fulfils
<1> QED
  BY <1>1, <1>9, <1>15, <1>16, CommitCommand

LEMMA FilesMove ==
    ASSUME FilesIInv, TransferIInv', NEW old \in Names, NEW new \in Names, MoveFile(old, new)
    PROVE  FilesIInv'
<1>1. PICK kept : kept = Without(dlist, new)
  OBVIOUS
<1>2. /\ old \in NamesOf(dlist) /\ old # new
      /\ Begin("commit", [kept EXCEPT ![Position(kept, old)].name = new])
      /\ goal' = FS!Goal({}, FS!Moved(Store, old, new))
      /\ NoTransfer /\ UNCHANGED req
  BY <1>1 DEF MoveFile
<1>3. Store = FilesAt(disk, dlist) /\ dlist \in Seq(ItemType) /\ LayoutOK(dlist)
  BY <1>2, CommandFinds
<1>4. /\ kept \in Seq(ItemType) /\ LayoutOK(kept)
      /\ ItemSet(kept) = {f \in ItemSet(dlist) : f.name # new}
      /\ NamesOf(kept) = NamesOf(dlist) \ {new}
  BY <1>1, <1>3, WithoutKeepsLayout, WithoutItems
<1>5. old \in NamesOf(kept)
  BY <1>2, <1>4
<1>6. PICK p \in 1 .. Len(kept) : p = Position(kept, old) /\ kept[p].name = old
  BY <1>4, <1>5, PositionOfName
<1>7. PICK f \in ItemType : f = kept[p]
  BY <1>4
<1>8. f \in ItemSet(kept) /\ f \in ItemSet(dlist) /\ f.name = old
  BY <1>4, <1>6, <1>7, ListItems
<1>9. PICK g : g = [f EXCEPT !.name = new]
  OBVIOUS
<1>10. g \in ItemType /\ g.name = new /\ g.start = f.start /\ g.size = f.size
  BY <1>9 DEF ItemType
<1>11. PICK list : list = [kept EXCEPT ![p] = g]
  OBVIOUS
<1>12. list = [kept EXCEPT ![Position(kept, old)].name = new]
  BY <1>4, <1>6, <1>7, <1>9, <1>11
<1>13. /\ ItemSet(list) = (ItemSet(kept) \ {f}) \union {g}
       /\ NamesOf(list) = (NamesOf(kept) \ {old}) \union {new}
  <2>1. /\ ItemSet(list) = (ItemSet(kept) \ {kept[p]}) \union {g}
        /\ NamesOf(list) = (NamesOf(kept) \ {kept[p].name}) \union {g.name}
    <3>1. /\ list \in Seq(ItemType) /\ Len(list) = Len(kept) /\ list[p] = g
          /\ \A j \in 1 .. Len(kept) : j # p => list[j] = kept[j]
      BY <1>4, <1>6, <1>10, <1>11
    <3> QED
      <4>1. /\ kept \in Seq(ItemType) /\ LayoutOK(kept) /\ p \in 1 .. Len(kept)
            /\ g \in ItemType
        BY <1>4, <1>6, <1>10, <1>11
      <4> QED
        BY <3>1, <4>1, ExceptItems
  <2> QED
    BY <1>6, <1>7, <1>10, <1>11, <2>1
<1>14. PICK want : want = FS!Moved(Store, old, new)
  OBVIOUS
<1>15. /\ DOMAIN want = (NamesOf(dlist) \ {old}) \union {new}
       /\ want = [n \in DOMAIN want |-> want[n]]
       /\ want[new] = Store[old]
       /\ \A n \in NamesOf(dlist) : n # old /\ n # new => want[n] = Store[n]
  <2>1. DOMAIN Store = NamesOf(dlist)
    BY <1>3, FilesItems
  <2> QED
    BY <1>14, <2>1 DEF FS!Moved, FS!Put, FS!Drop
<1>16. Fulfils(disk, list, want, {})
  <2>1. ContentAt(disk, g) = ContentAt(disk, f)
    BY <1>10 DEF ContentAt
  <2>2. Store[old] = ContentAt(disk, f)
    BY <1>3, <1>8, FilesItems
  <2>3. \A h \in ItemSet(list) : want[h.name] = ContentAt(disk, h)
    <3> TAKE h \in ItemSet(list)
    <3>1. CASE h = g
      BY <1>10, <1>15, <2>1, <2>2, <3>1
    <3>2. CASE h # g
      <4>1. h \in ItemSet(dlist) /\ h # f /\ h.name # new
        BY <1>4, <1>13, <3>2
      <4>2. h.name # old
        BY <1>3, <1>8, <4>1, ItemsApart
      <4>3. h.name \in NamesOf(dlist) /\ Store[h.name] = ContentAt(disk, h)
        BY <1>3, <4>1, FilesItems
      <4> QED
        BY <1>15, <4>1, <4>2, <4>3
    <3> QED
      BY <3>1, <3>2
  <2>4. DOMAIN want = NamesOf(list) \union {}
    BY <1>2, <1>4, <1>13, <1>15
  <2> QED
    BY <1>15, <2>3, <2>4 DEF Fulfils
<1> QED
  BY <1>2, <1>12, <1>14, <1>16, CommitCommand

LEMMA FilesRemove ==
    ASSUME FilesIInv, TransferIInv', NEW name \in Names, RemoveFile(name)
    PROVE  FilesIInv'
<1>1. /\ name \in NamesOf(dlist) /\ Begin("commit", Without(dlist, name))
      /\ goal' = FS!Goal({}, FS!Drop(Store, name))
      /\ NoTransfer /\ UNCHANGED req
  BY DEF RemoveFile
<1>2. Store = FilesAt(disk, dlist) /\ dlist \in Seq(ItemType) /\ LayoutOK(dlist)
  BY <1>1, CommandFinds
<1>3. /\ ItemSet(Without(dlist, name)) = {f \in ItemSet(dlist) : f.name # name}
      /\ NamesOf(Without(dlist, name)) = NamesOf(dlist) \ {name}
  BY <1>2, WithoutItems
<1>4. PICK want : want = FS!Drop(Store, name)
  OBVIOUS
<1>5. /\ DOMAIN want = NamesOf(dlist) \ {name} /\ want = [n \in DOMAIN want |-> want[n]]
      /\ \A n \in NamesOf(dlist) : n # name => want[n] = Store[n]
  <2>1. DOMAIN Store = NamesOf(dlist)
    BY <1>2, FilesItems
  <2> QED
    BY <1>4, <2>1 DEF FS!Drop
<1>6. \A f \in ItemSet(Without(dlist, name)) : want[f.name] = ContentAt(disk, f)
  BY <1>2, <1>3, <1>5, FilesItems
<1>7. Fulfils(disk, Without(dlist, name), want, {})
  BY <1>3, <1>5, <1>6 DEF Fulfils
<1> QED
  BY <1>1, <1>4, <1>7, CommitCommand

LEMMA FilesClear ==
    ASSUME FilesIInv, TransferIInv', ClearMenu
    PROVE  FilesIInv'
<1>1. /\ Begin("commit", <<>>) /\ goal' = FS!Goal({}, <<>>) /\ NoTransfer /\ UNCHANGED req
  BY DEF ClearMenu
<1>2. NamesOf(<<>>) = {} /\ ItemSet(<<>>) = {}
  BY DEF NamesOf, ItemSet
<1>3. DOMAIN <<>> = {} /\ <<>> = [n \in DOMAIN <<>> |-> <<>>[n]]
  OBVIOUS
<1>4. Fulfils(disk, <<>>, <<>>, {})
  BY <1>2, <1>3 DEF Fulfils
<1> QED
  BY <1>1, <1>4, CommitCommand

LEMMA FilesPack ==
    ASSUME FilesIInv, TransferIInv', PackDisk
    PROVE  FilesIInv'
<1>1. /\ Begin("pack", dlist) /\ at' = DataBegin /\ idx' = 1
      /\ goal' = FS!Goal(NamesOf(dlist), Store) /\ UNCHANGED <<req, from>>
  BY DEF PackDisk
<1>2. /\ Store = FilesAt(disk, dlist) /\ dlist \in Seq(ItemType) /\ LayoutOK(dlist)
      /\ disk' = disk /\ disk \in [Area -> [1 .. ExtBlock -> Cell]]
      /\ fb_list' = dlist /\ pc' = "pack"
      /\ ncmd' \in Nat /\ from \in Nat /\ req \in ReqType \cup {NoReq}
  BY <1>1, CommandFinds
<1>3. TypeOK'
  BY <1>1, <1>2, TypeStep
<1>4. goal'.phase = "busy" /\ goal'.want = FilesAt(disk, dlist)
  BY <1>1, <1>2 DEF FS!Goal
<1>5. Fulfils(disk, dlist, goal'.want, {})
  <2>1. PICK want : want = FilesAt(disk, dlist)
    OBVIOUS
  <2>2. /\ DOMAIN want = NamesOf(dlist) /\ \A f \in ItemSet(dlist) : want[f.name] = ContentAt(disk, f)
    BY <1>2, <2>1, FilesItems
  <2>3. want = [n \in DOMAIN want |-> want[n]]
    BY <2>1 DEF FilesAt
  <2> QED
    BY <1>4, <2>1, <2>2, <2>3 DEF Fulfils
<1>6. Unfinished' = {}
  BY <1>2 DEF Unfinished, Storing
<1>7. PackOK'
  BY <1>1, <1>2 DEF PackOK, GapBegin
<1> QED
  BY <1>2, <1>3, <1>4, <1>5, <1>6, <1>7 DEF FilesIInv, AllocOK, SaveOK, CopyOK, FillOK, Storing

\* What load commits: of two items of one name the later one.
LEMMA LoadedWants ==
    ASSUME NEW f, NEW names, names = DOMAIN f, NEW archive \in Archives,
           NEW want, want = FS!Loaded(f, archive)
    PROVE  /\ want = [n \in DOMAIN want |-> want[n]]
           /\ DOMAIN want = names \union {archive[i].name : i \in 1 .. Len(archive)}
           /\ \A n \in names : (\A i \in 1 .. Len(archive) : archive[i].name # n) => want[n] = f[n]
           /\ \A k \in 1 .. Len(archive) :
                 (\A j \in k + 1 .. Len(archive) : archive[j].name # archive[k].name)
                    => want[archive[k].name] = FS!Patched(archive[k].data, archive[k].sys)
<1>1. PICK m \in Nat : m = Len(archive) /\ DOMAIN archive = 1 .. m
  BY ArchiveAssumption
<1> DEFINE Entries(n) == {i \in DOMAIN archive : archive[i].name = n}
           LastOf(n) == archive[CHOOSE i \in Entries(n) : \A j \in Entries(n) : j =< i]
<1>2. want = [n \in DOMAIN f \union {archive[i].name : i \in DOMAIN archive} |->
                IF Entries(n) = {} THEN f[n]
                ELSE FS!Patched(LastOf(n).data, LastOf(n).sys)]
  BY DEF FS!Loaded
<1>3. ASSUME NEW k \in 1 .. m, \A j \in k + 1 .. m : archive[j].name # archive[k].name
      PROVE  want[archive[k].name] = FS!Patched(archive[k].data, archive[k].sys)
  <2>1. PICK n : n = archive[k].name
    OBVIOUS
  <2>2. k \in Entries(n) /\ \A j \in Entries(n) : j =< k
    BY <1>1, <1>3, <2>1
  <2>3. \A i \in Entries(n) : (\A j \in Entries(n) : j =< i) => i = k
    BY <1>1, <2>2
  <2> HIDE DEF Entries
  <2>4. (CHOOSE i \in Entries(n) : \A j \in Entries(n) : j =< i) = k
    BY <2>2, <2>3
  <2>5. LastOf(n) = archive[k]
    BY <2>4
  <2>6. Entries(n) # {} /\ n \in DOMAIN f \union {archive[i].name : i \in DOMAIN archive}
    BY <1>1, <2>1, <2>2
  <2> HIDE DEF LastOf
  <2>7. want[n] = FS!Patched(LastOf(n).data, LastOf(n).sys)
    BY <1>2, <2>6
  <2> QED
    BY <2>1, <2>5, <2>7
<1>4. ASSUME NEW n \in names, \A i \in 1 .. m : archive[i].name # n PROVE want[n] = f[n]
  <2>1. Entries(n) = {}
    BY <1>1, <1>4
  <2> HIDE DEF Entries, LastOf
  <2> QED
    BY <1>2, <2>1
<1> HIDE DEF Entries, LastOf
<1>5. /\ want = [n \in DOMAIN want |-> want[n]]
      /\ DOMAIN want = names \union {archive[i].name : i \in 1 .. m}
  BY <1>1, <1>2
<1> QED
  BY <1>1, <1>3, <1>4, <1>5

LEMMA FilesLoad ==
    ASSUME FilesIInv, TransferIInv', NEW archive \in Archives, LoadArchive(archive)
    PROVE  FilesIInv'
<1>1. /\ Begin("alloc", dlist) /\ NoTransfer
      /\ req' = ItemReq(Head(archive)) /\ queue' = Tail(archive)
  BY DEF LoadArchive
<1>2. /\ Store = FilesAt(disk, dlist) /\ dlist \in Seq(ItemType) /\ LayoutOK(dlist)
      /\ disk' = disk /\ disk \in [Area -> [1 .. ExtBlock -> Cell]]
      /\ fb_list' = dlist /\ pc' = "alloc"
      /\ ncmd' \in Nat /\ from \in Nat /\ idx \in Nat
  BY <1>1, CommandFinds
<1>3. PICK want : want = FS!Loaded(Store, archive)
  OBVIOUS
<1>4. goal'.phase = "busy" /\ goal'.want = want
  BY <1>3 DEF LoadArchive, FS!Goal
<1>5. PICK m \in Nat \ {0} : m = Len(archive)
  <2>1. Len(archive) \in Nat \ {0}
    BY ArchiveAssumption
  <2> QED
    BY <2>1
<1>6. \A i \in 1 .. m : /\ archive[i].name \in Names /\ archive[i].data \in Seq(Bytes) \ {<<>>}
                        /\ archive[i].ext \in BOOLEAN /\ archive[i].sys \in BOOLEAN
  <2> TAKE i \in 1 .. m
  <2>1. PICK R : R = [name : Names, data : Seq(Bytes) \ {<<>>}, ext : BOOLEAN, sys : BOOLEAN]
    OBVIOUS
  <2>2. archive \in Seq(R)
    BY <2>1, ArchiveAssumption
  <2>3. archive[i] \in R
    BY <1>5, <2>2
  <2> QED
    BY <2>1, <2>3
<1>7. /\ Len(queue') = m - 1 /\ \A k \in 1 .. m - 1 : queue'[k] = archive[k + 1]
      /\ Head(archive) = archive[1]
  BY <1>1, <1>5, ArchiveAssumption
<1>8. /\ want = [n \in DOMAIN want |-> want[n]]
      /\ DOMAIN want = NamesOf(dlist) \union {archive[i].name : i \in 1 .. m}
      /\ \A n \in NamesOf(dlist) :
            (\A i \in 1 .. m : archive[i].name # n) => want[n] = Store[n]
      /\ \A k \in 1 .. m :
            (\A j \in k + 1 .. m : archive[j].name # archive[k].name)
               => want[archive[k].name] = FS!Patched(archive[k].data, archive[k].sys)
  <2>1. NamesOf(dlist) = DOMAIN Store
    BY <1>2, FilesItems
  <2>2. PICK f : f = Store
    OBVIOUS
  <2>3. /\ want = [n \in DOMAIN want |-> want[n]]
        /\ DOMAIN want = DOMAIN f \union {archive[i].name : i \in 1 .. Len(archive)}
        /\ \A n \in DOMAIN f : (\A i \in 1 .. Len(archive) : archive[i].name # n) => want[n] = f[n]
        /\ \A k \in 1 .. Len(archive) :
              (\A j \in k + 1 .. Len(archive) : archive[j].name # archive[k].name)
                 => want[archive[k].name] = FS!Patched(archive[k].data, archive[k].sys)
    <3>1. want = FS!Loaded(f, archive) /\ archive \in Archives
      BY <1>3, <2>2
    <3> QED
      BY <3>1, LoadedWants
  <2> QED
    BY <1>5, <2>1, <2>2, <2>3
<1>9. PICK r : r = req'
  OBVIOUS
<1>10. PICK e : e = archive[1]
  OBVIOUS
<1>11. /\ r = SaveReq(e.name, e.data, e.ext, e.sys)
       /\ e.name \in Names /\ e.data \in Seq(Bytes) \ {<<>>} /\ e.ext \in BOOLEAN /\ e.sys \in BOOLEAN
  BY <1>1, <1>6, <1>7, <1>9, <1>10 DEF ItemReq
<1>12. Saved(r) = FS!Patched(e.data, e.sys) /\ e.data \in Seq(Cell) /\ Len(e.data) \in Nat \ {0}
  BY <1>11, SavedPatched
<1>13. r \in ReqType /\ r.kind = "save" /\ r.name = e.name /\ Len(r.data) = r.size
  BY <1>11, <1>12 DEF SaveReq, ReqType
<1>14. TypeOK'
  BY <1>1, <1>2, <1>9, <1>13, TypeStep DEF NoTransfer
<1>15. {req'.name} \union {queue'[k].name : k \in 1 .. Len(queue')}
         = {archive[i].name : i \in 1 .. m}
  <2>1. \A i \in 1 .. m : i = 1 \/ (i - 1 \in 1 .. m - 1 /\ archive[i] = queue'[i - 1])
    BY <1>7
  <2>2. \A k \in 1 .. m - 1 : k + 1 \in 1 .. m /\ queue'[k] = archive[k + 1]
    BY <1>7
  <2>3. 1 \in 1 .. m /\ req'.name = archive[1].name /\ Len(queue') = m - 1
    BY <1>7, <1>9, <1>10, <1>13
  <2> QED
    BY <2>1, <2>2, <2>3
<1>16. Fulfils(disk, dlist, want, {archive[i].name : i \in 1 .. m})
  <2>1. \A f \in ItemSet(dlist) : f.name \notin {archive[i].name : i \in 1 .. m} =>
            want[f.name] = ContentAt(disk, f)
    <3> TAKE f \in ItemSet(dlist)
    <3>1. f.name \in NamesOf(dlist) /\ Store[f.name] = ContentAt(disk, f)
      BY <1>2, FilesItems
    <3> QED
      BY <1>8, <3>1
  <2> QED
    BY <1>8, <2>1 DEF Fulfils
<1>17. QueueWanted'
  <2>1. ASSUME NEW k \in 1 .. m - 1, \A j \in k + 1 .. m - 1 : queue'[j].name # queue'[k].name
        PROVE  want[queue'[k].name] = FS!Patched(queue'[k].data, queue'[k].sys)
    <3>1. k + 1 \in 1 .. m /\ queue'[k] = archive[k + 1]
      BY <1>7
    <3>2. \A j \in (k + 1) + 1 .. m : archive[j].name # archive[k + 1].name
      <4> TAKE j \in (k + 1) + 1 .. m
      <4>1. j - 1 \in k + 1 .. m - 1 /\ j - 1 \in 1 .. m - 1 /\ (j - 1) + 1 = j
        OBVIOUS
      <4>2. queue'[j - 1] = archive[j]
        BY <1>7, <4>1
      <4> QED
        BY <2>1, <3>1, <4>1, <4>2
    <3>3. want[archive[k + 1].name] = FS!Patched(archive[k + 1].data, archive[k + 1].sys)
      BY <1>8, <3>1, <3>2
    <3> QED
      BY <3>1, <3>3
  <2>2. ASSUME \A j \in 1 .. m - 1 : queue'[j].name # r.name
        PROVE  want[r.name] = Saved(r)
    <3>1. 1 \in 1 .. m /\ \A j \in 1 + 1 .. m : archive[j].name # archive[1].name
      <4>1. ASSUME NEW j \in 2 .. m PROVE archive[j].name # archive[1].name
        <5>1. j - 1 \in 1 .. m - 1 /\ queue'[j - 1] = archive[j]
          BY <1>7
        <5> QED
          BY <1>10, <1>13, <2>2, <5>1
      <4> QED
        BY <4>1
    <3>2. want[archive[1].name] = FS!Patched(archive[1].data, archive[1].sys)
      BY <1>8, <3>1
    <3> QED
      BY <1>10, <1>12, <1>13, <3>2
  <2>3. Len(queue') = m - 1 /\ req' = r /\ goal'.want = want /\ r \in ReqType /\ Len(r.data) = r.size
    BY <1>4, <1>7, <1>9, <1>13
  <2> QED
    BY <2>1, <2>2, <2>3 DEF QueueWanted, Saved, Masked
<1>18. AllocOK'
  BY <1>9, <1>13 DEF AllocOK
<1>19. Fulfils(disk', fb_list', goal'.want,
               {req'.name} \union {queue'[k].name : k \in 1 .. Len(queue')})
  BY <1>2, <1>4, <1>15, <1>16
<1> QED
  BY <1>2, <1>4, <1>14, <1>17, <1>18, <1>19, FilesAllocates

LEMMA FilesCommand == FilesIInv /\ TransferIInv' /\ Command => FilesIInv'
  BY FilesAdd, FilesMenu, FilesShrink, FilesGrow, FilesCopy, FilesMove, FilesRemove,
     FilesClear, FilesPack, FilesLoad DEF Command

-----------------------------------------------------------------------------
(***************************************************************************)
(* The allocation of a file.                                               *)
(***************************************************************************)

\* The blocks of a file start at 0.
LEMMA BlockInFile ==
    ASSUME NEW start \in Nat, NEW size \in Nat, NEW i \in 1 .. size
    PROVE  /\ BlockOf(start) \in Nat \ {0} /\ BlockOf(start) =< ExtBlock
           /\ BlockIn(start, i) \in Nat /\ BlockIn(start, i) < CeilDiv(size, BlockOf(start))
           /\ (i - 1) % BlockOf(start) \in 0 .. BlockOf(start) - 1
           /\ i - 1 = BlockOf(start) * BlockIn(start, i) + ((i - 1) % BlockOf(start))
<1>1. BlockOf(start) \in Nat \ {0} /\ BlockOf(start) =< ExtBlock
  BY BlockAssumption DEF BlockOf
<1>2. size \in Nat \ {0}
  OBVIOUS
<1> QED
  BY <1>1, <1>2, ByteBlock DEF BlockIn

\* Before the first block is moved, the new place does not matter.
LEMMA HalfwayStart ==
    ASSUME NEW d, NEW content, NEW size \in Nat, NEW any, NEW new, NEW old \in Nat,
           Halfway(d, content, size, any, old, 0)
    PROVE  Halfway(d, content, size, new, old, 0)
<1>1. \A i \in 1 .. size : ~(BlockIn(old, i) < 0)
  BY BlockInFile
<1> QED
  BY <1>1 DEF Halfway

\* A file to be copied is not put where writing it destroys what is still to be read.
LEMMA CopyIsPlaced ==
    ASSUME NEW list \in Seq(ItemType), LayoutOK(list), NEW i \in Gaps(list),
           NEW r \in ReqType, OldInside(r), SameArea(StartIn(list, i, r.size, r.ext)), r = req,
           \A f \in ItemSet(list) : f.name # r.name, OldAlone(r, list)
    PROVE  CopyPlaced(r, StartIn(list, i, r.size, r.ext))
<1> SUFFICES ASSUME r.oldSize > 0
             PROVE  CopyPlaced(r, StartIn(list, i, r.size, r.ext))
  BY DEF CopyPlaced
<1>1. PICK start : start = StartIn(list, i, r.size, r.ext)
  OBVIOUS
<1>2. start = GapBegin(list, i) \/ start = PriSize
  BY <1>1 DEF StartIn
<1>3. r.oldStart \in Nat /\ r.oldSize \in Nat
  BY DEF ReqType
<1>4. GapBegin(list, i) \in Nat /\ start \in Nat
  BY <1>2, GapBounds, AreaAssumption
<1>5. /\ DataBegin =< r.oldStart
      /\ r.ext <=> ~InPrimary(r.oldStart)
  BY DEF OldInside
<1>6. InPrimary(start) <=> InPrimary(r.oldStart)
  <2>1. r.ext <=> ~InPrimary(start)
    BY <1>1 DEF SameArea
  <2> QED
    BY <1>5, <2>1
<1>7. OldEnd(r) \in Nat /\ r.oldStart =< OldEnd(r)
  <2>1. r.oldSize \in Nat \ {0} /\ BlockOf(r.oldStart) \in Nat \ {0}
    BY <1>3, BlockAssumption DEF BlockOf
  <2>2. CeilDiv(r.oldSize, BlockOf(r.oldStart)) \in Nat
    BY <2>1, CeilDivBounds
  <2> QED
    BY <1>3, <2>2 DEF OldEnd
<1>8. start =< r.oldStart \/ OldEnd(r) =< start
  <2>1. CASE start = PriSize
    <3>1. ~InPrimary(start)
      BY <1>4, <2>1 DEF InPrimary
    <3>2. ~InPrimary(r.oldStart)
      BY <1>6, <3>1
    <3> QED
      BY <1>3, <1>4, <2>1, <3>2, AreaAssumption DEF InPrimary
  <2>2. CASE start = GapBegin(list, i) /\ i = 1
    BY <1>5, <2>2 DEF GapBegin
  <2>3. CASE start = GapBegin(list, i) /\ i # 1
    <3>1. i - 1 \in 1 .. Len(list)
      BY <2>3 DEF Gaps
    <3>2. PICK g \in ItemSet(list) : g = list[i - 1]
      BY <3>1, ListItems
    <3>3. start = FileEnd(g) /\ g.name # r.name
      BY <2>3, <3>2 DEF GapBegin
    <3>4. g.start \in Nat /\ FileEnd(g) \in Nat /\ g.start < FileEnd(g)
      BY <3>2, ListItems, ItemExtent
    <3>5. \/ FileEnd(g) =< r.oldStart \/ OldEnd(r) =< g.start
          \/ g.start = r.oldStart /\ g.size = r.oldSize
      BY DEF OldAlone
    <3>6. g.start = r.oldStart /\ g.size = r.oldSize => FileEnd(g) = OldEnd(r)
      BY DEF FileEnd, OldEnd, Blocks
    <3> QED
      BY <1>3, <1>4, <1>7, <3>3, <3>4, <3>5, <3>6
  <2> QED
    BY <1>2, <2>1, <2>2, <2>3
<1> QED
  BY <1>1, <1>6, <1>8 DEF CopyPlaced

LEMMA FilesAlloc == FilesIInv /\ TransferIInv' /\ AllocFile => FilesIInv'
<1> SUFFICES ASSUME FilesIInv, TransferIInv', AllocFile PROVE FilesIInv'
  OBVIOUS
<1>1. /\ pc = "alloc" /\ pc' \in {"save", "copy"} /\ TypeOK /\ LayoutIInv /\ CopyFits
      /\ UNCHANGED <<disk, dlist, req, queue, idx, ncmd, goal>>
      /\ from' = req.oldStart /\ QueueWanted
  BY DEF AllocFile, FilesIInv, TransferIInv
<1>2. PICK r \in ReqType : r = req
  BY <1>1 DEF QueueWanted
<1>3. /\ r.name \in Names /\ r.size \in Nat \ {0} /\ r.ext \in BOOLEAN
      /\ r.oldStart \in Nat /\ r.oldSize \in Nat /\ r.kind \in {"save", "cpy"}
  BY DEF ReqType
<1>4. /\ fb_list \in Seq(ItemType) /\ LayoutOK(fb_list)
      /\ fb_list' \in Seq(ItemType) /\ LayoutOK(fb_list')
  BY <1>1 DEF LayoutIInv, LayoutInv, TransferIInv
<1>5. PICK list \in Seq(ItemType) :
        /\ list = Kept /\ LayoutOK(list)
        /\ ItemSet(list) = {f \in ItemSet(fb_list) : f.name # r.name}
        /\ NamesOf(list) = NamesOf(fb_list) \ {r.name}
  <2>1. /\ Without(fb_list, r.name) \in Seq(ItemType) /\ LayoutOK(Without(fb_list, r.name))
        /\ ItemSet(Without(fb_list, r.name)) = {f \in ItemSet(fb_list) : f.name # r.name}
        /\ NamesOf(Without(fb_list, r.name)) = NamesOf(fb_list) \ {r.name}
    BY <1>4, WithoutKeepsLayout, WithoutItems
  <2> QED
    BY <1>2, <2>1 DEF Kept
<1>6. PICK i \in Gaps(list) :
        /\ SameArea(StartIn(list, i, r.size, r.ext))
        /\ fb_list' = InsertAt(list, i, NewItem(StartIn(list, i, r.size, r.ext)))
        /\ at' = StartIn(list, i, r.size, r.ext)
        /\ pc' = IF r.kind = "save" THEN "save" ELSE "copy"
        /\ left' = IF r.kind = "save" THEN r.size
                   ELSE IF StartIn(list, i, r.size, r.ext) = r.oldStart THEN 0
                   ELSE r.oldSize \div BlockOf(StartIn(list, i, r.size, r.ext))
  BY <1>2, <1>5 DEF AllocFile
<1>7. PICK start \in Nat : start = StartIn(list, i, r.size, r.ext)
  <2>1. StartIn(list, i, r.size, r.ext) \in Nat
    BY <1>5, GapBounds, AreaAssumption DEF StartIn
  <2> QED
    BY <2>1
<1>8. PICK e \in ItemType : /\ e = NewItem(start)
                            /\ e.name = r.name /\ e.size = r.size /\ e.start = start
  <2>1. /\ NewItem(start) \in ItemType /\ NewItem(start).name = r.name
        /\ NewItem(start).size = r.size /\ NewItem(start).start = start
    BY <1>2, <1>3, <1>7 DEF NewItem, ItemType
  <2> QED
    BY <2>1
<1>9. /\ ItemSet(fb_list') = ItemSet(list) \union {e}
      /\ NamesOf(fb_list') = NamesOf(list) \union {r.name}
  <2>1. fb_list' = InsertAt(list, i, e)
    BY <1>6, <1>7, <1>8
  <2>2. /\ ItemSet(InsertAt(list, i, e)) = ItemSet(list) \union {e}
        /\ NamesOf(InsertAt(list, i, e)) = NamesOf(list) \union {e.name}
    BY InsertItems
  <2> QED
    BY <1>8, <2>1, <2>2
<1>10. Target' = e
  <2>1. Item(fb_list', r.name) = e
    BY <1>4, <1>8, <1>9, ItemOfName
  <2> QED
    BY <1>1, <1>2, <2>1 DEF Target
<1>11. TypeOK'
  BY <1>1, <1>2, <1>3, TypeStep DEF TypeOK
<1>12. Fulfils(disk', fb_list', goal'.want, Unfinished')
  <2>1. PICK u : u = {r.name} \union {queue[k].name : k \in 1 .. Len(queue)}
    OBVIOUS
  <2>2. Unfinished = u /\ Unfinished' = u /\ r.name \in u
    BY <1>1, <1>2, <2>1 DEF Unfinished, Storing
  <2>3. PICK want : want = goal.want /\ Fulfils(disk, fb_list, want, u)
    BY <1>1, <2>2 DEF FilesIInv
  <2>4. NamesOf(fb_list') \union u = NamesOf(fb_list) \union u
    BY <1>5, <1>9, <2>2
  <2>5. \A f \in ItemSet(fb_list') : f.name \notin u => f \in ItemSet(fb_list)
    BY <1>5, <1>8, <1>9, <2>2
  <2>6. Fulfils(disk, fb_list', want, u)
    BY <2>3, <2>4, <2>5 DEF Fulfils
  <2> QED
    BY <1>1, <2>2, <2>3, <2>6
<1>13. QueueWanted'
  BY <1>1 DEF QueueWanted
<1>14. SaveOK'
  <2> SUFFICES ASSUME pc' = "save" PROVE SaveOK'
    BY <1>1 DEF SaveOK
  <2>1. r.kind = "save" /\ left' = r.size /\ at' = start
    BY <1>6, <1>7
  <2>2. BlockOf(start) \in Nat
    BY BlockAssumption DEF BlockOf
  <2>3. r.size - left' = (at' - start) * BlockOf(start)
    <3>1. r.size - left' = 0 /\ at' - start = 0
      BY <1>3, <1>7, <2>1
    <3>2. 0 = 0 * BlockOf(start)
      BY <2>2
    <3> QED
      BY <3>1, <3>2
  <2>4. \A k \in 1 .. r.size - left' : FALSE
    BY <1>3, <2>1
  <2> QED
    BY <1>1, <1>2, <1>3, <1>8, <1>10, <2>1, <2>3, <2>4 DEF SaveOK
<1>15. CopyOK'
  <2> SUFFICES ASSUME pc' = "copy" PROVE CopyOK'
    BY <1>1 DEF CopyOK
  <2>1. /\ r.kind = "cpy" /\ at' = start /\ from' = r.oldStart
        /\ left' = IF start = r.oldStart THEN 0 ELSE r.oldSize \div BlockOf(start)
    BY <1>1, <1>2, <1>3, <1>6, <1>7
  <2>2. /\ queue = <<>> /\ CopyWanted(r, goal.want[r.name]) /\ OldAlone(r, fb_list)
        /\ Halfway(disk, goal.want[r.name], r.oldSize, 0, r.oldStart, 0)
    BY <1>1, <1>2, <2>1 DEF FilesIInv, AllocOK
  <2>3. OldAlone(r, list) /\ OldInside(r) /\ \A f \in ItemSet(list) : f.name # r.name
    BY <1>5, <2>2 DEF OldAlone, CopyWanted
  <2>4. CopyPlaced(r, start)
    BY <1>2, <1>5, <1>6, <1>7, <2>3, CopyIsPlaced
  <2>5. Halfway(disk, goal.want[r.name], r.oldSize, start, r.oldStart, 0)
    BY <1>3, <2>2, HalfwayStart
  <2>6. OldWhole' = r.oldSize \div BlockOf(start)
    BY <1>1, <1>2, <1>8, <1>10 DEF OldWhole
  <2>7. /\ from' = r.oldStart + (at' - start) /\ at' - start = 0
        /\ start # r.oldStart => at' + left' = start + OldWhole'
        /\ start = r.oldStart => left' = 0 /\ at' = start
    BY <1>3, <1>7, <2>1, <2>6
  <2>8. /\ Halfway(disk', goal'.want[r.name], r.oldSize, start, r.oldStart, at' - start)
        /\ CopyWanted(r, goal'.want[r.name])
    BY <1>1, <2>2, <2>5, <2>7
  <2> QED
    BY <1>1, <1>2, <1>8, <1>10, <2>2, <2>4, <2>7, <2>8 DEF CopyOK
<1> QED
  BY <1>1, <1>11, <1>12, <1>13, <1>14, <1>15
     DEF FilesIInv, AllocOK, FillOK, PackOK

-----------------------------------------------------------------------------
(***************************************************************************)
(* What a transfer reads and writes.                                       *)
(***************************************************************************)

\* The file being stored, and the request it is stored for.
LEMMA StoredFile ==
    ASSUME FilesIInv, Storing
    PROVE  /\ req \in ReqType /\ Target \in ItemSet(fb_list) /\ Target \in ItemType
           /\ Target.name = req.name /\ Target.size = req.size
           /\ Extent(Target) \subseteq Area
<1>1. LayoutIInv /\ fb_list \in Seq(ItemType) /\ LayoutOK(fb_list) /\ Target.size = req.size
  BY DEF FilesIInv, TransferIInv, LayoutIInv, LayoutInv, TransferInside
<1>2. req \in ReqType
  BY DEF FilesIInv, QueueWanted
<1>3. PICK t \in ItemSet(fb_list) : t = Target /\ t.name = req.name
  BY <1>1, TargetItem, ListItems
<1> QED
  BY <1>1, <1>2, <1>3, ListItems, ItemInside

\* The old file of a copy has the blocks of the new one, and its last block may
\* be used in part.
LEMMA OldFile ==
    ASSUME FilesIInv, pc \in {"copy", "tail"}, NEW r \in ReqType, r = req,
           NEW start \in Nat, start = Target.start
    PROVE  /\ r.oldStart \in Nat /\ r.oldSize \in Nat /\ r.oldSize =< r.size
           /\ BlockOf(start) \in Nat \ {0}
           /\ OldWhole = r.oldSize \div BlockOf(start) /\ OldWhole \in Nat
           /\ OldRest = r.oldSize % BlockOf(start)
           /\ r.oldSize = 0 => OldWhole = 0 /\ OldRest = 0
           /\ r.oldSize > 0 =>
                 /\ BlockOf(start) = BlockOf(r.oldStart)
                 /\ OldEnd(r) = r.oldStart + OldWhole + (IF OldRest = 0 THEN 0 ELSE 1)
                 /\ DataBegin =< r.oldStart /\ OldEnd(r) =< TotalSize
<1>1. CopyPlaced(r, start) /\ OldInside(r) /\ CopyFits
  BY DEF FilesIInv, TransferIInv, CopyOK, CopyWanted
<1>2. r.oldStart \in Nat /\ r.oldSize \in Nat /\ r.oldSize =< r.size
  BY <1>1 DEF ReqType, CopyFits
<1>3. PICK b \in Nat \ {0} : b = BlockOf(start)
  BY BlockAssumption DEF BlockOf
<1>4. OldWhole = r.oldSize \div b /\ OldRest = r.oldSize % b
  BY <1>3 DEF OldWhole, OldRest
<1>5. OldWhole \in Nat
  BY <1>2, <1>3, <1>4
<1>6. r.oldSize = 0 => OldWhole = 0 /\ OldRest = 0
  BY <1>3, <1>4, SmallQuotient
<1>7. ASSUME r.oldSize > 0
      PROVE  /\ b = BlockOf(r.oldStart)
             /\ OldEnd(r) = r.oldStart + OldWhole + (IF OldRest = 0 THEN 0 ELSE 1)
             /\ DataBegin =< r.oldStart /\ OldEnd(r) =< TotalSize
  <2>1. b = BlockOf(r.oldStart)
    BY <1>1, <1>3, <1>7 DEF CopyPlaced, BlockOf
  <2>2. CeilDiv(r.oldSize, b) = OldWhole + (IF OldRest = 0 THEN 0 ELSE 1)
    BY <1>2, <1>4, CeilDivSplit
  <2>3. OldEnd(r) = r.oldStart + OldWhole + (IF OldRest = 0 THEN 0 ELSE 1)
    BY <1>2, <1>5, <2>1, <2>2 DEF OldEnd
  <2> QED
    BY <1>1, <1>7, <2>1, <2>3 DEF OldInside
<1> QED
  BY <1>2, <1>3, <1>4, <1>5, <1>6, <1>7

\* copy_disk reads the sectors of the old file.
LEMMA CopyReads ==
    ASSUME FilesIInv, pc \in {"copy", "packcopy"}, NEW j \in 1 .. left
    PROVE  from \in Nat /\ from + j - 1 \in Area
<1>1. at \in Nat /\ left \in Nat /\ from \in Nat
  BY DEF FilesIInv, TypeOK
<1>2. CASE pc = "copy"
  <2>1. PICK r \in ReqType : r = req
    BY <1>2, StoredFile DEF Storing
  <2>2. PICK t \in ItemType : t = Target /\ t.start \in Nat
    BY <1>2, StoredFile, ItemExtent DEF Storing
  <2>3. /\ r.oldStart \in Nat /\ OldWhole \in Nat
        /\ r.oldSize \in Nat /\ (r.oldSize = 0 => OldWhole = 0)
        /\ r.oldSize > 0 =>
              /\ OldEnd(r) = r.oldStart + OldWhole + (IF OldRest = 0 THEN 0 ELSE 1)
              /\ DataBegin =< r.oldStart /\ OldEnd(r) =< TotalSize
    BY <1>2, <2>1, <2>2, OldFile
  <2>4. /\ from = r.oldStart + (at - t.start)
        /\ t.start # r.oldStart => at + left = t.start + OldWhole
        /\ t.start = r.oldStart => left = 0
    BY <1>2, <2>1, <2>2 DEF FilesIInv, CopyOK
  <2>5. t.start =< at
    BY <1>2, <2>2 DEF FilesIInv, TransferIInv, TransferInside
  <2>6. at + left = t.start + OldWhole
    BY <1>1, <2>4
  <2>7. OldWhole > 0 /\ r.oldSize > 0
    BY <1>1, <2>2, <2>3, <2>5, <2>6
  <2>8. DataBegin =< r.oldStart /\ r.oldStart + OldWhole =< TotalSize
    BY <2>3, <2>7, AreaAssumption
  <2>9. DataBegin =< from + j - 1 /\ from + j - 1 < TotalSize
    BY <1>1, <2>2, <2>3, <2>4, <2>5, <2>6, <2>8, AreaAssumption
  <2> QED
    BY <1>1, <2>9, AreaAssumption DEF Area
<1>3. CASE pc = "packcopy"
  <2>1. idx \in 1 .. Len(fb_list) /\ fb_list \in Seq(ItemType) /\ LayoutOK(fb_list)
    BY <1>3 DEF FilesIInv, TransferIInv, LayoutIInv, LayoutInv, PackInv
  <2>2. PICK f \in ItemSet(fb_list) : f = fb_list[idx]
    BY <2>1, ListItems
  <2>3. /\ f.start \in Nat /\ Blocks(f) \in Nat /\ FileEnd(f) = f.start + Blocks(f)
        /\ DataBegin =< f.start /\ FileEnd(f) =< TotalSize
    BY <2>1, ListItems, ItemExtent, ItemInside DEF FileEnd
  <2>4. left =< Blocks(f) /\ from = f.start + (at - (at + left - Blocks(f)))
    BY <1>3, <2>2 DEF FilesIInv, PackOK, PackBase
  <2>5. DataBegin =< from + j - 1 /\ from + j - 1 < TotalSize
    BY <1>1, <2>3, <2>4, AreaAssumption
  <2> QED
    BY <1>1, <2>5, AreaAssumption DEF Area
<1> QED
  BY <1>2, <1>3

\* cpy_file reads the last sector of the old file, if there is a partly used one.
LEMMA TailReads ==
    ASSUME FilesIInv, pc = "tail", OldRest # 0
    PROVE  from \in Area
<1>1. at \in Nat /\ from \in Nat
  BY DEF FilesIInv, TypeOK
<1>2. PICK r \in ReqType : r = req
  BY StoredFile DEF Storing
<1>3. PICK t \in ItemType : t = Target /\ t.start \in Nat
  BY StoredFile, ItemExtent DEF Storing
<1>4. /\ r.oldStart \in Nat /\ OldWhole \in Nat
      /\ r.oldSize \in Nat /\ (r.oldSize = 0 => OldRest = 0)
      /\ r.oldSize > 0 =>
            /\ OldEnd(r) = r.oldStart + OldWhole + (IF OldRest = 0 THEN 0 ELSE 1)
            /\ DataBegin =< r.oldStart /\ OldEnd(r) =< TotalSize
  BY <1>2, <1>3, OldFile
<1>5. from = r.oldStart + (at - t.start) /\ at = t.start + OldWhole
  BY <1>2, <1>3 DEF FilesIInv, CopyOK, TransferIInv, TransferInside
<1>6. r.oldSize > 0
  BY <1>4
<1>7. DataBegin =< from /\ from < TotalSize
  BY <1>1, <1>3, <1>4, <1>5, <1>6, AreaAssumption
<1> QED
  BY <1>1, <1>7, AreaAssumption DEF Area

\* A transfer of a file to be saved takes its next bytes.
LEMMA SaveReads ==
    ASSUME FilesIInv, pc = "save", NEW m \in 1 .. SaveBytes
    PROVE  /\ SaveBytes \in Nat /\ SaveBytes =< left /\ left =< req.size
           /\ req.size - left \in Nat /\ req.size - left + m \in 1 .. req.size
           /\ req.data[req.size - left + m] \in Cell
<1>1. SaveBytes \in Nat /\ SaveBytes =< left /\ left \in Nat
  BY SaveImageOK DEF FilesIInv, TypeOK
<1>2. PICK r \in ReqType : r = req /\ left =< r.size /\ Len(r.data) = r.size
  BY StoredFile DEF Storing, FilesIInv, SaveOK, QueueWanted
<1>3. r.size \in Nat /\ r.data \in Seq(Cell)
  BY DEF ReqType
<1>4. r.size - left \in Nat /\ r.size - left + m \in 1 .. r.size
  BY <1>1, <1>2, <1>3
<1>5. r.data[r.size - left + m] \in Cell
  BY <1>2, <1>3, <1>4
<1> QED
  BY <1>1, <1>2, <1>4, <1>5

\* The sectors a command writes are sectors.
LEMMA ImageTyped ==
    ASSUME FilesIInv, NEW j \in 1 .. Len(Pending.image), Pending.start + j - 1 \in Area
    PROVE  Pending.image[j] \in [1 .. ExtBlock -> Cell]
<1>1. TransferIInv /\ TypeOK /\ Len(Pending.image) \in Nat
  BY PendingOK DEF FilesIInv
<1>2. /\ disk \in [Area -> [1 .. ExtBlock -> Cell]] /\ at \in Nat /\ left \in Nat
      /\ ExtBlock \in Nat
  BY <1>1, BlockAssumption DEF TypeOK
<1>3. /\ \A s \in Area : Mark(s) \in Cell /\ LbaOf(s) \in Cell
      /\ Filler \in Cell /\ Blank \in Cell
  BY DEF Cell
<1>4. CASE pc = "save"
  <2> DEFINE b == BlockOf(Target.start)
  <2>1. /\ Pending.start = at /\ Pending.image = SaveImage
    BY <1>4 DEF Pending
  <2>2. /\ Len(SaveImage) \in Nat /\ Len(SaveImage) = CeilDiv(SaveBytes, b) /\ SaveBytes \in Nat
    BY <1>1, <1>4, SaveImageOK
  <2>3. b \in Nat \ {0}
    BY BlockAssumption DEF BlockOf
  <2>4. ASSUME NEW k \in 1 .. ExtBlock PROVE SaveImage[j][k] \in Cell
    <3>1. j \in 1 .. CeilDiv(SaveBytes, b)
      BY <2>1, <2>2
    <3>2. SaveImage[j][k] = IF k > b THEN Mark(at + j - 1)
                            ELSE IF (j - 1) * b + k =< SaveBytes
                                 THEN req.data[req.size - left + (j - 1) * b + k] ELSE Blank
      BY <3>1 DEF SaveImage
    <3>3. PICK m \in Nat \ {0} : m = (j - 1) * b + k
      <4>1. j - 1 \in Nat /\ (j - 1) * b \in Nat
        BY <1>1, <2>3
      <4> QED
        BY <4>1
    <3>4. ASSUME m =< SaveBytes PROVE req.data[req.size - left + (j - 1) * b + k] \in Cell
      <4>1. m \in 1 .. SaveBytes
        BY <2>2, <3>4
      <4>2. req.data[req.size - left + m] \in Cell /\ req.size - left \in Nat
        BY <1>4, <4>1, SaveReads
      <4>3. PICK z \in Int : z = (j - 1) * b
        BY <1>1, <2>3
      <4>4. req.size - left + (j - 1) * b + k = req.size - left + m
        BY <3>3, <4>2, <4>3
      <4> QED
        BY <4>2, <4>4
    <3> QED
      BY <1>3, <2>1, <3>2, <3>3, <3>4
  <2>5. SaveImage[j] = [k \in 1 .. ExtBlock |-> SaveImage[j][k]]
    BY <2>1, <2>2 DEF SaveImage
  <2> QED
    BY <2>1, <2>4, <2>5
<1>5. CASE pc \in {"copy", "packcopy"}
  <2>1. /\ Pending.start = at /\ Pending.image = CopyImage
    BY <1>5 DEF Pending
  <2>2. Len(CopyImage) = Least(left, GlobBuf) /\ j \in 1 .. left
    <3>1. Least(left, GlobBuf) \in Nat /\ Least(left, GlobBuf) =< left
      BY <1>2, LeastOf, StoreAssumption
    <3>2. Len(CopyImage) = Least(left, GlobBuf)
      BY <3>1 DEF CopyImage
    <3> QED
      BY <1>2, <2>1, <3>1, <3>2
  <2>3. disk[from + j - 1] \in [1 .. ExtBlock -> Cell]
    BY <1>2, <1>5, <2>2, CopyReads
  <2>4. Stamp(disk[from + j - 1], at + j - 1) \in [1 .. ExtBlock -> Cell]
    BY <1>3, <2>1, <2>3 DEF Stamp
  <2> QED
    BY <2>1, <2>2, <2>3, <2>4 DEF CopyImage
<1>6. CASE pc = "tail"
  <2>1. /\ Pending.start = at /\ Pending.image = TailImage
    BY <1>6 DEF Pending
  <2>2. OldRest # 0 /\ j = 1
    <3>1. j \in 1 .. (IF OldRest = 0 THEN 0 ELSE 1)
      BY <2>1 DEF TailImage
    <3> QED
      BY <3>1
  <2>3. disk[from] \in [1 .. ExtBlock -> Cell]
    BY <1>2, <1>6, <2>2, TailReads
  <2>4. at \in Area
    <3>1. at + j - 1 = at
      BY <1>2, <2>2
    <3>2. at + j - 1 \in Area
      BY <2>1
    <3> QED
      BY <3>1, <3>2
  <2>5. PICK old \in [1 .. ExtBlock -> Cell] : old = disk[from]
    BY <2>3
  <2>6. PICK b : b = BlockOf(Target.start)
    OBVIOUS
  <2>7. TailImage[1] = [k \in 1 .. ExtBlock |->
                          IF k > b THEN Mark(at) ELSE IF k =< OldRest THEN old[k] ELSE Filler]
    BY <2>2, <2>5, <2>6 DEF TailImage
  <2>8. Mark(at) \in Cell /\ Filler \in Cell
    BY <1>3, <2>4
  <2>9. TailImage[1] \in [1 .. ExtBlock -> Cell]
    BY <2>7, <2>8
  <2> QED
    BY <2>1, <2>2, <2>9
<1>7. CASE pc = "fill"
  <2>1. /\ Pending.start = at /\ Pending.image = FillImage
    BY <1>7 DEF Pending
  <2>2. j \in 1 .. Least(left, GlobBuf)
    <3>1. Least(left, GlobBuf) \in Nat
      BY <1>2, LeastOf, StoreAssumption
    <3>2. Len(FillImage) = Least(left, GlobBuf)
      BY <3>1 DEF FillImage
    <3> QED
      BY <2>1, <3>2
  <2> QED
    BY <1>3, <2>1, <2>2 DEF FillImage
<1>8. CASE pc = "patch" /\ Patchable
  <2>1. /\ Pending.start = Target.start /\ Pending.image = PatchImage
    BY <1>8 DEF Pending
  <2>2. PICK t \in ItemType : t = Target /\ Extent(t) \subseteq Area /\ t.start \in Nat
                              /\ FileEnd(t) \in Nat /\ FileEnd(t) = t.start + Blocks(t)
                              /\ Blocks(t) \in Nat
    BY <1>8, StoredFile, ItemExtent DEF Storing, FileEnd
  <2>3. Blocks(t) > 2
    BY <1>8, <2>2 DEF Patchable, Blocks, BlockOf
  <2>4. t.start \in Area /\ t.start + 1 \in Area
    BY <2>2, <2>3 DEF Extent
  <2>5. disk[t.start] \in [1 .. ExtBlock -> Cell] /\ disk[t.start + 1] \in [1 .. ExtBlock -> Cell]
    BY <1>2, <2>4
  <2>6. j \in 1 .. 2
    BY <1>1, <1>8, <2>1, PatchImageOK
  <2>7. PatchImage[j] = IF j = 1 THEN [disk[t.start] EXCEPT ![1] = LbaOf(t.start + 1)]
                        ELSE disk[t.start + 1]
    BY <2>2, <2>6 DEF PatchImage
  <2>8. LbaOf(t.start + 1) \in Cell
    BY <1>3, <2>4
  <2>9. [disk[t.start] EXCEPT ![1] = LbaOf(t.start + 1)] \in [1 .. ExtBlock -> Cell]
    BY <2>5, <2>8
  <2> QED
    BY <2>1, <2>5, <2>7, <2>9
<1>9. CASE pc \notin {"save", "copy", "packcopy", "tail", "fill"} /\ ~(pc = "patch" /\ Patchable)
  <2>1. Pending.image = <<>>
    BY <1>9 DEF Pending, NoWrite
  <2> QED
    BY <2>1
<1> QED
  BY <1>4, <1>5, <1>6, <1>7, <1>8, <1>9

\* So is the disk, after a write and after a part of it.
LEMMA DiskTyped ==
    ASSUME FilesIInv, NEW n \in 0 .. Len(Pending.image), disk' = Written(n)
    PROVE  disk' \in [Area -> [1 .. ExtBlock -> Cell]]
<1>1. disk \in [Area -> [1 .. ExtBlock -> Cell]]
  BY DEF FilesIInv, TypeOK
<1>2. Pending.start \in Nat /\ Len(Pending.image) \in Nat
  BY PendingOK DEF FilesIInv
<1>3. ASSUME NEW s \in Area, s \in Pending.start .. Pending.start + n - 1
      PROVE  Pending.image[s - Pending.start + 1] \in [1 .. ExtBlock -> Cell]
  <2>1. PICK j \in 1 .. Len(Pending.image) : j = s - Pending.start + 1
    BY <1>2, <1>3
  <2>2. Pending.start + j - 1 = s
    BY <1>2, <1>3, <2>1
  <2> QED
    BY <1>3, <2>1, <2>2, ImageTyped
<1> QED
  BY <1>1, <1>3 DEF Written

\* A write of the stored file leaves the others as they are wanted.
LEMMA FulfilsKept ==
    ASSUME TransferIInv, Storing, NEW n \in 0 .. Len(Pending.image), disk' = Written(n),
           NEW want, NEW u, req.name \in u, Fulfils(disk, fb_list, want, u)
    PROVE  Fulfils(disk', fb_list, want, u)
<1>1. \A f \in ItemSet(fb_list) : f.name \notin u => ContentAt(disk', f) = ContentAt(disk, f)
  BY OthersSpared
<1> QED
  BY <1>1 DEF Fulfils

-----------------------------------------------------------------------------
(***************************************************************************)
(* Saving a file.                                                          *)
(***************************************************************************)

\* Whole blocks before a byte do not change its place in its block.
LEMMA RemainderShift ==
    ASSUME NEW a \in Nat, NEW g \in Nat, NEW b \in Nat \ {0}
    PROVE  (a + g * b) % b = a % b
<1>1. PICK x \in Nat : x = a + g * b
  <2>1. g * b \in Nat
    OBVIOUS
  <2> QED
    BY <2>1
<1>2. PICK q \in Nat, r \in Nat : q = a \div b /\ r = a % b /\ a = b * q + r
  OBVIOUS
<1>3. x \div b = q + g
  BY <1>1, <1>2, QuotientShift
<1>4. PICK p \in Nat, y \in Nat : p = x \div b /\ y = x % b /\ x = b * p + y
  OBVIOUS
<1>5. b * p = b * q + g * b
  BY <1>2, <1>3, <1>4
<1>6. PICK m \in Nat, n \in Nat : m = b * q /\ n = g * b
  BY <1>2
<1>7. x = a + n /\ a = m + r /\ x = m + n + y
  BY <1>1, <1>2, <1>4, <1>5, <1>6
<1>8. y = r
  BY <1>2, <1>4, <1>6, <1>7
<1> QED
  BY <1>1, <1>2, <1>4, <1>8

\* Whole blocks divide into whole blocks.
LEMMA CeilDivWhole ==
    ASSUME NEW g \in Nat, NEW b \in Nat \ {0}
    PROVE  CeilDiv(g * b, b) = g
<1>1. PICK m \in Nat : m = g * b
  OBVIOUS
<1>2. m - m = 0 /\ m =< m
  OBVIOUS
<1>3. CeilDiv(m - g * b, b) = CeilDiv(m, b) - g
  BY <1>1, <1>2, CeilDivRest
<1>4. CeilDiv(0, b) = 0
  <2>1. b - 1 \in Nat /\ b - 1 < b /\ 0 + b - 1 = b - 1
    OBVIOUS
  <2> QED
    BY <2>1, SmallQuotient DEF CeilDiv
<1>5. CeilDiv(m, b) \in Int
  BY <1>1 DEF CeilDiv
<1> QED
  BY <1>1, <1>2, <1>3, <1>4, <1>5

\* The bytes of the blocks before a block.
LEMMA BlocksBefore ==
    ASSUME NEW i \in Nat \ {0}, NEW a \in Nat, NEW b \in Nat \ {0}, i =< a * b
    PROVE  (i - 1) \div b \in Nat /\ (i - 1) \div b < a
<1> DEFINE q == (i - 1) \div b
<1>1. q \in Nat /\ b * q =< i - 1
  OBVIOUS
<1> HIDE DEF q
<1>2. b * q < b * a
  <2>1. PICK m \in Nat : m = a * b /\ m = b * a
    OBVIOUS
  <2>2. PICK p \in Nat : p = b * q
    BY <1>1
  <2> QED
    BY <1>1, <2>1, <2>2
<1>3. q < a
  BY <1>1, <1>2, ProductLess
<1> QED
  BY <1>1, <1>3 DEF q

\* How far the transfer of a file to be saved has come.
LEMMA SaveProgress ==
    ASSUME FilesIInv, pc = "save", NEW start \in Nat, start = Target.start,
           NEW b, b = BlockOf(start)
    PROVE  /\ b \in Nat \ {0} /\ b =< ExtBlock /\ left \in Nat \ {0} /\ at - start \in Nat
           /\ left =< req.size /\ req.size \in Nat \ {0}
           /\ req.size - left = (at - start) * b
           /\ SaveBytes \in Nat /\ SaveBytes =< left
           /\ Len(SaveImage) \in Nat /\ Len(SaveImage) = CeilDiv(SaveBytes, b)
           /\ Pending.start = at /\ Pending.image = SaveImage
           /\ left - SaveBytes > 0 =>
                 req.size - (left - SaveBytes) = ((at + Len(SaveImage)) - start) * b
<1>1. /\ left \in Nat \ {0} /\ left =< req.size /\ at \in Nat
      /\ req.size - left = (at - start) * b
  BY DEF FilesIInv, TypeOK, SaveOK
<1>2. b \in Nat \ {0} /\ b =< ExtBlock
  BY BlockAssumption DEF BlockOf
<1>3. start =< at /\ at - start \in Nat
  <2>1. start =< at
    BY DEF FilesIInv, TransferIInv, TransferInside
  <2> QED
    BY <1>1, <2>1
<1>4. /\ SaveBytes \in Nat /\ SaveBytes =< left
      /\ Len(SaveImage) \in Nat /\ Len(SaveImage) = CeilDiv(SaveBytes, b)
  BY SaveImageOK DEF FilesIInv
<1>5. Pending.start = at /\ Pending.image = SaveImage
  BY DEF Pending
<1>6. req.size \in Nat \ {0}
  BY StoredFile DEF Storing, ReqType
<1>7. ASSUME left - SaveBytes > 0
      PROVE  req.size - (left - SaveBytes) = ((at + Len(SaveImage)) - start) * b
  <2>1. GlobBuf \in Nat
    BY StoreAssumption
  <2>2. SaveBytes = GlobBuf * b
    BY <1>1, <1>4, <1>7 DEF SaveBytes, Least
  <2>3. Len(SaveImage) = GlobBuf
    BY <1>2, <1>4, <2>1, <2>2, CeilDivWhole
  <2>4. PICK a \in Nat : a = at - start
    BY <1>3
  <2>5. (at + Len(SaveImage)) - start = a + GlobBuf
    BY <1>1, <1>3, <2>1, <2>3, <2>4
  <2>6. (a + GlobBuf) * b = a * b + GlobBuf * b
    BY <1>2, <2>1, <2>4
  <2>7. PICK m \in Nat, p \in Nat : m = a * b /\ p = GlobBuf * b
    BY <1>2, <2>1
  <2>8. req.size - (left - p) = m + p
    BY <1>1, <1>6, <2>4, <2>7
  <2> QED
    BY <2>2, <2>5, <2>6, <2>7, <2>8
<1> QED
  BY <1>1, <1>2, <1>3, <1>4, <1>5, <1>6, <1>7

\* A transfer of a file to be saved adds its bytes to those saved before.
LEMMA SaveGains ==
    ASSUME FilesIInv, pc = "save", disk' = Written(Len(Pending.image)),
           NEW i \in 1 .. req.size - (left - SaveBytes)
    PROVE  ByteAt(disk', Target.start, i) = req.data[i]
<1>1. PICK t \in ItemType : /\ t = Target /\ t.size = req.size /\ Extent(t) \subseteq Area
                            /\ t.start \in Nat
  BY StoredFile, ItemExtent DEF Storing
<1>2. PICK b : b = BlockOf(t.start)
  OBVIOUS
<1>3. /\ b \in Nat \ {0} /\ b =< ExtBlock /\ left \in Nat \ {0} /\ at - t.start \in Nat
      /\ left =< req.size /\ req.size \in Nat \ {0}
      /\ req.size - left = (at - t.start) * b
      /\ SaveBytes \in Nat /\ SaveBytes =< left
      /\ Len(SaveImage) \in Nat /\ Len(SaveImage) = CeilDiv(SaveBytes, b)
      /\ Pending.start = at /\ Pending.image = SaveImage
  BY <1>1, <1>2, SaveProgress
<1>4. PICK a \in Nat : a = at - t.start
  BY <1>3
<1>5. i \in 1 .. t.size /\ i \in Nat \ {0} /\ at \in Nat /\ at = t.start + a
  <2>1. at \in Nat
    BY DEF FilesIInv, TypeOK
  <2>2. PICK l \in Nat, n \in Nat, size \in Nat : /\ l = left /\ n = SaveBytes /\ size = req.size
                                               /\ n =< l /\ l =< size
    BY <1>3
  <2>3. i \in 1 .. size - (l - n)
    BY <2>2
  <2>4. i \in 1 .. size /\ i \in Nat \ {0}
    BY <2>2, <2>3
  <2> QED
    BY <1>1, <1>4, <2>1, <2>2, <2>4
<1>6. /\ BlockIn(t.start, i) \in Nat /\ t.start + BlockIn(t.start, i) \in Area
      /\ BlockIn(t.start, i) = (i - 1) \div b
  BY <1>1, <1>2, <1>5, ByteSector DEF BlockIn
<1>7. TransferIInv
  BY DEF FilesIInv
<1>8. CASE i =< req.size - left
  <2>1. i =< a * b
    BY <1>3, <1>4, <1>8
  <2>2. (i - 1) \div b < a
    <3>1. i \in Nat \ {0} /\ a \in Nat /\ b \in Nat \ {0} /\ i =< a * b
      BY <1>3, <1>4, <1>5, <2>1
    <3> QED
      BY <3>1, BlocksBefore
  <2>3. t.start + BlockIn(t.start, i) \notin PendingExtent
    <3>1. BlockIn(t.start, i) \in Nat /\ BlockIn(t.start, i) < a
      BY <1>6, <2>2
    <3>2. t.start + BlockIn(t.start, i) < at
      BY <1>1, <1>4, <1>5, <3>1
    <3>3. Pending.start = at /\ Len(Pending.image) \in Nat
      BY <1>3
    <3> QED
      BY <1>1, <1>5, <3>1, <3>2, <3>3 DEF PendingExtent
  <2>4. Len(Pending.image) \in 0 .. Len(Pending.image)
    BY <1>3
  <2>5. disk'[t.start + BlockIn(t.start, i)] = disk[t.start + BlockIn(t.start, i)]
    BY <1>6, <1>7, <2>3, <2>4, WriteLeaves
  <2>6. ByteAt(disk', t.start, i) = ByteAt(disk, t.start, i)
    BY <2>5 DEF ByteAt, BlockIn
  <2>7. ByteAt(disk, t.start, i) = req.data[i]
    BY <1>1, <1>3, <1>5, <1>8 DEF FilesIInv, SaveOK
  <2> QED
    BY <1>1, <2>6, <2>7
<1>9. CASE i > req.size - left
  <2>1. PICK m \in 1 .. SaveBytes : i = req.size - left + m
    <3>1. i - (req.size - left) \in 1 .. SaveBytes
      BY <1>3, <1>5, <1>9
    <3> QED
      BY <1>3, <1>5, <3>1
  <2>2. SaveBytes \in Nat \ {0} /\ m - 1 \in Nat
    BY <1>3, <2>1
  <2>3. i - 1 = (m - 1) + a * b
    <3>1. PICK p \in Int : p = a * b /\ p = req.size - left
      BY <1>3, <1>4
    <3> QED
      BY <1>5, <2>1, <3>1
  <2>4. /\ (i - 1) \div b = ((m - 1) \div b) + a
        /\ (i - 1) % b = (m - 1) % b
    <3>1. PICK c \in Nat : c = m - 1
      BY <2>2
    <3>2. b \in Nat \ {0}
      BY <1>3
    <3>3. (c + a * b) \div b = (c \div b) + a
      BY <3>2, QuotientShift
    <3>4. (c + a * b) % b = c % b
      BY <3>2, RemainderShift
    <3> QED
      BY <2>3, <3>1, <3>3, <3>4
  <2>5. PICK q \in Nat, k \in Nat :
          /\ q = (m - 1) \div b /\ k = (m - 1) % b /\ q < CeilDiv(SaveBytes, b)
          /\ k < b /\ m - 1 = b * q + k
    <3>1. /\ (m - 1) \div b \in Nat /\ (m - 1) \div b < CeilDiv(SaveBytes, b)
          /\ (m - 1) % b \in 0 .. b - 1
          /\ m - 1 = b * ((m - 1) \div b) + ((m - 1) % b)
      BY <1>3, <2>1, <2>2, ByteBlock
    <3>2. PICK q \in Nat : q = (m - 1) \div b
      BY <3>1
    <3>3. PICK k \in 0 .. b - 1 : k = (m - 1) % b
      BY <3>1
    <3>4. k \in Nat /\ k < b
      BY <1>3, <3>3
    <3> QED
      BY <3>1, <3>2, <3>3, <3>4
  <2>6. t.start + ((i - 1) \div b) = at + (q + 1) - 1
    BY <1>1, <1>4, <1>5, <2>4, <2>5
  <2>7. q + 1 \in 1 .. Len(SaveImage) /\ k + 1 \in 1 .. ExtBlock /\ ~(k + 1 > b)
    BY <1>3, <2>5, BlockAssumption
  <2>8. at + (q + 1) - 1 \in Area
    BY <1>6, <2>6
  <2>9. disk'[at + (q + 1) - 1] = SaveImage[q + 1]
    BY <1>3, <1>7, <2>7, <2>8, WritePuts
  <2>10. ((q + 1) - 1) * b + (k + 1) = m
    <3>1. (q + 1) - 1 = q /\ q * b = b * q
      BY <1>3
    <3>2. PICK p \in Int : p = b * q
      BY <1>3
    <3>3. m \in Int /\ k \in Int /\ m - 1 = p + k
      BY <2>1, <2>5, <3>2
    <3>4. p + (k + 1) = m
      BY <3>3, <3>2
    <3> QED
      BY <3>1, <3>2, <3>4
  <2>11. SaveImage[q + 1][k + 1] = req.data[req.size - left + m]
    <3>1. q + 1 \in 1 .. CeilDiv(SaveBytes, b)
      BY <1>3, <2>7
    <3>2. SaveImage[q + 1][k + 1]
            = IF k + 1 > b THEN Mark(at + (q + 1) - 1)
              ELSE IF ((q + 1) - 1) * b + (k + 1) =< SaveBytes
                   THEN req.data[req.size - left + ((q + 1) - 1) * b + (k + 1)]
                   ELSE Blank
      BY <1>1, <1>2, <2>7, <3>1 DEF SaveImage
    <3>3. m =< SaveBytes
      BY <1>3, <2>1
    <3>4. PICK z \in Int : z = ((q + 1) - 1) * b
      BY <1>3
    <3>5. req.size - left + z + (k + 1) = req.size - left + m
      <4>1. z + (k + 1) = m
        BY <2>10, <3>4
      <4>2. PICK w \in Int : w = req.size - left
        BY <1>3
      <4>3. m \in Int
        BY <1>3, <2>1
      <4>4. k + 1 \in Int
        BY <2>5
      <4>5. w + z + (k + 1) = w + m
        <5>1. PICK v \in Int : v = k + 1
          BY <4>4
        <5>2. z + v = m /\ z \in Int /\ w \in Int /\ m \in Int
          BY <3>4, <4>1, <4>2, <4>3, <5>1
        <5>3. w + z + v = w + m
          BY <5>2
        <5> QED
          BY <5>1, <5>3
      <4> QED
        BY <3>4, <4>2, <4>5
    <3> QED
      BY <2>7, <2>10, <3>2, <3>3, <3>4, <3>5
  <2>12. ByteAt(disk', t.start, i) = disk'[at + (q + 1) - 1][k + 1]
    BY <1>2, <2>4, <2>5, <2>6 DEF ByteAt
  <2> QED
    BY <1>1, <2>1, <2>9, <2>11, <2>12
<1> QED
  BY <1>3, <1>5, <1>8, <1>9

\* A file is stored: load_archive goes on with its next item, the other
\* commands commit.
LEMMA FilesNextItem ==
    ASSUME FilesIInv, TransferIInv', Storing, NextItem(pc'), pc' \in {"alloc", "commit"},
           disk' \in [Area -> [1 .. ExtBlock -> Cell]], goal' = goal, ncmd' = ncmd,
           from' \in Nat, idx' \in Nat, req.kind = "save",
           NamesOf(fb_list') = NamesOf(fb_list),
           \A f \in ItemSet(fb_list') :
               IF f.name = req.name THEN ContentAt(disk', f) = Saved(req)
               ELSE f \in ItemSet(fb_list) /\ ContentAt(disk', f) = ContentAt(disk, f)
    PROVE  FilesIInv'
<1>1. /\ QueueWanted /\ LayoutIInv /\ TypeOK /\ queue \in QueueType
      /\ Fulfils(disk, fb_list, goal.want, Unfinished)
  BY DEF FilesIInv, TransferIInv, LayoutIInv, Storing
<1>2. PICK m \in Nat : m = Len(queue)
  BY <1>1 DEF QueueType
<1>3. PICK names : names = {queue[k].name : k \in 1 .. m}
  OBVIOUS
<1>4. PICK want : want = goal.want /\ goal'.want = want
  OBVIOUS
<1>5. PICK r \in ReqType : r = req /\ r.name \in NamesOf(fb_list)
  BY <1>1 DEF QueueWanted, LayoutIInv
<1>6. Unfinished = {r.name} \union names
  BY <1>2, <1>3, <1>5 DEF Unfinished
<1>7. r.name \notin names => want[r.name] = Saved(r)
  BY <1>1, <1>2, <1>3, <1>4, <1>5 DEF QueueWanted
<1>8. Fulfils(disk', fb_list', want, names)
  <2>1. DOMAIN want = NamesOf(fb_list') \union names /\ want = [n \in DOMAIN want |-> want[n]]
    BY <1>1, <1>4, <1>5, <1>6 DEF Fulfils
  <2>2. ASSUME NEW f \in ItemSet(fb_list'), f.name \notin names
        PROVE  want[f.name] = ContentAt(disk', f)
    <3>1. CASE f.name = r.name
      BY <1>5, <1>7, <2>2, <3>1
    <3>2. CASE f.name # r.name
      <4>1. f \in ItemSet(fb_list) /\ ContentAt(disk', f) = ContentAt(disk, f)
        BY <1>5, <3>2
      <4>2. f.name \notin Unfinished
        BY <1>6, <2>2, <3>2
      <4> QED
        BY <1>1, <1>4, <4>1, <4>2 DEF Fulfils
    <3> QED
      BY <3>1, <3>2
  <2> QED
    BY <2>1, <2>2 DEF Fulfils
<1>9. goal'.phase = "busy"
  BY DEF FilesIInv, Storing
<1>10. CASE queue = <<>>
  <2>1. pc' = "commit" /\ req' = req
    BY <1>10 DEF NextItem
  <2>2. names = {}
    BY <1>2, <1>3, <1>10
  <2>3. TypeOK'
    BY <1>1, <2>1, TypeStep DEF TypeOK
  <2> QED
    BY <1>4, <1>8, <1>9, <2>1, <2>2, <2>3, FilesCommits
<1>11. CASE queue # <<>>
  <2>1. pc' = "alloc" /\ req' = ItemReq(Head(queue)) /\ queue' = Tail(queue)
    BY <1>11 DEF NextItem
  <2>2. /\ m \in Nat \ {0} /\ Head(queue) = queue[1] /\ Len(queue') = m - 1
        /\ \A k \in 1 .. m - 1 : queue'[k] = queue[k + 1]
    BY <1>1, <1>2, <1>11, <2>1, HeadTailProperties DEF QueueType
  <2>3. PICK e : e = queue[1]
    OBVIOUS
  <2>4. /\ e.name \in Names /\ e.data \in Seq(Bytes) \ {<<>>}
        /\ e.ext \in BOOLEAN /\ e.sys \in BOOLEAN
    <3>1. PICK R : R = [name : Names, data : Seq(Bytes) \ {<<>>}, ext : BOOLEAN, sys : BOOLEAN]
      OBVIOUS
    <3>2. queue \in Seq(R) /\ 1 \in 1 .. Len(queue)
      BY <1>1, <1>2, <2>2, <3>1 DEF QueueType
    <3>3. queue[1] \in R
      BY <3>2
    <3> QED
      BY <2>3, <3>1, <3>3
  <2>5. PICK q : q = req' /\ q = SaveReq(e.name, e.data, e.ext, e.sys)
    BY <2>1, <2>2, <2>3 DEF ItemReq
  <2>6. Saved(q) = FS!Patched(e.data, e.sys) /\ e.data \in Seq(Cell) /\ Len(e.data) \in Nat \ {0}
    BY <2>4, <2>5, SavedPatched
  <2>7. q \in ReqType /\ q.kind = "save" /\ q.name = e.name /\ Len(q.data) = q.size
    BY <2>4, <2>5, <2>6 DEF SaveReq, ReqType
  <2>8. TypeOK'
    BY <1>1, <2>1, <2>5, <2>7, TypeStep DEF TypeOK
  <2>9. {req'.name} \union {queue'[k].name : k \in 1 .. Len(queue')} = names
    <3>1. \A i \in 1 .. m : i = 1 \/ (i - 1 \in 1 .. m - 1 /\ queue[i] = queue'[i - 1])
      BY <2>2
    <3>2. \A k \in 1 .. m - 1 : k + 1 \in 1 .. m /\ queue'[k] = queue[k + 1]
      BY <2>2
    <3>3. 1 \in 1 .. m /\ req'.name = queue[1].name /\ Len(queue') = m - 1
      BY <2>2, <2>3, <2>5, <2>7
    <3>4. ASSUME NEW n \in names PROVE n \in {req'.name} \union {queue'[k].name : k \in 1 .. Len(queue')}
      <4>1. PICK i \in 1 .. m : n = queue[i].name
        BY <1>3
      <4> QED
        BY <3>1, <3>3, <4>1
    <3>5. ASSUME NEW n \in {req'.name} \union {queue'[k].name : k \in 1 .. Len(queue')} PROVE n \in names
      <4>1. PICK i \in 1 .. m : n = queue[i].name
        BY <3>2, <3>3, <3>5
      <4> QED
        BY <1>3, <4>1
    <3> QED
      BY <3>4, <3>5
  <2>10. \A k \in 1 .. m :
            (\A j \in k + 1 .. m : queue[j].name # queue[k].name)
               => want[queue[k].name] = FS!Patched(queue[k].data, queue[k].sys)
    BY <1>1, <1>2, <1>4 DEF QueueWanted
  <2>11. QueueWanted'
    <3>1. ASSUME NEW k \in 1 .. m - 1, \A j \in k + 1 .. m - 1 : queue'[j].name # queue'[k].name
          PROVE  want[queue'[k].name] = FS!Patched(queue'[k].data, queue'[k].sys)
      <4>1. k + 1 \in 1 .. m /\ queue'[k] = queue[k + 1]
        BY <2>2
      <4>2. \A j \in (k + 1) + 1 .. m : queue[j].name # queue[k + 1].name
        <5> TAKE j \in (k + 1) + 1 .. m
        <5>1. j - 1 \in k + 1 .. m - 1 /\ j - 1 \in 1 .. m - 1 /\ (j - 1) + 1 = j
          OBVIOUS
        <5>2. queue'[j - 1] = queue[j]
          BY <2>2, <5>1
        <5> QED
          BY <3>1, <4>1, <5>1, <5>2
      <4>3. want[queue[k + 1].name] = FS!Patched(queue[k + 1].data, queue[k + 1].sys)
        BY <2>10, <4>1, <4>2
      <4> QED
        BY <4>1, <4>3
    <3>2. ASSUME \A j \in 1 .. m - 1 : queue'[j].name # q.name
          PROVE  want[q.name] = Saved(q)
      <4>1. 1 \in 1 .. m /\ \A j \in 1 + 1 .. m : queue[j].name # queue[1].name
        <5>1. ASSUME NEW j \in 2 .. m PROVE queue[j].name # queue[1].name
          <6>1. j - 1 \in 1 .. m - 1 /\ queue'[j - 1] = queue[j]
            BY <2>2
          <6> QED
            BY <2>3, <2>7, <3>2, <6>1
        <5> QED
          BY <2>2, <5>1
      <4>2. want[queue[1].name] = FS!Patched(queue[1].data, queue[1].sys)
        BY <2>10, <4>1
      <4> QED
        BY <2>3, <2>6, <2>7, <4>2
    <3>3. Len(queue') = m - 1 /\ req' = q /\ goal'.want = want
      BY <1>4, <2>2, <2>5
    <3> QED
      BY <2>7, <3>1, <3>2, <3>3 DEF QueueWanted, Saved, Masked
  <2>12. AllocOK'
    BY <2>5, <2>7 DEF AllocOK
  <2>13. Fulfils(disk', fb_list', goal'.want,
                 {req'.name} \union {queue'[k].name : k \in 1 .. Len(queue')})
    BY <1>4, <1>8, <2>9
  <2> QED
    BY <1>9, <2>1, <2>8, <2>11, <2>12, <2>13, FilesAllocates
<1> QED
  BY <1>10, <1>11

LEMMA FilesSave == FilesIInv /\ TransferIInv' /\ SaveChunk => FilesIInv'
<1> SUFFICES ASSUME FilesIInv, TransferIInv', SaveChunk PROVE FilesIInv'
  OBVIOUS
<1>1. /\ pc = "save" /\ Storing /\ TransferIInv /\ TypeOK
      /\ left' = left - SaveBytes /\ at' = at + Len(SaveImage)
      /\ disk' = Written(Len(Pending.image))
      /\ UNCHANGED <<dlist, fb_list, goal, ncmd, from, idx>>
  BY DEF SaveChunk, Transfer, FilesIInv, Storing
<1>2. PICK r \in ReqType : /\ r = req /\ r.kind = "save" /\ Len(r.data) = r.size
                           /\ r.sys \in BOOLEAN
  BY <1>1, StoredFile DEF FilesIInv, SaveOK, QueueWanted, ReqType
<1>3. PICK t \in ItemType : /\ t = Target /\ t.name = r.name /\ t.size = r.size
                            /\ t.start \in Nat /\ t \in ItemSet(fb_list)
  BY <1>1, <1>2, StoredFile, ItemExtent
<1>4. /\ left \in Nat \ {0} /\ left =< r.size /\ r.size \in Nat \ {0}
      /\ SaveBytes \in Nat /\ SaveBytes =< left
      /\ left - SaveBytes > 0 =>
            r.size - (left - SaveBytes) = ((at + Len(SaveImage)) - t.start) * BlockOf(t.start)
  BY <1>1, <1>2, <1>3, SaveProgress
<1>5. Len(Pending.image) \in 0 .. Len(Pending.image)
  <2>1. Len(Pending.image) \in Nat
    BY <1>1, PendingOK
  <2> QED
    BY <2>1
<1>6. disk' \in [Area -> [1 .. ExtBlock -> Cell]]
  BY <1>1, <1>5, DiskTyped
<1>7. \A i \in 1 .. r.size - left' : ByteAt(disk', t.start, i) = r.data[i]
  BY <1>1, <1>2, <1>3, SaveGains
<1>8. left' \in Nat /\ left' =< r.size
  BY <1>1, <1>4
<1>9. CASE pc' \in {"save", "patch"} /\ UNCHANGED <<req, queue>>
  <2>1. Unfinished' = Unfinished /\ req.name \in Unfinished
    BY <1>1, <1>9 DEF Unfinished, Storing
  <2>2. Fulfils(disk', fb_list', goal'.want, Unfinished')
    <3>1. Fulfils(disk, fb_list, goal.want, Unfinished)
      BY <1>1 DEF FilesIInv
    <3>2. Fulfils(disk', fb_list, goal.want, Unfinished)
      BY <1>1, <1>5, <2>1, <3>1, FulfilsKept
    <3> QED
      BY <1>1, <2>1, <3>2
  <2>3. Target' = t
    BY <1>1, <1>3, <1>9 DEF Target
  <2>4. TypeOK'
    BY <1>1, <1>2, <1>6, <1>9, TypeStep DEF TypeOK
  <2>5. QueueWanted'
    BY <1>1, <1>9 DEF QueueWanted, FilesIInv
  <2>6. IF pc' = "save" THEN left' > 0 ELSE left' = 0 /\ r.sys
    <3>1. \/ left' > 0 /\ pc' = "save"
          \/ ~(left' > 0) /\ req.sys /\ pc' = "patch"
          \/ \E next : NextItem(next) /\ pc' = next
      BY DEF SaveChunk, Transfer
    <3>2. \/ left' > 0 /\ pc' = "save"
          \/ ~(left' > 0) /\ req.sys /\ pc' = "patch"
          \/ pc' \in {"commit", "alloc"}
      BY <3>1 DEF NextItem
    <3>3. ~(left' > 0) => left' = 0
      BY <1>8
    <3> QED
      BY <1>2, <1>9, <3>2, <3>3
  <2>7. left' > 0 => r.size - left' = (at' - t.start) * BlockOf(t.start)
    <3> DEFINE P(l, a) == l > 0 => r.size - l = (a - t.start) * BlockOf(t.start)
    <3>1. P(left - SaveBytes, at + Len(SaveImage))
      BY <1>4
    <3> HIDE DEF P
    <3>2. P(left', at')
      BY <1>1, <3>1
    <3> QED
      BY <3>2 DEF P
  <2>8. SaveOK'
    BY <1>2, <1>7, <1>8, <1>9, <2>3, <2>6, <2>7 DEF SaveOK
  <2>9. goal'.phase = "busy"
    BY <1>1 DEF FilesIInv
  <2> QED
    BY <1>9, <2>2, <2>4, <2>5, <2>8, <2>9
       DEF FilesIInv, AllocOK, CopyOK, FillOK, PackOK, Storing
<1>10. CASE pc' \in {"alloc", "commit"} /\ NextItem(pc') /\ left' = 0 /\ ~req.sys
  <2>1. ContentAt(disk', t) = Saved(r)
    <3>1. \A i \in 1 .. t.size : ByteAt(disk', t.start, i) = r.data[i]
      <4>1. r.size - left' = t.size
        BY <1>3, <1>4, <1>10
      <4> QED
        BY <1>7, <4>1
    <3> QED
      BY <1>2, <1>3, <1>10, <3>1 DEF ContentAt, Saved
  <2>2. ASSUME NEW f \in ItemSet(fb_list')
        PROVE  IF f.name = req.name THEN ContentAt(disk', f) = Saved(req)
               ELSE f \in ItemSet(fb_list) /\ ContentAt(disk', f) = ContentAt(disk, f)
    <3>1. f \in ItemSet(fb_list)
      BY <1>1
    <3>2. CASE f.name = req.name
      <4>1. f = t
        <5>1. fb_list \in Seq(ItemType) /\ LayoutOK(fb_list)
          BY <1>1 DEF TransferIInv, LayoutIInv, LayoutInv
        <5>2. f = t \/ f.name # t.name
          BY <1>3, <3>1, <5>1, ItemsApart
        <5> QED
          BY <1>2, <1>3, <3>2, <5>2
      <4> QED
        BY <1>2, <2>1, <3>2, <4>1
    <3>3. CASE f.name # req.name
      <4>1. ContentAt(disk', f) = ContentAt(disk, f)
        BY <1>1, <1>5, <3>1, <3>3, OthersSpared
      <4> QED
        BY <3>1, <3>3, <4>1
    <3> QED
      BY <3>2, <3>3
  <2>3. from' \in Nat /\ idx' \in Nat /\ ncmd' = ncmd /\ NamesOf(fb_list') = NamesOf(fb_list)
    BY <1>1 DEF TypeOK
  <2> QED
    BY <1>1, <1>2, <1>6, <1>10, <2>2, <2>3, FilesNextItem
<1>11. left' > 0 \/ left' = 0
  BY <1>8
<1> QED
  BY <1>9, <1>10, <1>11 DEF SaveChunk, Transfer, NextItem

\* syslinux_patch: the first byte says where the file lies.
LEMMA PatchShows ==
    ASSUME FilesIInv, pc = "patch", Patchable, disk' = Written(Len(Pending.image))
    PROVE  ContentAt(disk', Target) = Saved(req)
<1>1. TransferIInv /\ Storing /\ left = 0 /\ req.sys /\ TypeOK
  BY DEF FilesIInv, SaveOK, Storing
<1>2. PICK t \in ItemType : /\ t = Target /\ t.size = req.size /\ Extent(t) \subseteq Area
                            /\ t.start \in Nat /\ FileEnd(t) \in Nat
                            /\ Blocks(t) \in Nat /\ FileEnd(t) = t.start + Blocks(t)
                            /\ t.size \in Nat \ {0}
  BY <1>1, StoredFile, ItemExtent DEF FileEnd
<1>3. BlockOf(t.start) = ExtBlock /\ Blocks(t) > 2
  BY <1>2 DEF Patchable, Blocks, BlockOf
<1>4. PICK s \in Area : s = t.start /\ s \in Nat /\ s + 1 \in Area
  BY <1>2, <1>3 DEF Extent
<1>5. Pending.start = s /\ Pending.image = PatchImage /\ Len(PatchImage) = 2
  BY <1>1, <1>2, <1>4, PatchImageOK DEF Pending
<1>6. disk[s] \in [1 .. ExtBlock -> Cell] /\ ExtBlock \in Nat \ {0}
  BY <1>1, <1>4, BlockAssumption DEF TypeOK
<1>7. /\ PatchImage[1] = [disk[s] EXCEPT ![1] = LbaOf(s + 1)]
      /\ PatchImage[2] = disk[s + 1]
  BY <1>2, <1>4 DEF PatchImage
<1>8. /\ disk'[s] = PatchImage[1] /\ disk'[s + 1] = PatchImage[2]
  <2>1. 1 \in 1 .. Len(Pending.image) /\ 2 \in 1 .. Len(Pending.image)
    BY <1>5
  <2>2. s + 1 - 1 = s /\ s + 2 - 1 = s + 1
    BY <1>4
  <2> QED
    BY <1>1, <1>4, <1>5, <2>1, <2>2, WritePuts
<1>9. /\ disk'[s][1] = LbaOf(s + 1)
      /\ \A k \in 1 .. ExtBlock : k # 1 => disk'[s][k] = disk[s][k]
  BY <1>6, <1>7, <1>8
<1>10. \A x \in Area : x # s => disk'[x] = disk[x]
  <2> TAKE x \in Area
  <2>1. x \in Nat
    BY AreaAssumption DEF Area
  <2>2. x # s /\ x # s + 1 => x \notin PendingExtent
    BY <1>4, <1>5, <2>1 DEF PendingExtent
  <2>3. Len(Pending.image) \in 0 .. Len(Pending.image)
    BY <1>5
  <2> QED
    BY <1>1, <1>7, <1>8, <2>2, <2>3, WriteLeaves
<1>11. ASSUME NEW i \in 1 .. t.size
       PROVE  Masked(ByteAt(disk', s, i)) = IF i = 1 THEN Lba ELSE Masked(req.data[i])
  <2>1. PICK q \in Nat, k \in 1 .. ExtBlock :
          /\ q = (i - 1) \div ExtBlock /\ k = ((i - 1) % ExtBlock) + 1
          /\ i - 1 = ExtBlock * q + (k - 1) /\ s + q \in Area
    <3>1. /\ BlockIn(s, i) \in Nat /\ (i - 1) % ExtBlock \in 0 .. ExtBlock - 1
          /\ BlockIn(s, i) = (i - 1) \div ExtBlock
          /\ i - 1 = ExtBlock * ((i - 1) \div ExtBlock) + ((i - 1) % ExtBlock)
      BY <1>2, <1>3, <1>4, BlockInFile DEF BlockIn
    <3>2. s + BlockIn(s, i) \in Area
      BY <1>2, <1>4, ByteSector
    <3>3. PICK q \in Nat : q = (i - 1) \div ExtBlock
      BY <3>1
    <3>4. PICK m \in 0 .. ExtBlock - 1 : m = (i - 1) % ExtBlock
      BY <3>1
    <3>5. m + 1 \in 1 .. ExtBlock /\ (m + 1) - 1 = m
      BY <1>6, <3>4
    <3> QED
      BY <3>1, <3>2, <3>3, <3>4, <3>5
  <2>2. ByteAt(disk', s, i) = disk'[s + q][k] /\ ByteAt(disk, s, i) = disk[s + q][k]
    BY <1>2, <1>3, <1>4, <2>1 DEF ByteAt
  <2>3. ByteAt(disk, s, i) = req.data[i]
    BY <1>1, <1>2, <1>4 DEF FilesIInv, SaveOK
  <2>4. CASE i = 1
    <3>1. q = 0 /\ k = 1
      <4>1. i - 1 = 0 /\ ExtBlock \in Nat \ {0} /\ 0 < ExtBlock
        BY <1>6, <2>4
      <4>2. 0 \div ExtBlock = 0 /\ 0 % ExtBlock = 0
        BY <4>1, SmallQuotient
      <4> QED
        BY <2>1, <4>1, <4>2
    <3>2. s + q = s
      BY <1>4, <3>1
    <3>3. Masked(LbaOf(s + 1)) = Lba
      BY <1>4, InputShown
    <3> QED
      BY <1>9, <2>2, <2>4, <3>1, <3>2, <3>3
  <2>5. CASE i # 1
    <3>1. CASE q = 0
      <4>1. ExtBlock * q = 0
        BY <1>6, <3>1
      <4>2. k # 1 /\ s + q = s
        BY <1>4, <2>1, <2>5, <3>1, <4>1
      <4> QED
        BY <1>9, <2>2, <2>3, <2>5, <4>2
    <3>2. CASE q # 0
      <4>1. s + q # s
        BY <1>4, <3>2
      <4> QED
        BY <1>10, <2>1, <2>2, <2>3, <2>5, <4>1
    <3> QED
      BY <3>1, <3>2
  <2> QED
    BY <2>4, <2>5
<1> QED
  BY <1>1, <1>2, <1>4, <1>11 DEF ContentAt, Saved

LEMMA FilesPatch == FilesIInv /\ TransferIInv' /\ SyslinuxPatch => FilesIInv'
<1> SUFFICES ASSUME FilesIInv, TransferIInv', SyslinuxPatch PROVE FilesIInv'
  OBVIOUS
<1>1. /\ pc = "patch" /\ Patchable /\ Storing /\ TransferIInv /\ TypeOK
      /\ pc' \in {"alloc", "commit"} /\ NextItem(pc')
      /\ fb_list' = [fb_list EXCEPT ![Position(fb_list, req.name)].sys = TRUE]
      /\ disk' = Written(Len(Pending.image))
      /\ UNCHANGED <<dlist, goal, ncmd, from, idx>>
  BY DEF SyslinuxPatch, Transfer, FilesIInv, Storing
<1>2. PICK r \in ReqType : r = req /\ r.kind = "save"
  BY <1>1, StoredFile DEF FilesIInv, SaveOK
<1>3. fb_list \in Seq(ItemType) /\ LayoutOK(fb_list) /\ LayoutIInv
  BY <1>1 DEF TransferIInv, LayoutIInv, LayoutInv
<1>4. PICK p \in 1 .. Len(fb_list) :
        p = Position(fb_list, r.name) /\ fb_list[p] = Target /\ fb_list[p].name = r.name
  BY <1>1, <1>2, <1>3, TargetItem
<1>5. PICK t \in ItemType : t = Target /\ t = fb_list[p] /\ t.name = r.name
  BY <1>1, <1>2, <1>4, StoredFile
<1>6. PICK g \in ItemType : /\ g = [t EXCEPT !.sys = TRUE]
                            /\ g.start = t.start /\ g.size = t.size /\ g.name = t.name
  <2>1. /\ [t EXCEPT !.sys = TRUE] \in ItemType
        /\ [t EXCEPT !.sys = TRUE].start = t.start /\ [t EXCEPT !.sys = TRUE].size = t.size
        /\ [t EXCEPT !.sys = TRUE].name = t.name
    BY DEF ItemType
  <2> QED
    BY <2>1
<1>7. PICK new \in Seq(ItemType) :
        /\ new = fb_list' /\ Len(new) = Len(fb_list) /\ new[p] = g
        /\ \A j \in 1 .. Len(fb_list) : j # p => new[j] = fb_list[j]
  <2>1. fb_list' = [fb_list EXCEPT ![p] = g]
    BY <1>1, <1>2, <1>4, <1>5, <1>6
  <2>2. /\ [fb_list EXCEPT ![p] = g] \in Seq(ItemType)
        /\ Len([fb_list EXCEPT ![p] = g]) = Len(fb_list)
        /\ [fb_list EXCEPT ![p] = g][p] = g
        /\ \A j \in 1 .. Len(fb_list) : j # p => [fb_list EXCEPT ![p] = g][j] = fb_list[j]
    BY <1>3
  <2> QED
    BY <2>1, <2>2
<1>8. /\ ItemSet(new) = (ItemSet(fb_list) \ {t}) \union {g}
      /\ NamesOf(new) = (NamesOf(fb_list) \ {t.name}) \union {g.name}
  BY <1>3, <1>5, <1>7, ExceptItems
<1>9. NamesOf(fb_list') = NamesOf(fb_list)
  <2>1. t.name \in NamesOf(fb_list)
    BY <1>4, <1>5 DEF NamesOf
  <2> QED
    BY <1>6, <1>7, <1>8, <2>1
<1>10. Len(Pending.image) \in 0 .. Len(Pending.image)
  <2>1. Len(Pending.image) \in Nat
    BY <1>1, PendingOK
  <2> QED
    BY <2>1
<1>11. disk' \in [Area -> [1 .. ExtBlock -> Cell]]
  BY <1>1, <1>10, DiskTyped
<1>12. ContentAt(disk', g) = Saved(r)
  <2>1. ContentAt(disk', t) = Saved(r)
    BY <1>1, <1>2, <1>5, PatchShows
  <2> QED
    BY <1>6, <2>1 DEF ContentAt
<1>13. ASSUME NEW f \in ItemSet(fb_list')
       PROVE  IF f.name = req.name THEN ContentAt(disk', f) = Saved(req)
              ELSE f \in ItemSet(fb_list) /\ ContentAt(disk', f) = ContentAt(disk, f)
  <2>1. CASE f = g
    BY <1>2, <1>5, <1>6, <1>12, <2>1
  <2>2. CASE f \in ItemSet(fb_list) /\ f # t
    <3>1. t \in ItemSet(fb_list)
      BY <1>5, StoredFile, <1>1
    <3>2. f.name # r.name
      BY <1>3, <1>5, <2>2, <3>1, ItemsApart
    <3>3. ContentAt(disk', f) = ContentAt(disk, f)
      BY <1>1, <1>2, <1>10, <2>2, <3>2, OthersSpared
    <3> QED
      BY <1>2, <2>2, <3>2, <3>3
  <2> QED
    BY <1>7, <1>8, <2>1, <2>2
<1>14. from' \in Nat /\ idx' \in Nat
  BY <1>1 DEF TypeOK
<1> QED
  BY <1>1, <1>2, <1>9, <1>11, <1>13, <1>14, FilesNextItem

-----------------------------------------------------------------------------
(***************************************************************************)
(* Copying sectors, for a copy and for pack.                               *)
(***************************************************************************)

\* The pending write of copy_disk.
LEMMA CopyPending ==
    ASSUME FilesIInv, pc \in {"copy", "packcopy"}
    PROVE  /\ Pending.start = at /\ Pending.image = CopyImage
           /\ Len(CopyImage) \in Nat /\ Len(CopyImage) =< left
           /\ Len(Pending.image) \in 0 .. Len(Pending.image)
           /\ at \in Nat /\ left \in Nat /\ from \in Nat
           /\ \A j \in 1 .. Len(CopyImage) :
                 CopyImage[j] = IF InPrimary(at) THEN Stamp(disk[from + j - 1], at + j - 1)
                                ELSE disk[from + j - 1]
<1>1. at \in Nat /\ left \in Nat /\ from \in Nat
  BY DEF FilesIInv, TypeOK
<1>2. Pending.start = at /\ Pending.image = CopyImage
  BY DEF Pending
<1>3. Len(CopyImage) \in Nat /\ Len(CopyImage) =< left
  BY CopyImageOK DEF FilesIInv
<1>4. Len(CopyImage) = Least(left, GlobBuf)
  BY <1>1, LeastOf, StoreAssumption DEF CopyImage
<1>5. \A j \in 1 .. Len(CopyImage) :
         CopyImage[j] = IF InPrimary(at) THEN Stamp(disk[from + j - 1], at + j - 1)
                        ELSE disk[from + j - 1]
  BY <1>4 DEF CopyImage
<1> QED
  BY <1>1, <1>2, <1>3, <1>5

\* A transfer moves the next blocks of a file that is halfway between its old
\* place and its new one, and spoils none it has still to read.
LEMMA CopyMoves ==
    ASSUME FilesIInv, pc \in {"copy", "packcopy"}, disk' = Written(Len(Pending.image)),
           NEW base \in Nat, NEW old \in Nat, NEW content, NEW size \in Nat, NEW done \in Nat,
           at = base + done, from = old + done,
           Halfway(disk, content, size, base, old, done),
           InPrimary(base) <=> InPrimary(old),
           \A s \in base .. at + Len(CopyImage) - 1 : s \in Area,
           \A i \in 1 .. size : old + BlockIn(old, i) \in Area,
           base =< old \/ \A i \in 1 .. size : old + BlockIn(old, i) < base
    PROVE  Halfway(disk', content, size, base, old, done + Len(CopyImage))
<1>1. PICK n \in Nat : /\ n = Len(CopyImage) /\ n = Len(Pending.image) /\ n \in 0 .. n
                       /\ Pending.start = at /\ Pending.image = CopyImage /\ at \in Nat
                       /\ \A j \in 1 .. n :
                             CopyImage[j] = IF InPrimary(at)
                                            THEN Stamp(disk[from + j - 1], at + j - 1)
                                            ELSE disk[from + j - 1]
  BY CopyPending
<1>2. TransferIInv
  BY DEF FilesIInv
<1>3. PICK b \in Nat \ {0} : b = BlockOf(old) /\ b = BlockOf(base) /\ b =< ExtBlock
  BY BlockAssumption DEF BlockOf
<1>4. \A s \in Area : s \in Nat /\ ((s < at \/ at + n =< s) => disk'[s] = disk[s])
  <2> TAKE s \in Area
  <2>1. s \in Nat
    BY AreaAssumption DEF Area
  <2>2. s < at \/ at + n =< s => s \notin PendingExtent
    BY <1>1, <2>1 DEF PendingExtent
  <2> QED
    BY <1>1, <1>2, <2>1, <2>2, WriteLeaves
<1>5. \A j \in 1 .. n : at + j - 1 \in Area => disk'[at + j - 1] = CopyImage[j]
  BY <1>1, <1>2, WritePuts
<1>6. ASSUME NEW i \in 1 .. size
      PROVE  content[i] = Masked(ByteAt(disk', IF BlockIn(old, i) < done + n THEN base ELSE old, i))
  <2>1. PICK q \in Nat : q = BlockIn(old, i)
    BY BlockInFile
  <2>2. PICK k \in 1 .. b : k = ((i - 1) % b) + 1
    <3>1. (i - 1) % b \in 0 .. b - 1
      BY <1>3, BlockInFile
    <3>2. PICK m \in 0 .. b - 1 : m = (i - 1) % b
      BY <3>1
    <3>3. m + 1 \in 1 .. b
      BY <1>3, <3>2
    <3> QED
      BY <3>2, <3>3
  <2>3. q = (i - 1) \div b
    BY <1>3, <2>1 DEF BlockIn
  <2>4. /\ ByteAt(disk, old, i) = disk[old + q][k] /\ ByteAt(disk, base, i) = disk[base + q][k]
        /\ ByteAt(disk', old, i) = disk'[old + q][k] /\ ByteAt(disk', base, i) = disk'[base + q][k]
    BY <1>3, <2>2, <2>3 DEF ByteAt
  <2>5. content[i] = Masked(ByteAt(disk, IF q < done THEN base ELSE old, i))
    BY <2>1 DEF Halfway
  <2>6. old + q \in Area
    BY <2>1
  <2>7. CASE q < done
    <3>1. base + q \in base .. at + n - 1 /\ base + q < at /\ q < done + n
      BY <1>1, <2>7
    <3>2. disk'[base + q] = disk[base + q]
      BY <1>1, <1>4, <3>1
    <3> QED
      BY <2>1, <2>4, <2>5, <2>7, <3>1, <3>2
  <2>8. CASE done =< q /\ q < done + n
    <3>1. PICK j \in 1 .. n : j = q - done + 1
      BY <1>1, <2>8
    <3>2. base + q = at + j - 1 /\ old + q = from + j - 1 /\ base + q \in base .. at + n - 1
      BY <1>1, <2>8, <3>1
    <3>3. disk'[base + q] = IF InPrimary(at) THEN Stamp(disk[old + q], base + q) ELSE disk[old + q]
      <4>1. disk'[at + j - 1] = IF InPrimary(at) THEN Stamp(disk[from + j - 1], at + j - 1)
                                ELSE disk[from + j - 1]
        BY <1>1, <1>5, <3>1, <3>2
      <4> QED
        BY <3>2, <4>1
    <3>4. disk'[base + q][k] = disk[old + q][k]
      <4>1. CASE InPrimary(at)
        <5>1. InPrimary(base)
          BY <1>1, <4>1, AreaAssumption DEF InPrimary
        <5>2. b = PriBlock
          BY <1>3, <5>1 DEF BlockOf
        <5>3. k \in 1 .. ExtBlock /\ ~(k > PriBlock)
          BY <1>3, <2>2, <5>2, BlockAssumption
        <5> QED
          BY <3>3, <4>1, <5>3 DEF Stamp
      <4>2. CASE ~InPrimary(at)
        BY <3>3, <4>2
      <4> QED
        BY <4>1, <4>2
    <3>5. ~(q < done)
      BY <2>8
    <3> QED
      BY <1>1, <2>1, <2>4, <2>5, <2>8, <3>4, <3>5
  <2>9. CASE done + n =< q
    <3>1. old + q < at \/ at + n =< old + q
      <4>1. CASE base =< old
        BY <1>1, <2>9, <4>1
      <4>2. CASE \A ii \in 1 .. size : old + BlockIn(old, ii) < base
        <5>1. old + q < base
          BY <2>1, <4>2
        <5> QED
          BY <1>1, <5>1
      <4> QED
        BY <4>1, <4>2
    <3>2. disk'[old + q] = disk[old + q]
      BY <1>4, <2>6, <3>1
    <3>3. ~(q < done) /\ ~(q < done + n)
      BY <1>1, <2>9
    <3> QED
      BY <1>1, <2>1, <2>4, <2>5, <3>2, <3>3
  <2> QED
    BY <1>1, <2>7, <2>8, <2>9
<1> QED
  BY <1>1, <1>6 DEF Halfway

\* copy_disk for cpy_file.
LEMMA FilesCopyChunk == FilesIInv /\ TransferIInv' /\ CopyChunk /\ pc = "copy" => FilesIInv'
<1> SUFFICES ASSUME FilesIInv, TransferIInv', CopyChunk, pc = "copy" PROVE FilesIInv'
  OBVIOUS
<1>1. /\ pc' = "copy" /\ left > 0 /\ Storing /\ TransferIInv /\ TypeOK
      /\ at' = at + Len(CopyImage) /\ from' = from + Len(CopyImage)
      /\ left' = left - Len(CopyImage)
      /\ disk' = Written(Len(Pending.image))
      /\ UNCHANGED <<dlist, fb_list, req, queue, idx, goal, ncmd>>
  BY DEF CopyChunk, Transfer, FilesIInv, Storing
<1>2. PICK r \in ReqType : r = req
  BY <1>1, StoredFile
<1>3. PICK t \in ItemType : /\ t = Target /\ t.name = r.name /\ t.size = r.size
                            /\ Extent(t) \subseteq Area /\ t.start \in Nat /\ FileEnd(t) \in Nat
  BY <1>1, <1>2, StoredFile, ItemExtent
<1>4. PICK n \in Nat : /\ n = Len(CopyImage) /\ n =< left
                       /\ Len(Pending.image) \in 0 .. Len(Pending.image)
                       /\ at \in Nat /\ left \in Nat /\ from \in Nat
  BY CopyPending
<1>5. PICK content : content = goal.want[r.name]
  OBVIOUS
<1>6. /\ queue = <<>> /\ CopyWanted(r, content) /\ CopyPlaced(r, t.start)
      /\ from = r.oldStart + (at - t.start)
      /\ t.start # r.oldStart /\ at + left = t.start + OldWhole
      /\ Halfway(disk, content, r.oldSize, t.start, r.oldStart, at - t.start)
  <2>1. /\ queue = <<>> /\ CopyWanted(r, content) /\ CopyPlaced(r, t.start)
        /\ from = r.oldStart + (at - t.start)
        /\ t.start # r.oldStart => at + left = t.start + OldWhole
        /\ t.start = r.oldStart => left = 0
        /\ Halfway(disk, content, r.oldSize, t.start, r.oldStart, at - t.start)
    BY <1>2, <1>3, <1>5 DEF FilesIInv, CopyOK
  <2> QED
    BY <1>1, <2>1
<1>7. t.start =< at /\ at + left =< FileEnd(t)
  BY <1>1, <1>3 DEF TransferIInv, TransferInside
<1>8. PICK done \in Nat : done = at - t.start /\ at = t.start + done /\ from = r.oldStart + done
  <2>1. at - t.start \in Nat /\ at = t.start + (at - t.start)
    BY <1>3, <1>4, <1>7
  <2> QED
    BY <1>6, <2>1
<1>9. /\ r.oldStart \in Nat /\ r.oldSize \in Nat /\ OldWhole \in Nat
      /\ r.oldSize = 0 => OldWhole = 0
      /\ r.oldSize > 0 =>
            /\ OldEnd(r) = r.oldStart + OldWhole + (IF OldRest = 0 THEN 0 ELSE 1)
            /\ DataBegin =< r.oldStart /\ OldEnd(r) =< TotalSize
  BY <1>2, <1>3, OldFile
<1>10. r.oldSize > 0
  BY <1>1, <1>3, <1>4, <1>6, <1>7, <1>9
<1>11. \A s \in t.start .. at + n - 1 : s \in Area
  <2> TAKE s \in t.start .. at + n - 1
  <2>1. s \in Extent(t)
    BY <1>3, <1>4, <1>7 DEF Extent
  <2> QED
    BY <1>3, <2>1
<1>12. \A i \in 1 .. r.oldSize :
          /\ BlockIn(r.oldStart, i) \in Nat
          /\ r.oldStart + BlockIn(r.oldStart, i) < OldEnd(r)
          /\ r.oldStart + BlockIn(r.oldStart, i) \in Area
  <2> TAKE i \in 1 .. r.oldSize
  <2>1. /\ BlockIn(r.oldStart, i) \in Nat
        /\ BlockIn(r.oldStart, i) < CeilDiv(r.oldSize, BlockOf(r.oldStart))
    BY <1>9, BlockInFile
  <2>2. OldEnd(r) = r.oldStart + CeilDiv(r.oldSize, BlockOf(r.oldStart)) /\ OldEnd(r) \in Nat
    BY <1>9, <1>10 DEF OldEnd
  <2>3. CeilDiv(r.oldSize, BlockOf(r.oldStart)) \in Nat
    <3>1. r.oldSize \in Nat \ {0} /\ BlockOf(r.oldStart) \in Nat \ {0}
      BY <1>9, <1>10, BlockAssumption DEF BlockOf
    <3> QED
      BY <3>1, CeilDivBounds
  <2>4. r.oldStart + BlockIn(r.oldStart, i) < OldEnd(r)
    BY <1>9, <2>1, <2>2, <2>3
  <2> QED
    BY <1>9, <1>10, <2>1, <2>2, <2>4, AreaAssumption DEF Area
<1>13. Halfway(disk', content, r.oldSize, t.start, r.oldStart, done + n)
  <2>1. InPrimary(t.start) <=> InPrimary(r.oldStart)
    BY <1>6, <1>10 DEF CopyPlaced
  <2>2. t.start =< r.oldStart \/ \A i \in 1 .. r.oldSize : r.oldStart + BlockIn(r.oldStart, i) < t.start
    <3>1. t.start =< r.oldStart \/ OldEnd(r) =< t.start
      BY <1>6, <1>10 DEF CopyPlaced
    <3>2. OldEnd(r) \in Nat
      BY <1>9, <1>10
    <3> QED
      BY <1>3, <1>9, <1>12, <3>1, <3>2
  <2>3. /\ Halfway(disk, content, r.oldSize, t.start, r.oldStart, done)
        /\ at = t.start + done /\ from = r.oldStart + done
        /\ t.start \in Nat /\ r.oldStart \in Nat /\ r.oldSize \in Nat
        /\ \A s \in t.start .. at + Len(CopyImage) - 1 : s \in Area
        /\ \A i \in 1 .. r.oldSize : r.oldStart + BlockIn(r.oldStart, i) \in Area
    BY <1>3, <1>4, <1>6, <1>8, <1>9, <1>11, <1>12
  <2> QED
    BY <1>1, <1>4, <2>1, <2>2, <2>3, CopyMoves
<1>14. /\ at' - t.start = done + n /\ from' = r.oldStart + (at' - t.start)
       /\ at' + left' = t.start + OldWhole /\ from' \in Nat
  <2>1. at' = at + n /\ from' = from + n /\ left' = left - n
    BY <1>1, <1>4
  <2>2. at' - t.start = done + n
    BY <1>3, <1>4, <1>8, <2>1
  <2>3. from' = r.oldStart + (at' - t.start) /\ from' \in Nat
    <3>1. PICK o \in Nat : o = r.oldStart
      BY <1>9
    <3>2. from' = (o + done) + n
      BY <1>8, <2>1, <3>1
    <3>3. done \in Nat /\ n \in Nat
      BY <1>4, <1>8
    <3>4. (o + done) + n = o + (done + n) /\ (o + done) + n \in Nat
      BY <3>3
    <3> QED
      BY <2>2, <3>1, <3>2, <3>4
  <2>4. at' + left' = at + left
    BY <1>4, <2>1
  <2> QED
    BY <1>6, <2>2, <2>3, <2>4
<1>15. Target' = t /\ OldWhole' = OldWhole
  BY <1>1, <1>3 DEF Target, OldWhole
<1>16. CopyOK'
  <2>1. Halfway(disk', content, r.oldSize, t.start, r.oldStart, at' - t.start)
    BY <1>13, <1>14
  <2> QED
    BY <1>1, <1>2, <1>5, <1>6, <1>14, <1>15, <2>1 DEF CopyOK
<1>17. TypeOK'
  <2>1. disk' \in [Area -> [1 .. ExtBlock -> Cell]]
    BY <1>1, <1>4, DiskTyped
  <2> QED
    BY <1>1, <1>2, <1>14, <2>1, TypeStep DEF TypeOK
<1>18. Fulfils(disk', fb_list', goal'.want, Unfinished')
  <2>1. Unfinished' = Unfinished /\ req.name \in Unfinished
    BY <1>1 DEF Unfinished, Storing
  <2>2. Fulfils(disk, fb_list, goal.want, Unfinished)
    BY <1>1 DEF FilesIInv
  <2>3. Fulfils(disk', fb_list, goal.want, Unfinished)
    BY <1>1, <1>4, <2>1, <2>2, FulfilsKept
  <2> QED
    BY <1>1, <2>1, <2>3
<1>19. QueueWanted' /\ goal'.phase = "busy"
  BY <1>1 DEF QueueWanted, FilesIInv
<1> QED
  BY <1>1, <1>16, <1>17, <1>18, <1>19 DEF FilesIInv, AllocOK, SaveOK, FillOK, PackOK, Storing

\* cpy_file goes on after the whole blocks of the old file.
LEMMA FilesCopyDone == FilesIInv /\ TransferIInv' /\ CopyDone => FilesIInv'
<1> SUFFICES ASSUME FilesIInv, TransferIInv', CopyDone PROVE FilesIInv'
  OBVIOUS
<1>1. /\ pc = "copy" /\ pc' = "tail" /\ left = 0 /\ Storing /\ TransferIInv /\ TypeOK
      /\ at' = Target.start + OldWhole /\ from' = req.oldStart + OldWhole
      /\ UNCHANGED <<disk, dlist, fb_list, req, queue, left, idx, goal, ncmd>>
  BY DEF CopyDone, FilesIInv, Storing
<1>2. PICK r \in ReqType : r = req
  BY <1>1, StoredFile
<1>3. PICK t \in ItemType : t = Target /\ t.name = r.name /\ t.start \in Nat
  BY <1>1, <1>2, StoredFile, ItemExtent
<1>4. PICK content : content = goal.want[r.name]
  OBVIOUS
<1>5. /\ queue = <<>> /\ CopyWanted(r, content) /\ CopyPlaced(r, t.start)
      /\ t.start # r.oldStart => at + left = t.start + OldWhole
      /\ Halfway(disk, content, r.oldSize, t.start, r.oldStart, at - t.start)
  BY <1>1, <1>2, <1>3, <1>4 DEF FilesIInv, CopyOK
<1>6. r.oldStart \in Nat /\ OldWhole \in Nat /\ at \in Nat
  BY <1>1, <1>2, <1>3, OldFile DEF TypeOK
<1>7. /\ at' - t.start = OldWhole /\ from' = r.oldStart + (at' - t.start) /\ from' \in Nat
  BY <1>1, <1>2, <1>3, <1>6
<1>8. Halfway(disk', content, r.oldSize, t.start, r.oldStart, at' - t.start)
  <2>1. CASE t.start # r.oldStart
    <3>1. at' = at
      BY <1>1, <1>3, <1>5, <1>6, <2>1
    <3> QED
      BY <1>1, <1>5, <3>1
  <2>2. CASE t.start = r.oldStart
    BY <1>1, <1>5, <2>2 DEF Halfway
  <2> QED
    BY <2>1, <2>2
<1>9. Target' = t
  BY <1>1, <1>3 DEF Target
<1>10. CopyOK'
  BY <1>1, <1>2, <1>4, <1>5, <1>7, <1>8, <1>9 DEF CopyOK
<1>11. TypeOK'
  BY <1>1, <1>2, <1>7, TypeStep DEF TypeOK
<1>12. Unfinished' = Unfinished
  BY <1>1 DEF Unfinished, Storing
<1>13. Fulfils(disk', fb_list', goal'.want, Unfinished')
  <2>1. Fulfils(disk, fb_list, goal.want, Unfinished)
    BY <1>1 DEF FilesIInv
  <2> QED
    BY <1>1, <1>12, <2>1
<1>14. QueueWanted' /\ goal'.phase = "busy"
  BY <1>1 DEF QueueWanted, FilesIInv
<1> QED
  BY <1>1, <1>10, <1>11, <1>13, <1>14 DEF FilesIInv, AllocOK, SaveOK, FillOK, PackOK, Storing

\* Byte i is in the first size bytes if it is in the whole blocks of them or in
\* the rest.
LEMMA BlockOrder ==
    ASSUME NEW i \in Nat \ {0}, NEW size \in Nat, NEW b \in Nat \ {0}
    PROVE  i =< size <=>
              \/ (i - 1) \div b < size \div b
              \/ (i - 1) \div b = size \div b /\ (i - 1) % b < (size % b)
<1> DEFINE q == (i - 1) \div b
           m == (i - 1) % b
           w == size \div b
           e == size % b
<1>1. i - 1 = b * q + m /\ q \in Nat /\ m \in 0 .. b - 1
  OBVIOUS
<1>2. size = b * w + e /\ w \in Nat /\ e \in 0 .. b - 1
  OBVIOUS
<1> HIDE DEF q, m, w, e
<1>3. PICK x \in Nat : x = b * q
  BY <1>1
<1>4. PICK y \in Nat : y = b * w
  BY <1>2
<1>5. CASE q = w
  BY <1>1, <1>2, <1>3, <1>4, <1>5
<1>6. CASE q < w
  <2>1. PICK d \in Nat : w = q + 1 + d
    <3>1. w - q - 1 \in Nat /\ w = q + 1 + (w - q - 1)
      BY <1>1, <1>2, <1>6
    <3> QED
      BY <3>1
  <2>2. y = x + b + b * d /\ b * d \in Nat
    <3>1. b * (q + 1 + d) = (b * q) + b + b * d /\ b * d \in Nat
      BY <1>1, <1>2
    <3> QED
      BY <1>3, <1>4, <2>1, <3>1
  <2>3. PICK z \in Nat : z = b * d
    BY <2>2
  <2>4. y = x + b + z
    BY <2>2, <2>3
  <2> QED
    BY <1>1, <1>2, <1>3, <1>4, <1>6, <2>4
<1>7. CASE w < q
  <2>1. PICK d \in Nat : q = w + 1 + d
    <3>1. q - w - 1 \in Nat /\ q = w + 1 + (q - w - 1)
      BY <1>1, <1>2, <1>7
    <3> QED
      BY <3>1
  <2>2. x = y + b + b * d /\ b * d \in Nat
    <3>1. b * (w + 1 + d) = (b * w) + b + b * d /\ b * d \in Nat
      BY <1>1, <1>2
    <3> QED
      BY <1>3, <1>4, <2>1, <3>1
  <2>3. PICK z \in Nat : z = b * d
    BY <2>2
  <2>4. x = y + b + z
    BY <2>2, <2>3
  <2> QED
    BY <1>1, <1>2, <1>3, <1>4, <1>7, <2>4
<1>8. i =< size <=> (q < w \/ (q = w /\ m < e))
  BY <1>1, <1>2, <1>5, <1>6, <1>7
<1> QED
  BY <1>8 DEF q, m, w, e

\* A list whose last unfinished file is as wanted fulfils everything.
LEMMA FulfilsDone ==
    ASSUME NEW d, NEW list \in Seq(ItemType), LayoutOK(list), NEW want,
           NEW t \in ItemSet(list), NEW name, name = t.name,
           Fulfils(d, list, want, {name}), want[name] = ContentAt(d, t)
    PROVE  Fulfils(d, list, want, {})
<1>1. name \in NamesOf(list)
  BY ListItems
<1>2. DOMAIN want = NamesOf(list) \union {}
  BY <1>1 DEF Fulfils
<1>3. ASSUME NEW f \in ItemSet(list) PROVE want[f.name] = ContentAt(d, f)
  <2>1. CASE f.name = name
    BY <2>1, ItemsApart
  <2>2. CASE f.name # name
    BY <2>2 DEF Fulfils
  <2> QED
    BY <2>1, <2>2
<1>4. want = [n \in DOMAIN want |-> want[n]]
  BY DEF Fulfils
<1> QED
  BY <1>2, <1>3, <1>4 DEF Fulfils

\* The pending write of the last, partly used sector of an old file.
LEMMA TailPending ==
    ASSUME FilesIInv, pc = "tail", disk' = Written(Len(Pending.image)),
           NEW t \in ItemType, t = Target
    PROVE  /\ Len(TailImage) = IF OldRest = 0 THEN 0 ELSE 1
           /\ at = t.start + OldWhole /\ OldWhole \in Nat
           /\ OldWhole + Len(TailImage) =< Blocks(t)
           /\ Len(Pending.image) \in 0 .. Len(Pending.image)
           /\ \A s \in Area : s # at \/ OldRest = 0 => disk'[s] = disk[s]
           /\ OldRest # 0 =>
                 \A k \in 1 .. ExtBlock :
                    k =< BlockOf(t.start) =>
                       disk'[at][k] = IF k =< OldRest THEN disk[from][k] ELSE Filler
<1>1. /\ TransferIInv /\ Storing /\ LayoutIInv /\ CopyFits /\ Target.size = req.size
      /\ at = t.start + OldWhole /\ at \in Nat
  BY DEF FilesIInv, TransferIInv, TransferInside, Storing
<1>2. /\ OldWhole \in Nat /\ OldWhole + Len(TailImage) =< Blocks(t)
  BY <1>1, OldBlocksFit
<1>3. Pending.start = at /\ Pending.image = TailImage
  BY DEF Pending
<1>4. Len(TailImage) = IF OldRest = 0 THEN 0 ELSE 1
  BY DEF TailImage
<1>5. Len(Pending.image) \in 0 .. Len(Pending.image)
  BY <1>3, <1>4
<1>6. ASSUME NEW s \in Area, s # at \/ OldRest = 0 PROVE disk'[s] = disk[s]
  <2>1. s \in Nat
    BY AreaAssumption DEF Area
  <2>2. s \notin PendingExtent
    BY <1>1, <1>3, <1>4, <1>6, <2>1 DEF PendingExtent
  <2> QED
    BY <1>1, <1>5, <2>2, WriteLeaves
<1>7. ASSUME OldRest # 0, NEW k \in 1 .. ExtBlock, k =< BlockOf(t.start)
      PROVE  disk'[at][k] = IF k =< OldRest THEN disk[from][k] ELSE Filler
  <2>1. at \in Extent(t)
    <3>1. t.start \in Nat /\ Blocks(t) \in Nat /\ FileEnd(t) = t.start + Blocks(t)
      BY ItemExtent DEF FileEnd
    <3> QED
      BY <1>1, <1>2, <1>4, <1>7, <3>1 DEF Extent
  <2>2. at \in Area
    BY <1>1, <2>1, StoredFile
  <2>3. 1 \in 1 .. Len(Pending.image) /\ Pending.start + 1 - 1 = at
    BY <1>1, <1>3, <1>4, <1>7
  <2>4. disk'[at] = TailImage[1]
    BY <1>1, <1>3, <2>2, <2>3, WritePuts
  <2>5. ~(k > BlockOf(t.start))
    BY <1>7, BlockAssumption DEF BlockOf
  <2>6. 1 \in 1 .. (IF OldRest = 0 THEN 0 ELSE 1)
    BY <1>7
  <2>7. TailImage[1][k] = IF k =< OldRest THEN disk[from][k] ELSE Filler
    BY <2>5, <2>6 DEF TailImage
  <2> QED
    BY <2>4, <2>7
<1> QED
  BY <1>1, <1>2, <1>4, <1>5, <1>6, <1>7

\* cpy_file: after it the file has the old bytes and no stale one.
LEMMA TailShows ==
    ASSUME FilesIInv, pc = "tail", disk' = Written(Len(Pending.image)),
           NEW r \in ReqType, r = req, NEW t \in ItemType, t = Target,
           NEW content, content = goal.want[r.name], NEW i \in 1 .. r.size
    PROVE  content[i] = IF BlockIn(t.start, i) < OldWhole + Len(TailImage)
                        THEN Masked(ByteAt(disk', t.start, i)) ELSE Filler
<1>1. /\ Storing /\ TransferIInv
  BY DEF FilesIInv, Storing
<1>2. t.size = r.size /\ Extent(t) \subseteq Area /\ t.start \in Nat
  BY <1>1, StoredFile, ItemExtent
<1>3. /\ CopyWanted(r, content)
      /\ from = r.oldStart + (at - t.start)
      /\ Halfway(disk, content, r.oldSize, t.start, r.oldStart, at - t.start)
  BY DEF FilesIInv, CopyOK
<1>4. PICK b \in Nat \ {0} : b = BlockOf(t.start) /\ b =< ExtBlock
  BY BlockAssumption DEF BlockOf
<1>5. /\ r.oldStart \in Nat /\ r.oldSize \in Nat /\ r.oldSize =< r.size
      /\ OldWhole = r.oldSize \div b /\ OldWhole \in Nat /\ OldRest = r.oldSize % b
      /\ r.oldSize > 0 => b = BlockOf(r.oldStart)
  BY <1>2, <1>4, OldFile
<1>6. PICK w \in Nat : w = OldWhole /\ w = r.oldSize \div b
  BY <1>5
<1>7. PICK e \in 0 .. b - 1 : e = OldRest /\ e = r.oldSize % b
  <2>1. r.oldSize % b \in 0 .. b - 1
    BY <1>4, <1>5
  <2> QED
    BY <1>5, <2>1
<1>8. PICK n \in 0 .. 1 : n = Len(TailImage) /\ n = IF e = 0 THEN 0 ELSE 1
  BY <1>7, TailPending
<1>9. /\ at = t.start + w
      /\ \A s \in Area : s # at \/ e = 0 => disk'[s] = disk[s]
      /\ e # 0 => \A k \in 1 .. ExtBlock :
                     k =< b => disk'[at][k] = IF k =< e THEN disk[from][k] ELSE Filler
  BY <1>4, <1>6, <1>7, TailPending
<1>10. at - t.start = w /\ from = r.oldStart + w
  BY <1>2, <1>3, <1>5, <1>9
<1>11. PICK q \in Nat : /\ q = (i - 1) \div b /\ q = BlockIn(t.start, i)
                        /\ t.start + q \in Area
  <2>1. /\ BlockIn(t.start, i) \in Nat /\ t.start + BlockIn(t.start, i) \in Area
    BY <1>2, ByteSector
  <2> QED
    BY <1>4, <2>1 DEF BlockIn
<1>12. PICK m \in 0 .. b - 1 : m = (i - 1) % b
  <2>1. (i - 1) % b \in 0 .. b - 1
    BY <1>4
  <2> QED
    BY <2>1
<1>13. i =< r.oldSize <=> (q < w \/ (q = w /\ m < e))
  <2>1. i \in Nat \ {0}
    <3>1. r.size \in Nat
      BY DEF ReqType
    <3> QED
      BY <3>1
  <2>2. /\ q = (i - 1) \div b /\ m = (i - 1) % b
        /\ w = r.oldSize \div b /\ e = r.oldSize % b /\ r.oldSize \in Nat
    BY <1>5, <1>6, <1>7, <1>11, <1>12
  <2>3. i =< r.oldSize <=>
           \/ (i - 1) \div b < r.oldSize \div b
           \/ (i - 1) \div b = r.oldSize \div b /\ (i - 1) % b < (r.oldSize % b)
    BY <2>1, <2>2, BlockOrder
  <2> DEFINE P(Q, M, W, E) == i =< r.oldSize <=> (Q < W \/ (Q = W /\ M < E))
  <2>4. P((i - 1) \div b, (i - 1) % b, r.oldSize \div b, r.oldSize % b)
    BY <2>3
  <2> HIDE DEF P
  <2>5. P(q, m, w, e)
    BY <2>2, <2>4
  <2> QED
    BY <2>5 DEF P
<1>14. PICK k \in 1 .. ExtBlock : k = m + 1 /\ k =< b
  <2>1. m + 1 \in 1 .. ExtBlock /\ m + 1 =< b
    BY <1>4, <1>12, BlockAssumption
  <2> QED
    BY <2>1
<1>15. /\ ByteAt(disk, t.start, i) = disk[t.start + q][k]
       /\ ByteAt(disk', t.start, i) = disk'[t.start + q][k]
  BY <1>4, <1>11, <1>12, <1>14 DEF ByteAt
<1>16. ASSUME r.oldSize > 0
       PROVE  BlockIn(r.oldStart, i) = q /\ ByteAt(disk, r.oldStart, i) = disk[r.oldStart + q][k]
  BY <1>5, <1>11, <1>12, <1>14, <1>16 DEF ByteAt, BlockIn
<1>17. CASE q < w
  <2>1. i \in 1 .. r.oldSize /\ r.oldSize > 0 /\ q < w + n
    BY <1>5, <1>8, <1>13, <1>17
  <2>2. content[i] = Masked(ByteAt(disk, t.start, i))
    BY <1>3, <1>10, <1>16, <1>17, <2>1 DEF Halfway
  <2>3. t.start + q # at
    BY <1>2, <1>9, <1>17
  <2>4. disk'[t.start + q] = disk[t.start + q]
    BY <1>9, <1>11, <2>3
  <2> QED
    BY <1>6, <1>8, <1>11, <1>15, <2>1, <2>2, <2>4
<1>18. CASE q = w /\ m < e
  <2>1. i \in 1 .. r.oldSize /\ r.oldSize > 0 /\ e # 0 /\ n = 1 /\ k =< e
    BY <1>5, <1>8, <1>13, <1>14, <1>18
  <2>2. content[i] = Masked(ByteAt(disk, r.oldStart, i))
    BY <1>3, <1>10, <1>16, <1>18, <2>1 DEF Halfway
  <2>3. t.start + q = at /\ r.oldStart + q = from /\ q < w + n
    BY <1>9, <1>10, <1>18, <2>1
  <2>4. disk'[at][k] = disk[from][k]
    BY <1>9, <1>14, <2>1
  <2> QED
    BY <1>6, <1>8, <1>11, <1>15, <1>16, <2>1, <2>2, <2>3, <2>4
<1>19. CASE q = w /\ e =< m
  <2>1. ~(i =< r.oldSize)
    BY <1>13, <1>19
  <2>2. content[i] = Filler
    <3>1. i \in r.oldSize + 1 .. r.size
      BY <1>5, <2>1
    <3> QED
      BY <1>3, <3>1 DEF CopyWanted
  <2>3. CASE e = 0
    <3>1. ~(q < w + n)
      BY <1>8, <1>19, <2>3
    <3> QED
      BY <1>6, <1>8, <1>11, <2>2, <3>1
  <2>4. CASE e # 0
    <3>1. n = 1 /\ ~(k =< e) /\ t.start + q = at
      BY <1>8, <1>9, <1>14, <1>19, <2>4
    <3>2. disk'[at][k] = Filler
      BY <1>9, <1>14, <2>4, <3>1
    <3>3. ByteAt(disk', t.start, i) = Filler
      BY <1>15, <3>1, <3>2
    <3> QED
      BY <2>2, <3>3, InputShown
  <2> QED
    BY <2>3, <2>4
<1>20. CASE w < q
  <2>1. ~(i =< r.oldSize) /\ ~(q < w + n)
    BY <1>8, <1>13, <1>20
  <2>2. content[i] = Filler
    <3>1. i \in r.oldSize + 1 .. r.size
      BY <1>5, <2>1
    <3> QED
      BY <1>3, <3>1 DEF CopyWanted
  <2> QED
    BY <1>6, <1>8, <1>11, <2>1, <2>2
<1>21. q < w \/ (q = w /\ m < e) \/ (q = w /\ e =< m) \/ w < q
  OBVIOUS
<1> QED
  BY <1>17, <1>18, <1>19, <1>20, <1>21

LEMMA FilesCopyTail == FilesIInv /\ TransferIInv' /\ CopyTail => FilesIInv'
<1> SUFFICES ASSUME FilesIInv, TransferIInv', CopyTail PROVE FilesIInv'
  OBVIOUS
<1>1. /\ pc = "tail" /\ pc' = "fill" /\ Storing /\ TransferIInv /\ TypeOK
      /\ at' = at + Len(TailImage) /\ left' = Blocks(Target) - OldWhole - Len(TailImage)
      /\ disk' = Written(Len(Pending.image))
      /\ UNCHANGED <<dlist, fb_list, req, queue, from, idx, goal, ncmd>>
  BY DEF CopyTail, Transfer, FilesIInv, Storing
<1>2. PICK r \in ReqType : r = req
  BY <1>1, StoredFile
<1>3. PICK t \in ItemType : /\ t = Target /\ t.name = r.name /\ t.size = r.size
                            /\ t.start \in Nat /\ Blocks(t) \in Nat
                            /\ FileEnd(t) = t.start + Blocks(t)
  BY <1>1, <1>2, StoredFile, ItemExtent DEF FileEnd
<1>4. PICK content : content = goal.want[r.name]
  OBVIOUS
<1>5. queue = <<>> /\ CopyWanted(r, content)
  BY <1>1, <1>2, <1>4 DEF FilesIInv, CopyOK
<1>6. PICK n \in Nat : /\ n = Len(TailImage) /\ at = t.start + OldWhole /\ OldWhole \in Nat
                       /\ Len(Pending.image) \in 0 .. Len(Pending.image)
  <2>1. Len(TailImage) \in Nat
    BY DEF TailImage
  <2> QED
    BY <1>1, <1>3, <2>1, TailPending
<1>7. /\ at' - t.start = OldWhole + Len(TailImage) /\ at' + left' = FileEnd(t)
  BY <1>1, <1>3, <1>6
<1>8. \A i \in 1 .. r.size :
         content[i] = IF BlockIn(t.start, i) < at' - t.start
                      THEN Masked(ByteAt(disk', t.start, i)) ELSE Filler
  BY <1>1, <1>2, <1>3, <1>4, <1>7, TailShows
<1>9. Target' = t
  BY <1>1, <1>3 DEF Target
<1>10. FillOK'
  BY <1>1, <1>2, <1>4, <1>5, <1>7, <1>8, <1>9 DEF FillOK
<1>11. TypeOK'
  <2>1. disk' \in [Area -> [1 .. ExtBlock -> Cell]]
    BY <1>1, <1>6, DiskTyped
  <2> QED
    BY <1>1, <1>2, <2>1, TypeStep DEF TypeOK
<1>12. Fulfils(disk', fb_list', goal'.want, Unfinished')
  <2>1. Unfinished' = Unfinished /\ req.name \in Unfinished
    BY <1>1 DEF Unfinished, Storing
  <2>2. Fulfils(disk, fb_list, goal.want, Unfinished)
    BY <1>1 DEF FilesIInv
  <2>3. Fulfils(disk', fb_list, goal.want, Unfinished)
    BY <1>1, <1>6, <2>1, <2>2, FulfilsKept
  <2> QED
    BY <1>1, <2>1, <2>3
<1>13. QueueWanted' /\ goal'.phase = "busy"
  BY <1>1 DEF QueueWanted, FilesIInv
<1> QED
  BY <1>1, <1>10, <1>11, <1>12, <1>13 DEF FilesIInv, AllocOK, SaveOK, CopyOK, PackOK, Storing

\* cpy_file fills the next sectors, and spoils none before them.
LEMMA FillShows ==
    ASSUME FilesIInv, pc = "fill", disk' = Written(Len(Pending.image)),
           NEW r \in ReqType, r = req, NEW t \in ItemType, t = Target,
           NEW content, content = goal.want[r.name], NEW i \in 1 .. r.size
    PROVE  content[i] = IF BlockIn(t.start, i) < (at + Len(FillImage)) - t.start
                        THEN Masked(ByteAt(disk', t.start, i)) ELSE Filler
<1>1. /\ TransferIInv /\ Storing
      /\ content[i] = IF BlockIn(t.start, i) < at - t.start
                      THEN Masked(ByteAt(disk, t.start, i)) ELSE Filler
  BY DEF FilesIInv, FillOK, Storing
<1>2. t.size = r.size /\ Extent(t) \subseteq Area /\ t.start \in Nat
  BY <1>1, StoredFile, ItemExtent
<1>3. at \in Nat /\ t.start =< at
  BY <1>1 DEF TransferIInv, TransferInside
<1>4. PICK n \in Nat : n = Len(FillImage)
  BY <1>1, FillImageOK
<1>5. Pending.start = at /\ Pending.image = FillImage /\ n \in 0 .. n
  BY <1>4 DEF Pending
<1>6. PICK b \in Nat \ {0} : b = BlockOf(t.start) /\ b =< ExtBlock
  BY BlockAssumption DEF BlockOf
<1>7. PICK q \in Nat : /\ q = (i - 1) \div b /\ q = BlockIn(t.start, i)
                       /\ t.start + q \in Area
  <2>1. /\ BlockIn(t.start, i) \in Nat /\ t.start + BlockIn(t.start, i) \in Area
    BY <1>2, ByteSector
  <2> QED
    BY <1>6, <2>1 DEF BlockIn
<1>8. PICK k \in 1 .. ExtBlock : k = ((i - 1) % b) + 1 /\ k =< b
  <2>1. (i - 1) % b \in 0 .. b - 1
    <3>1. r.size \in Nat
      BY DEF ReqType
    <3> QED
      BY <1>6, <3>1
  <2>2. PICK m \in 0 .. b - 1 : m = (i - 1) % b
    BY <2>1
  <2>3. m + 1 \in 1 .. ExtBlock /\ m + 1 =< b
    BY <1>6, <2>2, BlockAssumption
  <2> QED
    BY <2>2, <2>3
<1>9. /\ ByteAt(disk, t.start, i) = disk[t.start + q][k]
      /\ ByteAt(disk', t.start, i) = disk'[t.start + q][k]
  BY <1>6, <1>7, <1>8 DEF ByteAt
<1>10. CASE q < at - t.start
  <2>1. t.start + q \notin PendingExtent
    BY <1>2, <1>3, <1>4, <1>5, <1>10 DEF PendingExtent
  <2>2. disk'[t.start + q] = disk[t.start + q]
    BY <1>1, <1>4, <1>5, <1>7, <2>1, WriteLeaves
  <2>3. q < (at + n) - t.start
    BY <1>2, <1>3, <1>4, <1>10
  <2> QED
    BY <1>1, <1>4, <1>7, <1>9, <1>10, <2>2, <2>3
<1>11. CASE ~(q < at - t.start) /\ q < (at + n) - t.start
  <2>1. PICK j \in 1 .. n : j = t.start + q - at + 1 /\ at + j - 1 = t.start + q
    <3>1. /\ t.start + q - at + 1 \in 1 .. n
          /\ at + (t.start + q - at + 1) - 1 = t.start + q
      BY <1>2, <1>3, <1>4, <1>11
    <3> QED
      BY <3>1
  <2>2. disk'[t.start + q] = FillImage[j]
    <3>1. j \in 1 .. Len(Pending.image) /\ Pending.start + j - 1 = t.start + q
      BY <1>4, <1>5, <2>1
    <3> QED
      BY <1>1, <1>5, <1>7, <3>1, WritePuts
  <2>3. FillImage[j][k] = Filler
    <3>1. Len(FillImage) = Least(left, GlobBuf)
      <4>1. left \in Nat /\ GlobBuf \in Nat
        BY StoreAssumption DEF FilesIInv, TypeOK
      <4>2. Least(left, GlobBuf) \in Nat
        BY <4>1, LeastOf
      <4> QED
        BY <4>2 DEF FillImage
    <3>2. j \in 1 .. Least(left, GlobBuf) /\ ~(k > BlockOf(t.start))
      BY <1>4, <1>6, <1>8, <3>1
    <3> QED
      BY <3>2 DEF FillImage
  <2>4. content[i] = Filler
    BY <1>1, <1>7, <1>11
  <2> QED
    BY <1>4, <1>7, <1>9, <1>11, <2>2, <2>3, <2>4, InputShown
<1>12. CASE ~(q < at - t.start) /\ ~(q < (at + n) - t.start)
  BY <1>1, <1>4, <1>7, <1>12
<1> QED
  BY <1>10, <1>11, <1>12

LEMMA FilesFill == FilesIInv /\ TransferIInv' /\ FillChunk => FilesIInv'
<1> SUFFICES ASSUME FilesIInv, TransferIInv', FillChunk PROVE FilesIInv'
  OBVIOUS
<1>1. /\ pc = "fill" /\ pc' = (IF left' > 0 THEN "fill" ELSE "commit")
      /\ Storing /\ TransferIInv /\ TypeOK
      /\ at' = at + Len(FillImage) /\ left' = left - Len(FillImage)
      /\ disk' = Written(Len(Pending.image))
      /\ UNCHANGED <<dlist, fb_list, req, queue, from, idx, goal, ncmd>>
  BY DEF FillChunk, Transfer, FilesIInv, Storing
<1>2. PICK r \in ReqType : r = req
  BY <1>1, StoredFile
<1>3. PICK t \in ItemType : /\ t = Target /\ t \in ItemSet(fb_list)
                            /\ t.name = r.name /\ t.size = r.size
                            /\ t.start \in Nat /\ Blocks(t) \in Nat
                            /\ FileEnd(t) = t.start + Blocks(t)
  BY <1>1, <1>2, StoredFile, ItemExtent DEF FileEnd
<1>4. PICK content : content = goal.want[r.name]
  OBVIOUS
<1>5. queue = <<>> /\ CopyWanted(r, content) /\ at + left = FileEnd(t)
  BY <1>1, <1>2, <1>3, <1>4 DEF FilesIInv, FillOK
<1>6. PICK n \in Nat : n = Len(FillImage) /\ n =< left /\ at \in Nat /\ left \in Nat
  BY <1>1, FillImageOK DEF TypeOK
<1>7. Len(Pending.image) \in 0 .. Len(Pending.image)
  BY <1>1, <1>6 DEF Pending
<1>8. \A i \in 1 .. r.size :
         content[i] = IF BlockIn(t.start, i) < at' - t.start
                      THEN Masked(ByteAt(disk', t.start, i)) ELSE Filler
  BY <1>1, <1>2, <1>3, <1>4, FillShows
<1>9. disk' \in [Area -> [1 .. ExtBlock -> Cell]]
  BY <1>1, <1>7, DiskTyped
<1>10. TypeOK'
  BY <1>1, <1>2, <1>9, TypeStep DEF TypeOK
<1>11. Fulfils(disk', fb_list, goal.want, Unfinished) /\ Unfinished = {r.name}
  <2>1. Unfinished = {r.name}
    <3>1. {queue[k].name : k \in 1 .. Len(queue)} = {}
      BY <1>5
    <3> QED
      BY <1>1, <1>2, <3>1 DEF Unfinished
  <2>2. Fulfils(disk, fb_list, goal.want, Unfinished) /\ req.name \in Unfinished
    BY <1>1, <1>2, <2>1 DEF FilesIInv
  <2> QED
    BY <1>1, <1>7, <2>1, <2>2, FulfilsKept
<1>12. goal'.phase = "busy"
  BY <1>1 DEF FilesIInv
<1>13. CASE left' > 0
  <2>1. pc' = "fill"
    BY <1>1, <1>13
  <2>2. Target' = t /\ at' + left' = FileEnd(t)
    BY <1>1, <1>3, <1>5, <1>6 DEF Target
  <2>3. FillOK'
    BY <1>1, <1>2, <1>4, <1>5, <1>8, <2>1, <2>2 DEF FillOK
  <2>4. QueueWanted'
    BY <1>1 DEF QueueWanted, FilesIInv
  <2>5. Unfinished' = Unfinished
    BY <1>1, <2>1 DEF Unfinished, Storing
  <2>6. Fulfils(disk', fb_list', goal'.want, Unfinished')
    BY <1>1, <1>11, <2>5
  <2> QED
    BY <1>1, <1>10, <1>12, <2>1, <2>3, <2>4, <2>6
       DEF FilesIInv, AllocOK, SaveOK, CopyOK, PackOK, Storing
<1>14. CASE ~(left' > 0)
  <2>1. at' - t.start = Blocks(t)
    BY <1>1, <1>3, <1>5, <1>6, <1>14
  <2>2. ASSUME NEW i \in 1 .. r.size PROVE content[i] = Masked(ByteAt(disk', t.start, i))
    <3>1. BlockIn(t.start, i) < Blocks(t)
      BY <1>3, ByteSector
    <3> QED
      BY <1>8, <2>1, <3>1
  <2>3. content = ContentAt(disk', t)
    <3>1. content = [i \in 1 .. r.size |-> content[i]]
      BY <1>5 DEF CopyWanted
    <3> QED
      BY <1>3, <2>2, <3>1 DEF ContentAt
  <2>4. fb_list \in Seq(ItemType) /\ LayoutOK(fb_list)
    BY <1>1 DEF TransferIInv, LayoutIInv, LayoutInv
  <2>5. PICK want, d : want = goal.want /\ d = disk'
    OBVIOUS
  <2>6. Fulfils(d, fb_list, want, {r.name}) /\ want[r.name] = ContentAt(d, t)
    BY <1>4, <1>11, <2>3, <2>5
  <2>7. Fulfils(d, fb_list, want, {})
    BY <1>3, <2>4, <2>6, FulfilsDone
  <2> QED
    BY <1>1, <1>10, <1>12, <1>14, <2>5, <2>7, FilesCommits
<1> QED
  BY <1>13, <1>14

-----------------------------------------------------------------------------
(***************************************************************************)
(* pack_disk.                                                              *)
(***************************************************************************)

\* The file pack_disk moves, and the others.
LEMMA PackMove ==
    ASSUME FilesIInv, pc = "packcopy", NEW f, f = fb_list[idx], NEW base, base = PackBase
    PROVE  /\ fb_list \in Seq(ItemType) /\ LayoutOK(fb_list) /\ idx \in 1 .. Len(fb_list)
           /\ f \in ItemType /\ f \in ItemSet(fb_list) /\ Extent(f) \subseteq Area
           /\ f.start \in Nat /\ Blocks(f) \in Nat /\ FileEnd(f) = f.start + Blocks(f)
           /\ FileEnd(f) =< TotalSize
           /\ base \in Nat /\ DataBegin =< base /\ base =< f.start
           /\ \A j \in 1 .. idx - 1 : FileEnd(fb_list[j]) =< base
           /\ InPrimary(base) <=> InPrimary(f.start)
           /\ at \in Nat /\ left \in Nat /\ base =< at /\ at + left = base + Blocks(f)
           /\ from = f.start + (at - base)
           /\ NextTo(base, fb_list, idx)
           /\ \A g \in ItemSet(fb_list) : g = f \/ FileEnd(g) =< base \/ FileEnd(f) =< g.start
<1>1. /\ fb_list \in Seq(ItemType) /\ LayoutOK(fb_list) /\ idx \in 1 .. Len(fb_list)
      /\ at \in Nat /\ left \in Nat
      /\ PackedUpTo(base)
      /\ InPrimary(base) <=> InPrimary(f.start)
  BY DEF FilesIInv, TransferIInv, LayoutIInv, LayoutInv, PackInv
<1>2. f \in ItemType /\ f \in ItemSet(fb_list)
  BY <1>1, ListItems
<1>3. /\ f.start \in Nat /\ Blocks(f) \in Nat /\ FileEnd(f) = f.start + Blocks(f)
      /\ FileEnd(f) =< TotalSize /\ Extent(f) \subseteq Area
  BY <1>1, <1>2, ItemExtent, ItemInside DEF FileEnd
<1>4. /\ base \in Nat /\ DataBegin =< base /\ base =< f.start
      /\ \A j \in 1 .. Len(fb_list) : j < idx => FileEnd(fb_list[j]) =< base
      /\ \A j \in 1 .. idx - 1 : FileEnd(fb_list[j]) =< base
  BY <1>1 DEF PackedUpTo
<1>5. /\ left =< Blocks(f) /\ from = f.start + (at - base) /\ NextTo(base, fb_list, idx)
  BY DEF FilesIInv, PackOK
<1>6. base = at + (left - Blocks(f))
  BY <1>1, <1>3 DEF PackBase
<1>7. base =< at /\ at + left = base + Blocks(f)
  BY <1>1, <1>3, <1>5, <1>6
<1>8. ASSUME NEW g \in ItemSet(fb_list)
      PROVE  g = f \/ FileEnd(g) =< base \/ FileEnd(f) =< g.start
  <2>1. PICK j \in 1 .. Len(fb_list) : g = fb_list[j]
    BY DEF ItemSet
  <2>2. j = idx \/ j < idx \/ idx < j
    BY <1>1
  <2> QED
    BY <1>1, <1>4, <2>1, <2>2 DEF LayoutOK, InOrder
<1> QED
  BY <1>1, <1>2, <1>3, <1>4, <1>5, <1>7, <1>8

\* copy_disk for pack_disk.
LEMMA FilesPackChunk == FilesIInv /\ TransferIInv' /\ CopyChunk /\ pc = "packcopy" => FilesIInv'
<1> SUFFICES ASSUME FilesIInv, TransferIInv', CopyChunk, pc = "packcopy" PROVE FilesIInv'
  OBVIOUS
<1>1. /\ pc' = "packcopy" /\ left > 0 /\ TransferIInv /\ TypeOK
      /\ at' = at + Len(CopyImage) /\ from' = from + Len(CopyImage)
      /\ left' = left - Len(CopyImage)
      /\ disk' = Written(Len(Pending.image))
      /\ UNCHANGED <<dlist, fb_list, req, queue, idx, goal, ncmd>>
  BY DEF CopyChunk, Transfer, FilesIInv
<1>2. PICK f, base : f = fb_list[idx] /\ base = PackBase
  OBVIOUS
<1>3. /\ fb_list \in Seq(ItemType) /\ LayoutOK(fb_list) /\ idx \in 1 .. Len(fb_list)
      /\ f \in ItemType /\ f \in ItemSet(fb_list) /\ Extent(f) \subseteq Area
      /\ f.start \in Nat /\ Blocks(f) \in Nat /\ FileEnd(f) = f.start + Blocks(f)
      /\ FileEnd(f) =< TotalSize
      /\ base \in Nat /\ DataBegin =< base /\ base =< f.start
      /\ InPrimary(base) <=> InPrimary(f.start)
      /\ at \in Nat /\ left \in Nat /\ base =< at /\ at + left = base + Blocks(f)
      /\ from = f.start + (at - base)
      /\ NextTo(base, fb_list, idx)
      /\ \A g \in ItemSet(fb_list) : g = f \/ FileEnd(g) =< base \/ FileEnd(f) =< g.start
  BY <1>2, PackMove
<1>4. PICK n \in Nat : /\ n = Len(CopyImage) /\ n =< left
                       /\ Len(Pending.image) \in 0 .. Len(Pending.image)
                       /\ Pending.start = at /\ Len(Pending.image) = n
  BY CopyPending
<1>5. PICK content : /\ content = goal.want[f.name]
                     /\ content = [i \in 1 .. f.size |-> content[i]]
                     /\ Halfway(disk, content, f.size, base, f.start, at - base)
  BY <1>2 DEF FilesIInv, PackOK
<1>6. PICK done \in Nat : done = at - base /\ at = base + done /\ from = f.start + done
  BY <1>3
<1>7. Halfway(disk', content, f.size, base, f.start, done + n)
  <2>1. f.size \in Nat /\ Halfway(disk, content, f.size, base, f.start, done)
    BY <1>3, <1>5, <1>6 DEF ItemType
  <2>2. \A s \in base .. at + Len(CopyImage) - 1 : s \in Area
    <3>3. at + Len(CopyImage) - 1 = (at + n) - 1
      <4>1. at \in Nat /\ n \in Nat /\ Len(CopyImage) = n
        BY <1>3, <1>4
      <4> QED
        BY <4>1
    <3> SUFFICES ASSUME NEW s \in base .. (at + n) - 1 PROVE s \in Area
      BY <3>3
    <3>0. PICK e \in Nat : e = at + n /\ e =< TotalSize
      <4>1. PICK c \in Nat : c = Blocks(f)
        BY <1>3
      <4>2. at + left = base + c /\ base =< f.start /\ f.start + c =< TotalSize
        BY <1>3, <4>1
      <4>3. TotalSize \in Nat /\ f.start \in Nat /\ base \in Nat /\ at \in Nat /\ left \in Nat
            /\ n \in Nat /\ n =< left
        BY <1>3, <1>4, AreaAssumption
      <4>4. at + n \in Nat /\ at + n =< TotalSize
        BY <4>1, <4>2, <4>3
      <4> QED
        BY <4>4
    <3>1. s \in Nat /\ DataBegin =< s /\ s < TotalSize
      <4>1. s \in base .. e - 1
        BY <3>0
      <4>2. base \in Nat /\ DataBegin =< base /\ DataBegin \in Nat /\ TotalSize \in Nat
        BY <1>3, AreaAssumption
      <4> QED
        BY <3>0, <4>1, <4>2
    <3> QED
      BY <3>1, AreaAssumption DEF Area
  <2>3. \A i \in 1 .. f.size : f.start + BlockIn(f.start, i) \in Area
    BY <1>3, ByteSector
  <2> QED
    BY <1>1, <1>3, <1>4, <1>6, <2>1, <2>2, <2>3, CopyMoves
<1>8. /\ at' = at + n /\ from' = from + n /\ left' = left - n
      /\ at' \in Nat /\ left' \in Nat /\ from' \in Nat
      /\ at' - base = done + n /\ left' =< Blocks(f) /\ from' = f.start + (at' - base)
  <2>1. at' = at + n /\ from' = from + n /\ left' = left - n
    BY <1>1, <1>4
  <2>2. PICK o \in Nat : o = f.start
    BY <1>3
  <2>3. from' = (o + done) + n /\ at' = (base + done) + n
    BY <1>6, <2>1, <2>2
  <2>4. at' - base = done + n /\ from' = o + (done + n) /\ from' \in Nat
    <3>1. base \in Nat /\ done \in Nat /\ n \in Nat /\ o \in Nat
      BY <1>3, <1>4, <1>6, <2>2
    <3>2. ((base + done) + n) - base = done + n
      BY <3>1
    <3>3. (o + done) + n = o + (done + n) /\ (o + done) + n \in Nat
      BY <3>1
    <3> QED
      BY <2>3, <3>2, <3>3
  <2>5. from' = f.start + (at' - base)
    BY <2>2, <2>4
  <2>6. left =< Blocks(f)
    BY <1>3
  <2>7. at' \in Nat /\ left' \in Nat /\ left' =< left
    <3>1. at \in Nat /\ left \in Nat /\ n \in Nat /\ n =< left
      BY <1>3, <1>4
    <3> QED
      BY <2>1, <3>1
  <2>8. left' =< Blocks(f)
    BY <1>3, <2>6, <2>7
  <2> QED
    BY <2>1, <2>4, <2>5, <2>7, <2>8
<1>9. PackBase' = base
  <2>1. PackBase' = at' + (left' - Blocks(f))
    <3>1. PackBase' = at' + left' - Blocks(fb_list'[idx'])
      BY DEF PackBase
    <3>2. fb_list'[idx'] = f
      <4>1. fb_list' = fb_list /\ idx' = idx
        BY <1>1
      <4> QED
        BY <1>2, <4>1
    <3>3. PICK c \in Nat, x \in Nat, y \in Nat : c = Blocks(f) /\ x = at' /\ y = left'
      BY <1>3, <1>8
    <3>4. x + y - c = x + (y - c)
      BY <3>3
    <3> QED
      BY <3>1, <3>2, <3>3, <3>4
  <2>2. PackBase = at + (left - Blocks(f))
    BY <1>2, <1>3 DEF PackBase
  <2>3. PICK c \in Nat : c = Blocks(f)
    BY <1>3
  <2>4. at' + (left' - c) = at + (left - c)
    <3>1. at \in Nat /\ left \in Nat /\ n \in Nat
      BY <1>3, <1>4
    <3>2. (at + n) + ((left - n) - c) = at + (left - c)
      BY <2>3, <3>1
    <3>3. at' = at + n /\ left' = left - n
      BY <1>8
    <3> QED
      BY <3>2, <3>3
  <2> QED
    BY <1>2, <2>1, <2>2, <2>3, <2>4
<1>10. PackOK'
  <2>1. \A i \in 1 .. idx - 1 : NextTo(fb_list[i].start, fb_list, i)
    BY DEF FilesIInv, PackOK
  <2>2. Halfway(disk', content, f.size, base, f.start, at' - base)
    BY <1>7, <1>8
  <2> QED
    BY <1>1, <1>2, <1>3, <1>5, <1>8, <1>9, <2>1, <2>2 DEF PackOK
<1>11. TypeOK'
  <2>1. disk' \in [Area -> [1 .. ExtBlock -> Cell]]
    BY <1>1, <1>4, DiskTyped
  <2> QED
    BY <1>1, <1>8, <2>1, TypeStep DEF TypeOK
<1>12. Fulfils(disk', fb_list', goal'.want, Unfinished')
  <2>1. Unfinished' = {f.name} /\ Unfinished = {f.name}
    BY <1>1, <1>2 DEF Unfinished, Storing
  <2>2. Fulfils(disk, fb_list, goal.want, {f.name})
    BY <2>1 DEF FilesIInv
  <2>3. ASSUME NEW g \in ItemSet(fb_list), g.name # f.name
        PROVE  ContentAt(disk', g) = ContentAt(disk, g)
    <3>1. g \in ItemType /\ Extent(g) \subseteq Area
      BY <1>3, ListItems, ItemInside
    <3>2. g.start \in Nat /\ FileEnd(g) \in Nat
      BY <3>1, ItemExtent
    <3>3. FileEnd(g) =< base \/ FileEnd(f) =< g.start
      BY <1>3, <2>3
    <3>4. FileEnd(g) =< at \/ at + n =< g.start
      <4>1. at + n =< FileEnd(f) /\ FileEnd(f) \in Nat
        BY <1>3, <1>4
      <4>2. base =< at /\ base \in Nat /\ at \in Nat /\ at + n \in Nat
        BY <1>3, <1>4
      <4>3. CASE FileEnd(g) =< base
        BY <3>2, <4>2, <4>3
      <4>4. CASE FileEnd(f) =< g.start
        BY <3>2, <4>1, <4>2, <4>4
      <4> QED
        BY <3>3, <4>3, <4>4
    <3>5. \A s \in Extent(g) : s \in Area /\ s \notin PendingExtent
      <4>1. PICK a \in Nat, b \in Nat : a = g.start /\ b = FileEnd(g)
        BY <3>2
      <4>2. Extent(g) = a .. b - 1 /\ PendingExtent = at .. at + n - 1 /\ at \in Nat
        BY <1>3, <1>4, <4>1 DEF Extent, PendingExtent
      <4>3. b =< at \/ at + n =< a
        BY <3>4, <4>1
      <4>4. \A s \in a .. b - 1 : s \notin at .. at + n - 1
        BY <4>2, <4>3
      <4> QED
        BY <3>1, <4>2, <4>4
    <3> QED
      BY <1>1, <1>4, <3>1, <3>5, WriteLeaves, ContentSame
  <2>4. Fulfils(disk', fb_list, goal.want, {f.name})
    BY <2>2, <2>3 DEF Fulfils
  <2> QED
    BY <1>1, <2>1, <2>4
<1>13. goal'.phase = "busy"
  BY <1>1 DEF FilesIInv
<1> QED
  BY <1>1, <1>10, <1>11, <1>12, <1>13 DEF FilesIInv, AllocOK, SaveOK, CopyOK, FillOK, Storing

LEMMA FilesPackItem == FilesIInv /\ TransferIInv' /\ PackItem => FilesIInv'
<1> SUFFICES ASSUME FilesIInv, TransferIInv', PackItem PROVE FilesIInv'
  OBVIOUS
<1>1. PICK f, b : f = fb_list[idx] /\ b = PackStart(at, f)
  OBVIOUS
<1>2. /\ pc = "pack" /\ idx =< Len(fb_list) /\ TypeOK
      /\ IF f.start = b THEN /\ at' = b + Blocks(f) /\ idx' = idx + 1 /\ pc' = "pack"
                             /\ UNCHANGED <<from, left>>
         ELSE /\ pc' = "packcopy" /\ at' = b /\ from' = f.start /\ left' = Blocks(f)
              /\ idx' = idx
      /\ UNCHANGED <<disk, dlist, fb_list, req, queue, ncmd, goal>>
  BY <1>1 DEF PackItem, FilesIInv
<1>3. /\ fb_list \in Seq(ItemType) /\ LayoutOK(fb_list) /\ idx \in 1 .. Len(fb_list)
      /\ at \in Nat
  BY <1>2 DEF FilesIInv, TransferIInv, LayoutIInv, LayoutInv, PackInv, TypeOK
<1>4. /\ f \in ItemType /\ f \in ItemSet(fb_list) /\ f.start \in Nat /\ f.size \in Nat
      /\ Blocks(f) \in Nat /\ FileEnd(f) = f.start + Blocks(f)
  BY <1>1, <1>3, ListItems, ItemExtent DEF FileEnd
<1>5. /\ at = GapBegin(fb_list, idx)
      /\ \A i \in 1 .. idx - 1 : NextTo(fb_list[i].start, fb_list, i)
  BY <1>2 DEF FilesIInv, PackOK
<1>6. NextTo(b, fb_list, idx) /\ b \in Nat
  BY <1>1, <1>3, <1>5, AreaAssumption DEF NextTo, PackStart
<1>7. goal'.phase = "busy" /\ Fulfils(disk, fb_list, goal.want, {})
  BY <1>2 DEF FilesIInv, Unfinished, Storing
<1>8. TypeOK'
  BY <1>2, <1>4, TypeStep DEF TypeOK
<1>9. CASE f.start = b
  <2>1. pc' = "pack" /\ idx' = idx + 1 /\ at' = FileEnd(f)
    BY <1>2, <1>4, <1>9
  <2>2. GapBegin(fb_list, idx + 1) = FileEnd(f)
    BY <1>1, <1>3 DEF GapBegin
  <2>3. \A i \in 1 .. idx : NextTo(fb_list[i].start, fb_list, i)
    <3> TAKE i \in 1 .. idx
    <3>1. i = idx \/ i \in 1 .. idx - 1
      BY <1>3
    <3> QED
      BY <1>1, <1>5, <1>6, <1>9, <3>1
  <2>4. PackOK'
    BY <1>2, <1>3, <2>1, <2>2, <2>3 DEF PackOK
  <2>5. Unfinished' = {}
    BY <2>1 DEF Unfinished, Storing
  <2>6. Fulfils(disk', fb_list', goal'.want, Unfinished')
    BY <1>2, <1>7, <2>5
  <2> QED
    BY <1>7, <1>8, <2>1, <2>4, <2>6 DEF FilesIInv, AllocOK, SaveOK, CopyOK, FillOK, Storing
<1>10. CASE f.start # b
  <2>1. pc' = "packcopy" /\ at' = b /\ from' = f.start /\ left' = Blocks(f) /\ idx' = idx
    BY <1>2, <1>10
  <2>2. PackBase' = b
    BY <1>1, <1>2, <1>4, <1>6, <2>1 DEF PackBase
  <2>3. goal.want[f.name] = ContentAt(disk, f)
    BY <1>4, <1>7 DEF Fulfils
  <2>4. goal.want[f.name] = [i \in 1 .. f.size |-> goal.want[f.name][i]]
    BY <2>3 DEF ContentAt
  <2>5. Halfway(disk, goal.want[f.name], f.size, b, f.start, 0)
    <3>1. \A i \in 1 .. f.size : ~(BlockIn(f.start, i) < 0)
      <4>1. \A i \in 1 .. f.size : BlockIn(f.start, i) \in Nat
        BY <1>4, BlockInFile
      <4> QED
        BY <4>1
    <3>2. \A i \in 1 .. f.size : goal.want[f.name][i] = Masked(ByteAt(disk, f.start, i))
      BY <2>3 DEF ContentAt
    <3> QED
      BY <3>1, <3>2 DEF Halfway
  <2>6. from' = f.start + (at' - b) /\ at' - b = 0 /\ left' =< Blocks(f)
    BY <1>4, <1>6, <2>1
  <2>7. PackOK'
    <3>1. Halfway(disk, goal.want[f.name], f.size, b, f.start, at' - b)
      BY <2>5, <2>6
    <3> QED
      BY <1>1, <1>2, <1>5, <1>6, <2>1, <2>2, <2>4, <2>6, <3>1 DEF PackOK
  <2>8. Unfinished' = {f.name}
    BY <1>1, <1>2, <2>1 DEF Unfinished, Storing
  <2>9. Fulfils(disk, fb_list, goal.want, {f.name})
    <3>1. f.name \in NamesOf(fb_list)
      BY <1>3, <1>4, ListItems
    <3> QED
      BY <1>7, <3>1 DEF Fulfils
  <2>10. Fulfils(disk', fb_list', goal'.want, Unfinished')
    BY <1>2, <2>8, <2>9
  <2> QED
    BY <1>7, <1>8, <2>1, <2>7, <2>10 DEF FilesIInv, AllocOK, SaveOK, CopyOK, FillOK, Storing
<1> QED
  BY <1>9, <1>10

LEMMA FilesPackMoved == FilesIInv /\ TransferIInv' /\ PackMoved => FilesIInv'
<1> SUFFICES ASSUME FilesIInv, TransferIInv', PackMoved PROVE FilesIInv'
  OBVIOUS
<1>1. PICK f, base : f = fb_list[idx] /\ base = PackBase
  OBVIOUS
<1>2. /\ pc = "packcopy" /\ pc' = "pack" /\ left = 0 /\ idx' = idx + 1 /\ TypeOK
      /\ fb_list' = [fb_list EXCEPT ![idx].start = at - Blocks(f)]
      /\ UNCHANGED <<disk, dlist, req, queue, at, from, left, ncmd, goal>>
  BY <1>1 DEF PackMoved, FilesIInv
<1>3. /\ fb_list \in Seq(ItemType) /\ LayoutOK(fb_list) /\ idx \in 1 .. Len(fb_list)
      /\ f \in ItemType /\ f \in ItemSet(fb_list) /\ Blocks(f) \in Nat
      /\ base \in Nat /\ DataBegin =< base /\ base =< f.start
      /\ \A j \in 1 .. idx - 1 : FileEnd(fb_list[j]) =< base
      /\ InPrimary(base) <=> InPrimary(f.start)
      /\ at \in Nat /\ at + left = base + Blocks(f)
      /\ NextTo(base, fb_list, idx)
  BY <1>1, <1>2, PackMove
<1>4. at = base + Blocks(f) /\ at - Blocks(f) = base /\ at - base = Blocks(f)
  BY <1>2, <1>3
<1>5. PICK content : /\ content = goal.want[f.name]
                     /\ content = [i \in 1 .. f.size |-> content[i]]
                     /\ Halfway(disk, content, f.size, base, f.start, Blocks(f))
  BY <1>1, <1>2, <1>4 DEF FilesIInv, PackOK
<1>6. PICK g \in ItemType : /\ g = [f EXCEPT !.start = base]
                            /\ g.start = base /\ g.size = f.size /\ g.name = f.name
  <2>1. /\ [f EXCEPT !.start = base] \in ItemType
        /\ [f EXCEPT !.start = base].start = base
        /\ [f EXCEPT !.start = base].size = f.size
        /\ [f EXCEPT !.start = base].name = f.name
    BY <1>3 DEF ItemType
  <2> QED
    BY <2>1
<1>7. PICK new \in Seq(ItemType) :
        /\ new = fb_list' /\ Len(new) = Len(fb_list) /\ new[idx] = g
        /\ \A j \in 1 .. Len(fb_list) : j # idx => new[j] = fb_list[j]
  <2>1. fb_list' = [fb_list EXCEPT ![idx] = g]
    BY <1>1, <1>2, <1>4, <1>6
  <2>2. /\ [fb_list EXCEPT ![idx] = g] \in Seq(ItemType)
        /\ Len([fb_list EXCEPT ![idx] = g]) = Len(fb_list)
        /\ [fb_list EXCEPT ![idx] = g][idx] = g
        /\ \A j \in 1 .. Len(fb_list) : j # idx => [fb_list EXCEPT ![idx] = g][j] = fb_list[j]
    BY <1>3
  <2> QED
    BY <2>1, <2>2
<1>8. /\ ItemSet(new) = (ItemSet(fb_list) \ {f}) \union {g}
      /\ NamesOf(new) = (NamesOf(fb_list) \ {f.name}) \union {g.name}
  BY <1>1, <1>3, <1>7, ExceptItems
<1>9. goal.want[f.name] = ContentAt(disk, g)
  <2>1. \A i \in 1 .. f.size : content[i] = Masked(ByteAt(disk, base, i))
    BY <1>3, <1>5, ByteSector DEF Halfway
  <2> QED
    BY <1>5, <1>6, <2>1 DEF ContentAt
<1>10. Fulfils(disk, new, goal.want, {})
  <2>1. Fulfils(disk, fb_list, goal.want, {f.name})
    BY <1>1, <1>2 DEF FilesIInv, Unfinished, Storing
  <2>2. f.name \in NamesOf(fb_list)
    BY <1>3, ListItems
  <2>3. NamesOf(new) = NamesOf(fb_list) \union {f.name}
    BY <1>6, <1>8, <2>2
  <2>4. ASSUME NEW h \in ItemSet(new) PROVE goal.want[h.name] = ContentAt(disk, h)
    <3>1. CASE h = g
      BY <1>6, <1>9, <3>1
    <3>2. CASE h \in ItemSet(fb_list) /\ h # f
      <4>1. h.name # f.name
        BY <1>3, <3>2, ItemsApart
      <4> QED
        BY <2>1, <3>2, <4>1 DEF Fulfils
    <3> QED
      BY <1>8, <3>1, <3>2
  <2> QED
    BY <2>1, <2>3, <2>4 DEF Fulfils
<1>11. Blocks(g) = Blocks(f) /\ FileEnd(g) = at
  BY <1>3, <1>4, <1>6 DEF FileEnd, Blocks, BlockOf
<1>12. \A i \in 1 .. idx : GapBegin(new, i) = GapBegin(fb_list, i)
  <2> TAKE i \in 1 .. idx
  <2>1. i # 1 => i - 1 \in 1 .. Len(fb_list) /\ i - 1 # idx
    BY <1>3
  <2> QED
    BY <1>7, <2>1 DEF GapBegin
<1>13. GapBegin(new, idx + 1) = at
  BY <1>3, <1>7, <1>11 DEF GapBegin
<1>14. \A i \in 1 .. idx : NextTo(new[i].start, new, i)
  <2> TAKE i \in 1 .. idx
  <2>1. CASE i = idx
    BY <1>3, <1>6, <1>7, <1>12, <2>1 DEF NextTo
  <2>2. CASE i \in 1 .. idx - 1
    <3>1. NextTo(fb_list[i].start, fb_list, i)
      BY <1>2, <2>2 DEF FilesIInv, PackOK
    <3>2. new[i] = fb_list[i]
      BY <1>3, <1>7, <2>2
    <3> QED
      BY <1>12, <3>1, <3>2 DEF NextTo
  <2> QED
    BY <1>3, <2>1, <2>2
<1>15. PackOK'
  <2>1. idx' - 1 = idx
    BY <1>2, <1>3
  <2>2. \A i \in 1 .. idx' - 1 : NextTo(fb_list'[i].start, fb_list', i)
    BY <1>7, <1>14, <2>1
  <2>3. at' = GapBegin(fb_list', idx')
    BY <1>2, <1>7, <1>13
  <2> QED
    BY <1>2, <2>2, <2>3 DEF PackOK
<1>16. TypeOK'
  BY <1>2, TypeStep DEF TypeOK
<1>17. Unfinished' = {}
  BY <1>2 DEF Unfinished, Storing
<1>18. Fulfils(disk', fb_list', goal'.want, Unfinished')
  BY <1>2, <1>7, <1>10, <1>17
<1>19. goal'.phase = "busy"
  BY <1>2 DEF FilesIInv
<1> QED
  BY <1>2, <1>15, <1>16, <1>18, <1>19 DEF FilesIInv, AllocOK, SaveOK, CopyOK, FillOK, Storing

LEMMA FilesPackDone == FilesIInv /\ TransferIInv' /\ PackDone => FilesIInv'
<1> SUFFICES ASSUME FilesIInv, TransferIInv', PackDone PROVE FilesIInv'
  OBVIOUS
<1>1. /\ pc = "pack" /\ pc' = "commit" /\ TypeOK
      /\ UNCHANGED <<disk, dlist, fb_list, req, queue, at, from, left, idx, ncmd, goal>>
  BY DEF PackDone, FilesIInv
<1>2. goal'.phase = "busy" /\ Fulfils(disk, fb_list, goal.want, {})
  BY <1>1 DEF FilesIInv, Unfinished, Storing
<1>3. TypeOK'
  BY <1>1, TypeStep DEF TypeOK
<1>4. Fulfils(disk', fb_list', goal'.want, {})
  BY <1>1, <1>2
<1> QED
  BY <1>1, <1>2, <1>3, <1>4, FilesCommits

-----------------------------------------------------------------------------
(***************************************************************************)
(* Every step, and the theorems.                                           *)
(***************************************************************************)

\* Where a command ends, by its commit, an error or an interruption.
LEMMA FilesEnd ==
    FilesIInv /\ TransferIInv' /\ (AllocQuit \/ PatchQuit \/ WriteHeader \/ Interrupt) => FilesIInv'
<1> SUFFICES ASSUME FilesIInv, TransferIInv', AllocQuit \/ PatchQuit \/ WriteHeader \/ Interrupt
             PROVE  FilesIInv'
  OBVIOUS
<1>1. disk \in [Area -> [1 .. ExtBlock -> Cell]]
  BY DEF FilesIInv, TypeOK
<1>2. CASE AllocQuit \/ PatchQuit
  <2>1. Forget(FS!NoGoal) /\ UNCHANGED <<disk, ncmd>> /\ FS!NoGoal.phase # "busy"
    BY <1>2 DEF AllocQuit, PatchQuit, Quit, FS!NoGoal
  <2> QED
    BY <1>1, <2>1, FilesForget
<1>3. CASE WriteHeader
  <2>1. Forget(FS!Achieved) /\ UNCHANGED <<disk, ncmd>> /\ FS!Achieved.phase # "busy"
    BY <1>3 DEF WriteHeader, FS!Achieved, FS!NoGoal
  <2> QED
    BY <1>1, <2>1, FilesForget
<1>4. CASE Interrupt
  <2>1. Forget(FS!NoGoal) /\ ncmd' = ncmd /\ FS!NoGoal.phase # "busy"
    BY <1>4 DEF Interrupt, FS!NoGoal
  <2>2. disk' \in [Area -> [1 .. ExtBlock -> Cell]]
    BY <1>4, DiskTyped DEF Interrupt
  <2> QED
    BY <2>1, <2>2, FilesForget
<1> QED
  BY <1>2, <1>3, <1>4

LEMMA FilesStutter == FilesIInv /\ TransferIInv' /\ UNCHANGED vars => FilesIInv'
<1> SUFFICES ASSUME FilesIInv, TransferIInv', UNCHANGED vars PROVE FilesIInv'
  OBVIOUS
<1>1. UNCHANGED <<disk, dlist, fb_list, pc, req, queue, at, from, left, idx, ncmd, goal>>
  BY DEF vars, work
<1>2. TypeOK'
  BY <1>1 DEF FilesIInv, TypeOK
<1>3. Unfinished' = Unfinished
  BY <1>1 DEF Unfinished, Storing
<1>4. Fulfils(disk, fb_list, goal.want, Unfinished) => Fulfils(disk', fb_list', goal'.want, Unfinished')
  BY <1>1, <1>3
<1>5. Target' = Target /\ OldWhole' = OldWhole /\ PackBase' = PackBase
  BY <1>1 DEF Target, OldWhole, PackBase
<1>6. QueueWanted => QueueWanted'
  BY <1>1 DEF QueueWanted
<1>7. AllocOK' /\ SaveOK' /\ CopyOK' /\ FillOK'
  BY <1>1, <1>5 DEF FilesIInv, AllocOK, SaveOK, CopyOK, FillOK
<1>8. PackOK'
  BY <1>1, <1>5 DEF FilesIInv, PackOK
<1>9. Storing' = Storing
  BY <1>1 DEF Storing
<1> QED
  BY <1>1, <1>2, <1>4, <1>6, <1>7, <1>8, <1>9 DEF FilesIInv

LEMMA FilesNext == FilesIInv /\ [Next]_vars => FilesIInv'
<1> SUFFICES ASSUME FilesIInv, [Next]_vars PROVE FilesIInv'
  OBVIOUS
<1>1. TransferIInv'
  BY TransferNext DEF FilesIInv
<1>2. CASE Command
  BY <1>1, <1>2, FilesCommand
<1>3. CASE AllocFile
  BY <1>1, <1>3, FilesAlloc
<1>4. CASE SaveChunk
  BY <1>1, <1>4, FilesSave
<1>5. CASE SyslinuxPatch
  BY <1>1, <1>5, FilesPatch
<1>6. CASE CopyChunk
  BY <1>1, <1>6, FilesCopyChunk, FilesPackChunk DEF CopyChunk
<1>7. CASE CopyDone
  BY <1>1, <1>7, FilesCopyDone
<1>8. CASE CopyTail
  BY <1>1, <1>8, FilesCopyTail
<1>9. CASE FillChunk
  BY <1>1, <1>9, FilesFill
<1>10. CASE PackItem
  BY <1>1, <1>10, FilesPackItem
<1>11. CASE PackMoved
  BY <1>1, <1>11, FilesPackMoved
<1>12. CASE PackDone
  BY <1>1, <1>12, FilesPackDone
<1>13. CASE AllocQuit \/ PatchQuit \/ WriteHeader \/ Interrupt
  BY <1>1, <1>13, FilesEnd
<1>14. CASE UNCHANGED vars
  BY <1>1, <1>14, FilesStutter
<1> QED
  BY <1>2, <1>3, <1>4, <1>5, <1>6, <1>7, <1>8, <1>9, <1>10, <1>11, <1>12, <1>13, <1>14
     DEF Next, Step, Stop

\* fbinst's file commands do what FileStore says, for every disk geometry,
\* buffer size, set of names and inputs: a command that ends commits exactly
\* the files it is to make, byte for byte, and a run that is interrupted
\* anywhere, even within a write call, damages no file but those the command
\* names.
THEOREM FileStoreRefinement == Spec => RefinesFileStore
<1>1. Init => FS!Init
  <2> SUFFICES ASSUME Init PROVE Store = <<>> /\ goal = FS!NoGoal
    BY DEF FS!Init
  <2>1. NamesOf(dlist) = {}
    BY DEF Init, NamesOf
  <2>2. Store = <<>>
    BY <2>1 DEF Store
  <2> QED
    BY <2>2 DEF Init
<1>2. FilesIInv /\ [Next]_vars => [FS!Next]_(FS!vars)
  BY StepRefines
<1> QED
  BY <1>1, <1>2, FilesInit, FilesNext, PTL DEF Spec, RefinesFileStore, FS!Spec

\* Every variable keeps its type, and pack_disk leaves no sector free before an
\* item it has handled, but at the end of the primary area.
THEOREM FilesPackedTight == Spec => []BlocksInv
<1>1. FilesIInv => BlocksInv
  BY DEF FilesIInv, BlocksInv, PackTight, PackOK, NextTo
<1> QED
  BY FilesInit, FilesNext, <1>1, PTL DEF Spec
-----------------------------------------------------------------------------
(***************************************************************************)
(* The bytes of a list.                                                    *)
(***************************************************************************)

\* The bytes of the items with the given names, each by its name and number.
CellsOf(names) == UNION {{n} \X (1 .. ItemBytes[n]) : n \in names}
SizeOf(names) == Cardinality(CellsOf(names))

NamesAt(list, places) == {list[i].name : i \in places}

LEMMA NamesTyped ==
    ASSUME NEW list \in Seq(ItemType), NEW i \in 1 .. Len(list)
    PROVE  list[i].name \in Names
<1>1. list[i] \in ItemType
  OBVIOUS
<1> QED
  BY <1>1 DEF ItemType

\* There are finitely many names in a list.
LEMMA NamesFinite ==
    ASSUME NEW list \in Seq(ItemType), NEW s \in SUBSET (1 .. Len(list))
    PROVE  /\ IsFiniteSet(s) /\ IsFiniteSet(NamesAt(list, s)) /\ NamesAt(list, s) \subseteq Names
<1>1. IsFiniteSet(1 .. Len(list))
  BY FS_Interval
<1>2. IsFiniteSet(s)
  BY <1>1, FS_Subset
<1>3. PICK f : f = [i \in s |-> list[i].name]
  OBVIOUS
<1>4. PICK T : T = NamesAt(list, s)
  OBVIOUS
<1>7. f \in Surjection(s, T)
  BY <1>3, <1>4 DEF Surjection, NamesAt
<1>8. IsFiniteSet(T)
  BY <1>2, <1>7, FS_Surjection
<1>5. IsFiniteSet(NamesAt(list, s))
  BY <1>4, <1>8
<1>9. \A i \in 1 .. Len(list) : list[i].name \in Names
  BY NamesTyped
<1>6. NamesAt(list, s) \subseteq Names
  BY <1>9 DEF NamesAt
<1> QED
  BY <1>2, <1>5, <1>6

\* A set with one element, and numbers from 1.
LEMMA OneToN ==
    /\ \A x : IsFiniteSet({x}) /\ Cardinality({x}) = 1
    /\ \A n \in Nat : IsFiniteSet(1 .. n) /\ Cardinality(1 .. n) = n
<1>1. \A x : IsFiniteSet({x}) /\ Cardinality({x}) = 1
  BY FS_Singleton
<1>2. ASSUME NEW n \in Nat PROVE IsFiniteSet(1 .. n) /\ Cardinality(1 .. n) = n
  <2>1. 1 \in Int /\ n \in Int
    OBVIOUS
  <2>2. IsFiniteSet(1 .. n) /\ Cardinality(1 .. n) = (IF 1 > n THEN 0 ELSE n - 1 + 1)
    BY <2>1, FS_Interval
  <2> QED
    BY <2>2
<1> QED
  BY <1>1, <1>2

LEMMA CellsFinite ==
    ASSUME NEW names, names \subseteq Names, IsFiniteSet(names)
    PROVE  IsFiniteSet(CellsOf(names))
<1>1. PICK S : S = {{n} \X (1 .. ItemBytes[n]) : n \in names}
  OBVIOUS
<1>2. PICK f : f = [n \in names |-> {n} \X (1 .. ItemBytes[n])]
  OBVIOUS
<1>3. f \in Surjection(names, S)
  BY <1>1, <1>2 DEF Surjection
<1>4. IsFiniteSet(S)
  BY <1>3, FS_Surjection
<1>5. ASSUME NEW T \in S PROVE IsFiniteSet(T)
  <2>1. PICK n \in names : T = {n} \X (1 .. ItemBytes[n])
    BY <1>1
  <2>2. ItemBytes[n] \in Nat
    BY StoreAssumption
  <2>3. IsFiniteSet({n}) /\ IsFiniteSet(1 .. ItemBytes[n])
    BY <2>2, OneToN
  <2> QED
    BY <2>1, <2>3, FS_Product
<1>6. IsFiniteSet(UNION S)
  BY <1>4, <1>5, FS_UNION
<1> QED
  BY <1>1, <1>6 DEF CellsOf

\* A new name adds the bytes of its item.
LEMMA SizeWith ==
    ASSUME NEW names, names \subseteq Names, IsFiniteSet(names), NEW n \in Names \ names
    PROVE  /\ SizeOf(names) \in Nat
           /\ SizeOf(names \cup {n}) = SizeOf(names) + ItemBytes[n]
<1>1. PICK C : C = CellsOf(names)
  OBVIOUS
<1>2. IsFiniteSet(C) /\ Cardinality(C) \in Nat
  BY <1>1, CellsFinite, FS_CardinalityType
<1>3. PICK b \in Nat : b = ItemBytes[n]
  BY StoreAssumption
<1>4. PICK E : E = {n} \X (1 .. b)
  OBVIOUS
<1>5. IsFiniteSet(E) /\ Cardinality(E) = b
  <2>1. IsFiniteSet({n}) /\ Cardinality({n}) = 1
    BY OneToN
  <2>2. IsFiniteSet(1 .. b) /\ Cardinality(1 .. b) = b
    BY <1>3, OneToN
  <2>3. PICK A, B : A = {n} /\ B = 1 .. b
    OBVIOUS
  <2>4. IsFiniteSet(A \X B) /\ Cardinality(A \X B) = Cardinality(A) * Cardinality(B)
    BY <2>1, <2>2, <2>3, FS_Product
  <2>5. IsFiniteSet(E) /\ Cardinality(E) = 1 * b
    BY <1>4, <2>1, <2>2, <2>3, <2>4
  <2> QED
    BY <1>3, <2>5
<1>6. CellsOf(names \cup {n}) = C \cup E
  BY <1>1, <1>3, <1>4 DEF CellsOf
<1>7. C \cap E = {}
  BY <1>1, <1>4 DEF CellsOf
<1>8. Cardinality(C \cup E) = Cardinality(C) + Cardinality(E) - Cardinality(C \cap E)
  BY <1>2, <1>5, FS_Union
<1>9. Cardinality(C \cap E) = 0
  BY <1>7, FS_EmptySet
<1>10. PICK c \in Nat : c = Cardinality(C)
  BY <1>2
<1>11. Cardinality(C \cup E) = c + b
  BY <1>3, <1>5, <1>8, <1>9, <1>10
<1> QED
  BY <1>1, <1>3, <1>6, <1>10, <1>11 DEF SizeOf

LEMMA SizeLess ==
    ASSUME NEW names, names \subseteq Names, IsFiniteSet(names), NEW some, some \subseteq names
    PROVE  SizeOf(some) \in Nat /\ SizeOf(names) \in Nat /\ SizeOf(some) =< SizeOf(names)
<1>1. CellsOf(some) \in SUBSET CellsOf(names)
  BY DEF CellsOf
<1>2. IsFiniteSet(CellsOf(names))
  BY CellsFinite
<1>3. IsFiniteSet(CellsOf(some)) /\ Cardinality(CellsOf(some)) =< Cardinality(CellsOf(names))
  BY <1>1, <1>2, FS_Subset
<1> QED
  BY <1>2, <1>3, FS_CardinalityType DEF SizeOf

LEMMA SizeNone == SizeOf({}) = 0
<1>1. CellsOf({}) = {}
  BY DEF CellsOf
<1> QED
  BY <1>1, FS_EmptySet DEF SizeOf

\* A set of naturals has a least one.
LEMMA LeastNatural ==
    ASSUME NEW N, N \subseteq Nat, N # {}
    PROVE  \E n \in N : \A m \in N : n =< m
<1>. DEFINE R == OpToRel(<, Nat)
<1>1. IsWellFoundedOn(R, Nat)
  BY NatLessThanWellFounded
<1>2. \E n \in N : \A m \in N : <<m, n>> \notin R
  <2>. HIDE DEF R
  <2> QED
    BY <1>1, WFMin
<1>3. R = {p \in Nat \X Nat : p[1] < p[2]}
  BY DEF OpToRel
<1>4. \A m, n \in Nat : m < n => <<m, n>> \in R
  BY <1>3
<1>. HIDE DEF R
<1>5. \A n, m \in Nat : <<m, n>> \notin R => n =< m
  <2>1. ASSUME NEW n \in Nat, NEW m \in Nat, ~(n =< m) PROVE <<m, n>> \in R
    <3>1. m < n
      BY <2>1
    <3> QED
      BY <1>4, <3>1
  <2> QED
    BY <2>1
<1> QED
  BY <1>2, <1>5

\* What ListBytes adds up, for each set of places.
IsSum(list, g) ==
    g = [s \in SUBSET (1 .. Len(list)) |->
           IF s = {} THEN 0
           ELSE ItemBytes[list[CHOOSE x \in s : TRUE].name] + g[s \ {CHOOSE x \in s : TRUE}]]

LEMMA ListBytesSum ==
    ASSUME NEW list
    PROVE  ListBytes(list) = (CHOOSE g : IsSum(list, g))[1 .. Len(list)]
BY DEF ListBytes, MapThenSumSet, MapThenFoldSet, IsSum

\* The sizes of the sets of names add up.
LEMMA SizesAddUp ==
    ASSUME NEW list \in Seq(ItemType), UniqueNames(list)
    PROVE  IsSum(list, [s \in SUBSET (1 .. Len(list)) |-> SizeOf(NamesAt(list, s))])
<1>1. PICK D : D = 1 .. Len(list)
  OBVIOUS
<1>2. PICK g : g = [s \in SUBSET D |-> SizeOf(NamesAt(list, s))]
  OBVIOUS
<1>3. ASSUME NEW s \in SUBSET D
      PROVE  g[s] = IF s = {} THEN 0
                    ELSE ItemBytes[list[CHOOSE x \in s : TRUE].name] + g[s \ {CHOOSE x \in s : TRUE}]
  <2>1. CASE s = {}
    <3>1. NamesAt(list, s) = {}
      BY <2>1 DEF NamesAt
    <3> QED
      BY <1>2, <2>1, <3>1, SizeNone
  <2>2. CASE s # {}
    <3>1. PICK y : y = CHOOSE x \in s : TRUE
      OBVIOUS
    <3>2. y \in s
      BY <2>2, <3>1
    <3>3. PICK r : r = s \ {y}
      OBVIOUS
    <3>4. r \in SUBSET D /\ r \in SUBSET (1 .. Len(list)) /\ y \in 1 .. Len(list) /\ y \notin r
          /\ s = r \cup {y}
      BY <1>1, <3>2, <3>3
    <3>5. PICK n \in Names : n = list[y].name
      <4>1. list[y].name \in Names
        BY <3>4, NamesTyped
      <4> QED
        BY <4>1
    <3>6. PICK N : N = NamesAt(list, r)
      OBVIOUS
    <3>7. N \subseteq Names /\ IsFiniteSet(N)
      BY <3>4, <3>6, NamesFinite
    <3>8. n \notin N
      BY <3>4, <3>5, <3>6 DEF NamesAt, UniqueNames
    <3>9. NamesAt(list, s) = N \cup {n}
      BY <3>4, <3>5, <3>6 DEF NamesAt
    <3>10. SizeOf(N \cup {n}) = SizeOf(N) + ItemBytes[n] /\ SizeOf(N) \in Nat
      BY <3>5, <3>7, <3>8, SizeWith
    <3>11. ItemBytes[n] \in Nat
      BY StoreAssumption
    <3>13. g[s] = SizeOf(N \cup {n}) /\ g[r] = SizeOf(N)
      BY <1>2, <3>4, <3>6, <3>9
    <3>12. g[s] = ItemBytes[n] + g[r]
      BY <3>10, <3>11, <3>13
    <3> QED
      BY <2>2, <3>1, <3>3, <3>5, <3>12
  <2> QED
    BY <2>1, <2>2
<1> QED
  BY <1>1, <1>2, <1>3, Zenon DEF IsSum

\* So ListBytes gives the size of the names of the list.
LEMMA ListBytesIs ==
    ASSUME NEW list \in Seq(ItemType), UniqueNames(list)
    PROVE  ListBytes(list) = SizeOf(NamesOf(list))
<1>1. PICK D : D = 1 .. Len(list)
  OBVIOUS
<1>2. PICK h : h = [s \in SUBSET D |-> SizeOf(NamesAt(list, s))] /\ IsSum(list, h)
  BY <1>1, SizesAddUp
<1>3. PICK g : g = (CHOOSE f : IsSum(list, f)) /\ IsSum(list, g)
  BY <1>2
<1>4. \A s \in SUBSET D : g[s] = h[s]
  <2>1. PICK Bad : Bad = {s \in SUBSET D : g[s] # h[s]}
    OBVIOUS
  <2> SUFFICES ASSUME Bad # {} PROVE FALSE
    BY <2>1
  <2>2. \A s \in SUBSET D : IsFiniteSet(s) /\ Cardinality(s) \in Nat
    BY <1>1, NamesFinite, FS_CardinalityType
  <2>3. PICK N : N = {Cardinality(s) : s \in Bad}
    OBVIOUS
  <2>4. N \subseteq Nat /\ N # {}
    BY <2>1, <2>2, <2>3
  <2>5. PICK n \in N : \A m \in N : n =< m
    BY <2>4, LeastNatural
  <2>6. PICK s \in Bad : n = Cardinality(s)
    BY <2>3, <2>5
  <2>7. s \in SUBSET D /\ g[s] # h[s]
    BY <2>1, <2>6
  <2>8. PICK y : y = CHOOSE x \in s : TRUE
    OBVIOUS
  <2>9. PICK r : r = s \ {y}
    OBVIOUS
  <2>10. /\ g[s] = IF s = {} THEN 0 ELSE ItemBytes[list[y].name] + g[r]
         /\ h[s] = IF s = {} THEN 0 ELSE ItemBytes[list[y].name] + h[r]
    BY <1>1, <1>2, <1>3, <2>7, <2>8, <2>9, Zenon DEF IsSum
  <2>11. s # {} /\ y \in s /\ r \in SUBSET D
    BY <2>7, <2>8, <2>9, <2>10
  <2>12. Cardinality(r) = n - 1 /\ n \in Nat /\ Cardinality(r) \in Nat
    <3>1. IsFiniteSet(s)
      BY <2>2, <2>7
    <3>2. Cardinality(r) = IF y \in s THEN Cardinality(s) - 1 ELSE Cardinality(s)
      BY <2>9, <3>1, FS_RemoveElement
    <3> QED
      BY <2>2, <2>4, <2>5, <2>6, <2>11, <3>2
  <2>13. r \notin Bad
    <3>1. r \in Bad => Cardinality(r) \in N
      BY <2>3
    <3>2. r \in Bad => n =< n - 1
      BY <2>5, <2>12, <3>1
    <3> QED
      BY <2>12, <3>2
  <2>14. g[r] = h[r]
    BY <2>1, <2>11, <2>13
  <2> QED
    BY <2>7, <2>10, <2>14
<1>5. ListBytes(list) = g[D]
  BY <1>1, <1>3, ListBytesSum
<1>6. h[D] = SizeOf(NamesAt(list, D))
  BY <1>2
<1>7. NamesAt(list, D) = NamesOf(list)
  BY <1>1 DEF NamesAt, NamesOf
<1> QED
  BY <1>4, <1>5, <1>6, <1>7

-----------------------------------------------------------------------------
(***************************************************************************)
(* Room for the list.                                                      *)
(***************************************************************************)

\* The names of the list leave room for its terminator.
Roomy(list) == SizeOf(NamesOf(list)) < ListCap
ListsRoomy == Roomy(dlist) /\ Roomy(fb_list)

LEMMA NamesOfFinite ==
    ASSUME NEW list \in Seq(ItemType)
    PROVE  IsFiniteSet(NamesOf(list)) /\ NamesOf(list) \subseteq Names
<1>1. PICK D : D = 1 .. Len(list)
  OBVIOUS
<1>2. NamesAt(list, D) = NamesOf(list)
  BY <1>1 DEF NamesAt, NamesOf
<1> QED
  BY <1>1, <1>2, NamesFinite

LEMMA FitsIsRoomy ==
    ASSUME NEW list \in Seq(ItemType), LayoutOK(list)
    PROVE  ListBytes(list) < ListCap <=> Roomy(list)
BY ListBytesIs DEF Roomy, LayoutOK

LEMMA EmptyRoomy == Roomy(<<>>)
<1>1. PICK N : N = NamesOf(<<>>)
  OBVIOUS
<1>2. N = {}
  BY <1>1 DEF NamesOf
<1>3. SizeOf(N) = 0
  BY <1>2, SizeNone
<1>4. 0 < ListCap
  BY StoreAssumption
<1> QED
  BY <1>1, <1>3, <1>4 DEF Roomy

\* No command makes a list too long without a new name.
LEMMA FewerRoomy ==
    ASSUME NEW list \in Seq(ItemType), Roomy(list), NEW new, NamesOf(new) \subseteq NamesOf(list)
    PROVE  Roomy(new)
<1>1. PICK N, S : N = NamesOf(list) /\ S = NamesOf(new)
  OBVIOUS
<1>2. IsFiniteSet(N) /\ N \subseteq Names /\ S \subseteq N
  BY <1>1, NamesOfFinite
<1>3. SizeOf(S) \in Nat /\ SizeOf(N) \in Nat /\ SizeOf(S) =< SizeOf(N)
  BY <1>2, SizeLess
<1>4. SizeOf(N) < ListCap /\ ListCap \in Nat
  BY <1>1, StoreAssumption DEF Roomy
<1>5. SizeOf(S) < ListCap
  BY <1>3, <1>4
<1> QED
  BY <1>1, <1>5 DEF Roomy

\* The test of alloc_file and move_file is the one a new name needs.
LEMMA NewNameRoomy ==
    ASSUME NEW list \in Seq(ItemType), LayoutOK(list), NEW name \in Names \ NamesOf(list),
           RoomFor(list, name), NEW new, NamesOf(new) = NamesOf(list) \cup {name}
    PROVE  Roomy(new)
<1>1. PICK N : N = NamesOf(list)
  OBVIOUS
<1>2. IsFiniteSet(N) /\ N \subseteq Names /\ name \notin N
  BY <1>1, NamesOfFinite
<1>3. SizeOf(N \cup {name}) = SizeOf(N) + ItemBytes[name]
  BY <1>2, SizeWith
<1>4. ListBytes(list) = SizeOf(N)
  BY <1>1, ListBytesIs DEF LayoutOK
<1> QED
  BY <1>1, <1>3, <1>4 DEF Roomy, RoomFor

\* A list with the same names at the same places.
LEMMA SameNames ==
    ASSUME NEW list, NEW new, Len(new) = Len(list),
           \A i \in 1 .. Len(list) : new[i].name = list[i].name
    PROVE  NamesOf(new) = NamesOf(list)
BY DEF NamesOf

LEMMA RoomyCommand == LayoutIInv /\ ListsRoomy /\ Command => Roomy(fb_list')
<1> SUFFICES ASSUME LayoutIInv, ListsRoomy, Command PROVE Roomy(fb_list')
  OBVIOUS
<1>1. dlist \in Seq(ItemType) /\ LayoutOK(dlist) /\ Roomy(dlist)
  BY DEF LayoutIInv, LayoutInv, ListsRoomy
<1>2. ASSUME NEW name PROVE Roomy(Without(dlist, name))
  <2>1. NamesOf(Without(dlist, name)) \subseteq NamesOf(dlist)
    BY <1>1, WithoutItems
  <2> QED
    BY <1>1, <2>1, FewerRoomy
<1>3. ASSUME NEW name \in Names, NEW data \in Datas, NEW ext \in BOOLEAN, NEW sys \in BOOLEAN,
             NEW stdin \in BOOLEAN, AddFile(name, data, ext, sys, stdin)
      PROVE  Roomy(fb_list')
  BY <1>1, <1>3 DEF AddFile, Begin
<1>4. ASSUME NEW name \in Names, NEW items \in Datas, NEW append \in BOOLEAN,
             AddMenu(name, items, append)
      PROVE  Roomy(fb_list')
  BY <1>1, <1>4 DEF AddMenu, Begin
<1>5. ASSUME NEW name \in Names, NEW size \in Sizes, Shrink(name, size)
      PROVE  Roomy(fb_list')
  <2>1. /\ name \in NamesOf(dlist)
        /\ fb_list' = [dlist EXCEPT ![Position(dlist, name)].size = size]
    BY <1>5 DEF Shrink, Begin
  <2>2. PICK p \in 1 .. Len(dlist) : p = Position(dlist, name)
    <3>1. Position(dlist, name) \in 1 .. Len(dlist)
      BY <1>1, <2>1, PositionOfName
    <3> QED
      BY <3>1
  <2>3. dlist[p] \in ItemType
    BY <1>1
  <2>4. [dlist[p] EXCEPT !.size = size].name = dlist[p].name
    BY <2>3 DEF ItemType
  <2>5. /\ Len(fb_list') = Len(dlist)
        /\ \A i \in 1 .. Len(dlist) : fb_list'[i].name = dlist[i].name
    BY <1>1, <2>1, <2>2, <2>4
  <2> QED
    BY <1>1, <2>5, SameNames, FewerRoomy
<1>6. ASSUME NEW name \in Names, NEW size \in Sizes, NEW ext \in BOOLEAN, Grow(name, size, ext)
      PROVE  Roomy(fb_list')
  BY <1>2, <1>6 DEF Grow, Begin
<1>7. ASSUME NEW old \in Names, NEW new \in Names, CopyFile(old, new) PROVE Roomy(fb_list')
  BY <1>2, <1>7 DEF CopyFile, Begin
<1>8. ASSUME NEW old \in Names, NEW new \in Names, MoveFile(old, new) PROVE Roomy(fb_list')
  <2>1. PICK kept : kept = Without(dlist, new)
    OBVIOUS
  <2>2. /\ old \in NamesOf(dlist) /\ old # new
        /\ RoomFor(Without(kept, old), new)
        /\ fb_list' = [kept EXCEPT ![Position(kept, old)].name = new]
    BY <1>8, <2>1 DEF MoveFile, Begin
  <2>3. /\ kept \in Seq(ItemType) /\ LayoutOK(kept)
        /\ NamesOf(kept) = NamesOf(dlist) \ {new}
    BY <1>1, <2>1, WithoutKeepsLayout, WithoutItems
  <2>4. PICK rest : rest = Without(kept, old)
    OBVIOUS
  <2>5. /\ rest \in Seq(ItemType) /\ LayoutOK(rest)
        /\ NamesOf(rest) = NamesOf(kept) \ {old}
    BY <2>3, <2>4, WithoutKeepsLayout, WithoutItems
  <2>6. PICK p \in 1 .. Len(kept) : p = Position(kept, old) /\ kept[p].name = old
    <3>1. /\ Position(kept, old) \in 1 .. Len(kept)
          /\ kept[Position(kept, old)].name = old
      BY <2>2, <2>3, PositionOfName
    <3> QED
      BY <3>1
  <2>7. PICK g \in ItemType : g = [kept[p] EXCEPT !.name = new] /\ g.name = new
    <3>1. kept[p] \in ItemType
      BY <2>3
    <3>2. [kept[p] EXCEPT !.name = new] \in ItemType /\ [kept[p] EXCEPT !.name = new].name = new
      BY <3>1 DEF ItemType
    <3> QED
      BY <3>2
  <2>8. PICK l \in Seq(ItemType) :
          /\ l = fb_list' /\ Len(l) = Len(kept) /\ l[p] = g
          /\ \A j \in 1 .. Len(kept) : j # p => l[j] = kept[j]
    <3>1. fb_list' = [kept EXCEPT ![p] = g]
      BY <2>2, <2>6, <2>7
    <3>2. /\ [kept EXCEPT ![p] = g] \in Seq(ItemType)
          /\ Len([kept EXCEPT ![p] = g]) = Len(kept)
          /\ [kept EXCEPT ![p] = g][p] = g
          /\ \A j \in 1 .. Len(kept) : j # p => [kept EXCEPT ![p] = g][j] = kept[j]
      BY <2>3
    <3> QED
      BY <3>1, <3>2
  <2>9. NamesOf(l) = (NamesOf(kept) \ {old}) \cup {new}
    <3>1. /\ kept \in Seq(ItemType) /\ LayoutOK(kept) /\ p \in 1 .. Len(kept) /\ g \in ItemType
          /\ l \in Seq(ItemType) /\ Len(l) = Len(kept) /\ l[p] = g
          /\ \A j \in 1 .. Len(kept) : j # p => l[j] = kept[j]
      BY <2>3, <2>6, <2>7, <2>8
    <3>2. NamesOf(l) = (NamesOf(kept) \ {kept[p].name}) \cup {g.name}
      BY <3>1, ExceptItems
    <3>3. kept[p].name = old /\ g.name = new
      BY <2>6, <2>7
    <3> QED
      BY <3>2, <3>3
  <2>10. /\ NamesOf(l) = NamesOf(rest) \cup {new} /\ new \in Names \ NamesOf(rest)
         /\ RoomFor(rest, new)
    BY <2>2, <2>3, <2>4, <2>5, <2>9
  <2> QED
    BY <2>5, <2>8, <2>10, NewNameRoomy
<1>9. ASSUME NEW name \in Names, RemoveFile(name) PROVE Roomy(fb_list')
  BY <1>2, <1>9 DEF RemoveFile, Begin
<1>10. CASE ClearMenu
  BY <1>10, EmptyRoomy DEF ClearMenu, Begin
<1>11. CASE PackDisk
  BY <1>1, <1>11 DEF PackDisk, Begin
<1>12. ASSUME NEW archive \in Archives, LoadArchive(archive) PROVE Roomy(fb_list')
  BY <1>1, <1>12 DEF LoadArchive, Begin
<1> QED
  BY <1>3, <1>4, <1>5, <1>6, <1>7, <1>8, <1>9, <1>10, <1>11, <1>12 DEF Command

LEMMA RoomyAlloc == LayoutIInv /\ ListsRoomy /\ AllocFile => Roomy(fb_list')
<1> SUFFICES ASSUME LayoutIInv, ListsRoomy, AllocFile PROVE Roomy(fb_list')
  OBVIOUS
<1>1. /\ fb_list \in Seq(ItemType) /\ LayoutOK(fb_list) /\ pc = "alloc"
      /\ req.name \in Names /\ req.size \in Nat \ {0} /\ req.ext \in BOOLEAN
  BY DEF LayoutIInv, LayoutInv, ReqOK, AllocFile
<1>2. PICK list \in Seq(ItemType) :
        /\ list = Kept /\ LayoutOK(list) /\ req.name \notin NamesOf(list)
  <2>1. /\ Kept \in Seq(ItemType) /\ LayoutOK(Kept) /\ req.name \notin NamesOf(Kept)
    BY <1>1, WithoutKeepsLayout DEF Kept
  <2> QED
    BY <2>1
<1>3. PICK i \in Gaps(list) :
        /\ FirstFit(list, i, req.size, req.ext)
        /\ fb_list' = InsertAt(list, i, NewItem(StartIn(list, i, req.size, req.ext)))
  BY <1>2 DEF AllocFile
<1>4. PICK e : e = NewItem(StartIn(list, i, req.size, req.ext))
  OBVIOUS
<1>5. e \in ItemType /\ e.name = req.name
  <2>1. StartIn(list, i, req.size, req.ext) \in Nat
    BY <1>2, <1>3, GapBounds, AreaAssumption DEF StartIn
  <2> QED
    BY <1>1, <1>4, <2>1 DEF NewItem, ItemType
<1>6. NamesOf(fb_list') = NamesOf(list) \cup {req.name}
  BY <1>3, <1>4, <1>5, InsertItems
<1>7. RoomFor(list, req.name)
  BY <1>2 DEF AllocFile
<1> QED
  BY <1>1, <1>2, <1>6, <1>7, NewNameRoomy

LEMMA RoomyStep == LayoutIInv /\ ListsRoomy /\ Step => ListsRoomy'
<1> SUFFICES ASSUME LayoutIInv, ListsRoomy, Step PROVE ListsRoomy'
  OBVIOUS
<1>1. /\ fb_list \in Seq(ItemType) /\ LayoutOK(fb_list) /\ Roomy(fb_list) /\ Roomy(dlist)
  BY DEF LayoutIInv, LayoutInv, ListsRoomy
<1>2. CASE AllocFile
  <2>1. Roomy(fb_list') /\ dlist' = dlist
    BY <1>2, RoomyAlloc DEF AllocFile
  <2> QED
    BY <1>1, <2>1 DEF ListsRoomy
<1>3. CASE AllocQuit \/ PatchQuit
  <2>1. fb_list' = <<>> /\ dlist' = dlist
    BY <1>3 DEF AllocQuit, PatchQuit, Quit, Forget
  <2> QED
    BY <1>1, <2>1, EmptyRoomy DEF ListsRoomy
<1>4. CASE WriteHeader
  <2>1. fb_list' = <<>> /\ dlist' = fb_list
    BY <1>4 DEF WriteHeader, Forget
  <2> QED
    BY <1>1, <2>1, EmptyRoomy DEF ListsRoomy
<1>5. CASE SyslinuxPatch
  <2>1. /\ fb_list' = [fb_list EXCEPT ![Position(fb_list, req.name)].sys = TRUE]
        /\ dlist' = dlist
    BY <1>5 DEF SyslinuxPatch, Transfer
  <2>2. \A i \in 1 .. Len(fb_list) : [fb_list[i] EXCEPT !.sys = TRUE].name = fb_list[i].name
    <3> TAKE i \in 1 .. Len(fb_list)
    <3>1. fb_list[i] \in ItemType
      BY <1>1
    <3> QED
      BY <3>1 DEF ItemType
  <2>3. /\ Len(fb_list') = Len(fb_list)
        /\ \A i \in 1 .. Len(fb_list) : fb_list'[i].name = fb_list[i].name
    BY <1>1, <2>1, <2>2
  <2> QED
    BY <1>1, <2>1, <2>3, SameNames, FewerRoomy DEF ListsRoomy
<1>6. CASE PackMoved
  <2>1. PICK b : /\ fb_list' = [fb_list EXCEPT ![idx].start = b]
                 /\ dlist' = dlist
    BY <1>6 DEF PackMoved
  <2>2. \A i \in 1 .. Len(fb_list) : [fb_list[i] EXCEPT !.start = b].name = fb_list[i].name
    <3> TAKE i \in 1 .. Len(fb_list)
    <3>1. fb_list[i] \in ItemType
      BY <1>1
    <3> QED
      BY <3>1 DEF ItemType
  <2>3. /\ Len(fb_list') = Len(fb_list)
        /\ \A i \in 1 .. Len(fb_list) : fb_list'[i].name = fb_list[i].name
    BY <1>1, <2>1, <2>2
  <2> QED
    BY <1>1, <2>1, <2>3, SameNames, FewerRoomy DEF ListsRoomy
<1>7. CASE \/ SaveChunk \/ CopyChunk \/ CopyDone \/ CopyTail \/ FillChunk \/ PackItem \/ PackDone
  <2>1. fb_list' = fb_list /\ dlist' = dlist
    BY <1>7 DEF SaveChunk, CopyChunk, CopyDone, CopyTail, FillChunk, PackItem, PackDone, Transfer
  <2> QED
    BY <1>1, <2>1 DEF ListsRoomy
<1> QED
  BY <1>2, <1>3, <1>4, <1>5, <1>6, <1>7 DEF Step

LEMMA RoomyNext == LayoutIInv /\ ListsRoomy /\ [Next]_vars => ListsRoomy'
<1> SUFFICES ASSUME LayoutIInv, ListsRoomy, [Next]_vars PROVE ListsRoomy'
  OBVIOUS
<1>1. Roomy(dlist) /\ Roomy(fb_list)
  BY DEF ListsRoomy
<1>2. CASE Command
  <2>1. dlist' = dlist
    BY <1>2 DEF Command, AddFile, AddMenu, Shrink, Grow, CopyFile, MoveFile, RemoveFile,
               ClearMenu, PackDisk, LoadArchive, Begin
  <2>2. Roomy(fb_list')
    BY <1>2, RoomyCommand
  <2> QED
    BY <1>1, <2>1, <2>2 DEF ListsRoomy
<1>3. CASE Step
  BY <1>3, RoomyStep
<1>4. CASE Interrupt
  <2>1. fb_list' = <<>> /\ dlist' = dlist
    BY <1>4 DEF Interrupt, Forget
  <2> QED
    BY <1>1, <2>1, EmptyRoomy DEF ListsRoomy
<1>5. CASE UNCHANGED vars
  BY <1>1, <1>5 DEF ListsRoomy, vars, work
<1> QED
  BY <1>2, <1>3, <1>4, <1>5 DEF Next, Stop

\* What alloc_file and move_file leave room for is enough: the committed list
\* and the list in memory end, with their terminator, inside the sectors of the
\* list, for every size of the list and of the items' names, so that read_header
\* never finds a list without an end.
THEOREM ListAlwaysFits == Spec => []ListFits
<1>1. Init => ListsRoomy
  BY EmptyRoomy DEF Init, ListsRoomy
<1>2. LayoutIInv /\ ListsRoomy => ListFits
  BY FitsIsRoomy DEF LayoutIInv, LayoutInv, ListsRoomy, ListFits
<1> QED
  BY LayoutInit, LayoutNext, RoomyNext, <1>1, <1>2, PTL DEF Spec
=============================================================================
