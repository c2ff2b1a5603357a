---------------------------- MODULE FbListProofs ----------------------------
(***************************************************************************)
(* Theorems about FbList, for every set of names, every length of their    *)
(* items, every number and size of list sectors and any number of commands *)
(* and interruptions, where memcpy copies regions that overlap as memmove  *)
(* does.                                                                   *)
(***************************************************************************)
EXTENDS FbList, SequenceTheorems, WellFoundedInduction, TLAPS

-----------------------------------------------------------------------------
(***************************************************************************)
(* FlattenSeq and the walk are recursive functions.  What is true of each  *)
(* of their values is proved by considering a least counterexample.        *)
(***************************************************************************)

\* A set of naturals that is not empty has a least one.
LEMMA LeastOne ==
    ASSUME NEW N, N \subseteq Nat, N # {}
    PROVE  \E n \in N : \A m \in N : n =< m
<1>. DEFINE R == OpToRel(<, Nat)
<1>1. \E n \in N : \A m \in N : <<m, n>> \notin R
  <2>1. IsWellFoundedOn(R, Nat)
    BY NatLessThanWellFounded
  <2>. HIDE DEF R
  <2> QED
    BY <2>1, WFMin
<1>2. \A m, n \in Nat : m < n => <<m, n>> \in R
  <2>1. R = {p \in Nat \X Nat : p[1] < p[2]}
    BY DEF OpToRel
  <2>. HIDE DEF R
  <2> QED
    BY <2>1
<1>. HIDE DEF R
<1>3. PICK n \in N : \A m \in N : <<m, n>> \notin R
  BY <1>1
<1>4. \A m \in N : n =< m
  <2>1. ASSUME NEW m \in N, m < n PROVE FALSE
    BY <1>2, <1>3, <2>1
  <2> QED
    BY <2>1
<1> QED
  BY <1>4

-----------------------------------------------------------------------------
(***************************************************************************)
(* Sequences of sequences, one after the other.                            *)
(***************************************************************************)

\* f[i] is what the first i of the sequences q hold.
IsFlat(f, q, m) == f = [i \in 1 .. m |-> IF i = 1 THEN q[i] ELSE f[i - 1] \o q[i]]

Alike(f, g, m) == \A i \in 1 .. m : f[i] = g[i]

\* There are such values,
LEMMA FlatExists ==
    ASSUME NEW S, NEW q \in Seq(Seq(S)), NEW m \in 0 .. Len(q)
    PROVE  \E f \in [1 .. m -> Seq(S)] : IsFlat(f, q, m)
<1>. DEFINE P(k) == \E f \in [1 .. k -> Seq(S)] : IsFlat(f, q, k)
            Bad == {k \in 0 .. Len(q) : ~P(k)}
<1>1. SUFFICES ASSUME Bad # {} PROVE FALSE
  OBVIOUS
<1>2. PICK n \in Bad : \A k \in Bad : n =< k
  <2>1. Bad \subseteq Nat
    OBVIOUS
  <2>. HIDE DEF Bad
  <2> QED
    BY <1>1, <2>1, LeastOne
<1>3. n # 0
  <2>1. [i \in 1 .. 0 |-> <<>>] \in [1 .. 0 -> Seq(S)]
    OBVIOUS
  <2>2. IsFlat([i \in 1 .. 0 |-> <<>>], q, 0)
    BY DEF IsFlat
  <2> QED
    BY <2>1, <2>2
<1>4. n \in 1 .. Len(q) /\ n - 1 \in 0 .. Len(q) /\ n - 1 \notin Bad
  <2>1. n \in 0 .. Len(q) /\ Len(q) \in Nat
    BY <1>2
  <2>2. n - 1 \in 0 .. Len(q) /\ ~(n =< n - 1)
    BY <1>3, <2>1
  <2>. HIDE DEF Bad
  <2> QED
    BY <1>2, <1>3, <2>1, <2>2
<1>5. PICK f \in [1 .. n - 1 -> Seq(S)] : IsFlat(f, q, n - 1)
  BY <1>4
<1>6. PICK v : v = IF n = 1 THEN q[n] ELSE f[n - 1] \o q[n]
  OBVIOUS
<1>7. v \in Seq(S)
  <2>1. q[n] \in Seq(S)
    BY <1>4
  <2>2. CASE n = 1
    BY <1>6, <2>1, <2>2
  <2>3. CASE n # 1
    <3>1. f[n - 1] \in Seq(S)
      BY <1>4, <1>5, <2>3
    <3>2. f[n - 1] \o q[n] \in Seq(S)
      BY <3>1, <2>1, ConcatProperties
    <3> QED
      BY <1>6, <2>3, <3>2
  <2> QED
    BY <2>2, <2>3
<1>8. PICK g : g = [i \in 1 .. n |-> IF i = n THEN v ELSE f[i]]
  OBVIOUS
<1>9. g \in [1 .. n -> Seq(S)]
  BY <1>4, <1>5, <1>7, <1>8
<1>10. IsFlat(g, q, n)
  <2>1. ASSUME NEW i \in 1 .. n
        PROVE  g[i] = IF i = 1 THEN q[i] ELSE g[i - 1] \o q[i]
    <3>1. CASE i = n
      BY <1>4, <1>6, <1>8, <3>1
    <3>2. CASE i # n
      <4>1. i \in 1 .. n - 1 /\ (i # 1 => i - 1 \in 1 .. n /\ i - 1 # n)
        BY <1>4, <3>2
      <4>2. f[i] = IF i = 1 THEN q[i] ELSE f[i - 1] \o q[i]
        BY <1>5, <4>1, Zenon DEF IsFlat
      <4>3. g[i] = f[i] /\ (i # 1 => g[i - 1] = f[i - 1])
        BY <1>8, <3>2, <4>1
      <4> QED
        BY <4>2, <4>3
    <3> QED
      BY <3>1, <3>2
  <2> QED
    BY <1>9, <2>1 DEF IsFlat
<1> QED
  BY <1>2, <1>9, <1>10

\* and they are the same for sequences that begin alike.
LEMMA FlatAgrees ==
    ASSUME NEW q, NEW p, NEW m \in Nat, NEW n \in Nat, m =< n,
           NEW f, NEW g,
           Alike(q, p, m), IsFlat(f, q, m), IsFlat(g, p, n)
    PROVE  Alike(f, g, m)
<1>. USE DEF Alike
<1>. DEFINE Bad == {i \in 1 .. m : f[i] # g[i]}
<1>1. SUFFICES ASSUME Bad # {} PROVE FALSE
  OBVIOUS
<1>2. PICK i \in Bad : \A k \in Bad : i =< k
  <2>1. Bad \subseteq Nat
    OBVIOUS
  <2>. HIDE DEF Bad
  <2> QED
    BY <1>1, <2>1, LeastOne
<1>3. i \in 1 .. m /\ i \in 1 .. n /\ f[i] # g[i]
  BY <1>2
<1>4. /\ f[i] = IF i = 1 THEN q[i] ELSE f[i - 1] \o q[i]
      /\ g[i] = IF i = 1 THEN p[i] ELSE g[i - 1] \o p[i]
  BY <1>3, Zenon DEF IsFlat
<1>5. i # 1 /\ i - 1 \in 1 .. m
  BY <1>3, <1>4
<1>6. f[i - 1] = g[i - 1]
  BY <1>2, <1>5
<1> QED
  BY <1>3, <1>4, <1>5, <1>6

\* What FlattenSeq is.
LEMMA FlattenIs ==
    ASSUME NEW S, NEW q \in Seq(Seq(S)), q # <<>>
    PROVE  \E f \in [1 .. Len(q) -> Seq(S)] :
              IsFlat(f, q, Len(q)) /\ FlattenSeq(q) = f[Len(q)]
<1>1. Len(q) \in Nat /\ Len(q) # 0
  <2>1. Len(q) \in Nat
    BY LenProperties
  <2>2. q = <<>> <=> Len(q) = 0
    BY EmptySeq, Zenon
  <2> QED
    BY <2>1, <2>2
<1>2. PICK f \in [1 .. Len(q) -> Seq(S)] : IsFlat(f, q, Len(q))
  BY <1>1, FlatExists
<1>3. PICK g : g = CHOOSE h : IsFlat(h, q, Len(q))
  OBVIOUS
<1>4. IsFlat(g, q, Len(q))
  BY <1>2, <1>3, Zenon
<1>5. FlattenSeq(q) = g[Len(q)]
  BY <1>1, <1>3, Zenon DEF FlattenSeq, IsFlat
<1>6. g[Len(q)] = f[Len(q)]
  <2>1. Len(q) =< Len(q) /\ Alike(q, q, Len(q))
    BY <1>1 DEF Alike
  <2>2. Alike(g, f, Len(q))
    BY <1>1, <1>2, <1>4, <2>1, FlatAgrees
  <2> QED
    BY <1>1, <2>2 DEF Alike
<1> QED
  BY <1>2, <1>5, <1>6

\* FlattenSeq of one sequence more.
LEMMA FlattenAppend ==
    ASSUME NEW S, NEW q \in Seq(Seq(S)), NEW s \in Seq(S)
    PROVE  /\ FlattenSeq(q) \in Seq(S)
           /\ FlattenSeq(Append(q, s)) = FlattenSeq(q) \o s
<1>1. PICK p : p = Append(q, s)
  OBVIOUS
<1>2. /\ p \in Seq(Seq(S)) /\ p # <<>> /\ Len(p) = Len(q) + 1
      /\ \A i \in 1 .. Len(q) : p[i] = q[i]
      /\ p[Len(q) + 1] = s /\ Len(q) \in Nat
  BY <1>1, AppendProperties
<1>3. PICK g \in [1 .. Len(p) -> Seq(S)] :
         IsFlat(g, p, Len(p)) /\ FlattenSeq(p) = g[Len(p)]
  BY <1>2, FlattenIs
<1>4. g[Len(p)] = IF Len(p) = 1 THEN p[Len(p)] ELSE g[Len(p) - 1] \o p[Len(p)]
  <2>1. Len(p) \in 1 .. Len(p)
    BY <1>2
  <2> QED
    BY <1>3, <2>1, Zenon DEF IsFlat
<1>5. CASE q = <<>>
  <2>1. Len(q) = 0 /\ FlattenSeq(q) = <<>> /\ Len(p) = 1
    <3>1. Len(q) = 0
      BY <1>5, EmptySeq
    <3>2. FlattenSeq(q) = q
      BY <3>1, Zenon DEF FlattenSeq
    <3> QED
      BY <1>2, <1>5, <3>1, <3>2
  <2>2. <<>> \o s = s /\ <<>> \in Seq(S)
    BY ConcatEmptySeq
  <2> QED
    BY <1>1, <1>2, <1>3, <1>4, <2>1, <2>2
<1>6. CASE q # <<>>
  <2>1. PICK f \in [1 .. Len(q) -> Seq(S)] :
           IsFlat(f, q, Len(q)) /\ FlattenSeq(q) = f[Len(q)]
    BY <1>6, FlattenIs
  <2>2. Len(q) \in Nat \ {0} /\ Len(q) =< Len(p) /\ Len(p) \in Nat
    BY <1>2, <1>6, EmptySeq
  <2>3. Alike(q, p, Len(q))
    BY <1>2 DEF Alike
  <2>4. Alike(f, g, Len(q))
    BY <1>3, <2>1, <2>2, <2>3, FlatAgrees
  <2>5. f[Len(q)] = g[Len(q)] /\ f[Len(q)] \in Seq(S)
    BY <2>1, <2>2, <2>4 DEF Alike
  <2>6. Len(p) # 1 /\ Len(p) - 1 = Len(q)
    BY <1>2, <2>2
  <2>7. g[Len(p)] = g[Len(q)] \o s
    BY <1>2, <1>4, <2>6
  <2> QED
    BY <1>1, <1>3, <2>1, <2>5, <2>7
<1> QED
  BY <1>5, <1>6

-----------------------------------------------------------------------------
(***************************************************************************)
(* The bytes of a list.                                                    *)
(***************************************************************************)

Byte == [number : Nat, of : Names \union {"none"}, at : Nat]

\* The bytes of an item.
LEMMA ItemFacts ==
    ASSUME NEW name \in Names
    PROVE  /\ ItemOf(name) \in Seq(Byte) /\ Len(ItemOf(name)) = ItemBytes[name]
           /\ ItemBytes[name] \in Nat /\ ItemBytes[name] >= 3
           /\ ItemOf(name)[1].number = ItemBytes[name] - 2
           /\ ItemOf(name)[2] = [number |-> 1, of |-> name, at |-> 2]
<1>1. PICK n : n = ItemBytes[name]
  OBVIOUS
<1>2. n \in Nat /\ n >= 3
  BY <1>1, ListAssumption
<1>3. ItemOf(name) =
        [k \in 1 .. n |-> [number |-> IF k = 1 THEN n - 2 ELSE 1, of |-> name, at |-> k]]
  BY <1>1 DEF ItemOf
<1>4. \A k \in 1 .. n :
         [number |-> IF k = 1 THEN n - 2 ELSE 1, of |-> name, at |-> k] \in Byte
  <2>1. ASSUME NEW k \in 1 .. n
        PROVE  [number |-> IF k = 1 THEN n - 2 ELSE 1, of |-> name, at |-> k] \in Byte
    <3>1. (IF k = 1 THEN n - 2 ELSE 1) \in Nat /\ k \in Nat /\ name \in Names \union {"none"}
      BY <1>2
    <3> QED
      BY <3>1 DEF Byte
  <2> QED
    BY <2>1
<1>5. ItemOf(name) \in Seq(Byte) /\ Len(ItemOf(name)) = n
  BY <1>2, <1>3, <1>4
<1>6. 1 \in 1 .. n /\ 2 \in 1 .. n
  BY <1>2
<1> QED
  BY <1>1, <1>2, <1>3, <1>5, <1>6

\* The bytes of one item more,
LEMMA BytesAppend ==
    ASSUME NEW names \in Seq(Names), NEW name \in Names
    PROVE  /\ Bytes(names) \in Seq(Byte)
           /\ Bytes(Append(names, name)) = Bytes(names) \o ItemOf(name)
<1>1. PICK q : q = [i \in 1 .. Len(names) |-> ItemOf(names[i])]
  OBVIOUS
<1>2. q \in Seq(Seq(Byte)) /\ Len(q) = Len(names) /\ Len(names) \in Nat
  <2>1. \A i \in 1 .. Len(names) : ItemOf(names[i]) \in Seq(Byte)
    BY ItemFacts, ElementOfSeq
  <2> QED
    BY <1>1, <2>1
<1>3. PICK p : p = Append(names, name)
  OBVIOUS
<1>4. /\ p \in Seq(Names) /\ Len(p) = Len(names) + 1
      /\ \A i \in 1 .. Len(names) : p[i] = names[i]
      /\ p[Len(names) + 1] = name
  BY <1>3, AppendProperties
<1>5. [i \in 1 .. Len(p) |-> ItemOf(p[i])] = Append(q, ItemOf(name))
  <2>1. PICK r : r = [i \in 1 .. Len(p) |-> ItemOf(p[i])]
    OBVIOUS
  <2>2. PICK a : a = Append(q, ItemOf(name))
    OBVIOUS
  <2>3. /\ a \in Seq(Seq(Byte)) /\ Len(a) = Len(q) + 1
        /\ \A i \in 1 .. Len(q) : a[i] = q[i]
        /\ a[Len(q) + 1] = ItemOf(name)
    <3>1. PICK x : x = ItemOf(name)
      OBVIOUS
    <3>2. x \in Seq(Byte)
      BY <3>1, ItemFacts
    <3>3. a = Append(q, x)
      BY <2>2, <3>1
    <3> QED
      BY <1>2, <3>1, <3>2, <3>3, AppendProperties
  <2>4. r \in Seq(Seq(Byte)) /\ Len(r) = Len(q) + 1
    <3>1. \A i \in 1 .. Len(p) : ItemOf(p[i]) \in Seq(Byte)
      BY <1>4, ItemFacts, ElementOfSeq
    <3> QED
      BY <1>2, <1>4, <2>1, <3>1
  <2>5. ASSUME NEW i \in 1 .. Len(r) PROVE r[i] = a[i]
    <3>1. r[i] = ItemOf(p[i])
      BY <1>2, <1>4, <2>1, <2>4
    <3>2. CASE i = Len(q) + 1
      BY <1>2, <1>4, <2>3, <3>1, <3>2
    <3>3. CASE i # Len(q) + 1
      <4>1. i \in 1 .. Len(q)
        BY <1>2, <2>4, <3>3
      <4>2. q[i] = ItemOf(names[i]) /\ p[i] = names[i]
        BY <1>1, <1>2, <1>4, <4>1
      <4> QED
        BY <2>3, <3>1, <4>1, <4>2
    <3> QED
      BY <3>2, <3>3
  <2>6. r = a
    BY <2>3, <2>4, <2>5, SeqEqual
  <2> QED
    BY <2>1, <2>2, <2>6
<1>6. /\ FlattenSeq(q) \in Seq(Byte)
      /\ FlattenSeq(Append(q, ItemOf(name))) = FlattenSeq(q) \o ItemOf(name)
  BY <1>2, ItemFacts, FlattenAppend
<1>7. Bytes(names) = FlattenSeq(q) /\ Bytes(p) = FlattenSeq(Append(q, ItemOf(name)))
  BY <1>1, <1>5, Zenon DEF Bytes
<1> QED
  BY <1>3, <1>6, <1>7

\* and of none.
LEMMA BytesTyped ==
    ASSUME NEW names \in Seq(Names)
    PROVE  Bytes(names) \in Seq(Byte) /\ Len(Bytes(names)) \in Nat /\ Bytes(<<>>) = <<>>
<1>1. Bytes(<<>>) = <<>>
  <2>1. PICK e : e = [i \in 1 .. Len(<<>>) |-> ItemOf(<<>>[i])]
    OBVIOUS
  <2>2. e = <<>> /\ Len(e) = 0
    BY <2>1
  <2>3. FlattenSeq(e) = e
    BY <2>2, Zenon DEF FlattenSeq
  <2> QED
    BY <2>1, <2>2, <2>3 DEF Bytes
<1>2. Bytes(names) \in Seq(Byte)
  <2>1. CASE names = <<>>
    <3>1. <<>> \in Seq(Byte)
      OBVIOUS
    <3> QED
      BY <1>1, <2>1, <3>1, Zenon
  <2>2. CASE names # <<>>
    <3>1. names[1] \in Names
      BY <2>2, EmptySeq
    <3> QED
      BY <3>1, BytesAppend
  <2> QED
    BY <2>1, <2>2
<1> QED
  BY <1>1, <1>2, LenProperties

\* Two lists one after the other.
LEMMA BytesConcat ==
    ASSUME NEW s \in Seq(Names), NEW t \in Seq(Names)
    PROVE  Bytes(s \o t) = Bytes(s) \o Bytes(t)
<1>. DEFINE P(k) == \A u \in Seq(Names) : Len(u) = k => Bytes(s \o u) = Bytes(s) \o Bytes(u)
            Bad == {k \in Nat : ~P(k)}
<1>1. SUFFICES ASSUME Bad # {} PROVE FALSE
  <2>1. Len(t) \in Nat
    OBVIOUS
  <2>2. Bad = {} => P(Len(t))
    BY <2>1
  <2> QED
    BY <2>2
<1>2. PICK n \in Bad : \A k \in Bad : n =< k
  <2>1. Bad \subseteq Nat
    OBVIOUS
  <2>. HIDE DEF Bad
  <2> QED
    BY <1>1, <2>1, LeastOne
<1>3. PICK u \in Seq(Names) : Len(u) = n /\ Bytes(s \o u) # Bytes(s) \o Bytes(u)
  BY <1>2
<1>4. u # <<>>
  <2>1. Bytes(s) \o <<>> = Bytes(s) /\ s \o <<>> = s
    BY BytesTyped, ConcatEmptySeq
  <2> QED
    BY <1>3, <2>1, BytesTyped
<1>5. PICK w \in Seq(Names), x \in Names : u = Append(w, x)
  BY <1>4, SequenceEmptyOrAppend
<1>6. Len(w) \in Nat /\ Len(w) = n - 1 /\ n \in Nat
  BY <1>2, <1>3, <1>5, AppendProperties
<1>7. P(Len(w))
  <2>1. Len(w) \notin Bad
    BY <1>2, <1>6
  <2>. HIDE DEF P
  <2> QED
    BY <1>6, <2>1
<1>8. Bytes(s \o w) = Bytes(s) \o Bytes(w)
  BY <1>7
<1>9. s \o u = Append(s \o w, x) /\ s \o w \in Seq(Names)
  <2>1. s \o w \in Seq(Names)
    BY ConcatProperties
  <2>2. <<x>> \in Seq(Names) /\ u = w \o <<x>> /\ Append(s \o w, x) = (s \o w) \o <<x>>
    BY <1>5, <2>1, AppendIsConcat
  <2> QED
    BY <2>1, <2>2, ConcatAssociative
<1>10. Bytes(s \o u) = (Bytes(s) \o Bytes(w)) \o ItemOf(x) /\ Bytes(u) = Bytes(w) \o ItemOf(x)
  BY <1>5, <1>8, <1>9, BytesAppend
<1>11. (Bytes(s) \o Bytes(w)) \o ItemOf(x) = Bytes(s) \o (Bytes(w) \o ItemOf(x))
  <2>1. Bytes(s) \in Seq(Byte) /\ Bytes(w) \in Seq(Byte) /\ ItemOf(x) \in Seq(Byte)
    BY BytesTyped, ItemFacts
  <2>. HIDE DEF P, Bad
  <2> QED
    BY <2>1, ConcatAssociative, SMTT(20)
<1> QED
  BY <1>3, <1>10, <1>11

\* A list of one item.
LEMMA BytesOne ==
    ASSUME NEW name \in Names
    PROVE  Bytes(<<name>>) = ItemOf(name)
<1>1. <<>> \in Seq(Names) /\ <<name>> = Append(<<>>, name)
  OBVIOUS
<1>2. Bytes(<<name>>) = Bytes(<<>>) \o ItemOf(name)
  BY <1>1, BytesAppend
<1> QED
  BY <1>1, <1>2, BytesTyped, ItemFacts, ConcatEmptySeq

\* Where the i-th item begins.
StartOf(names, i) == Len(Bytes(SubSeq(names, 1, i - 1)))

\* The items around one of a list, and their bytes.
LEMMA ListAround ==
    ASSUME NEW names \in Seq(Names), NEW i \in 1 .. Len(names)
    PROVE  \E u, v \in Seq(Names) :
              /\ u = SubSeq(names, 1, i - 1) /\ v = SubSeq(names, i + 1, Len(names))
              /\ names[i] \in Names
              /\ Len(u) = i - 1 /\ Len(v) = Len(names) - i
              /\ names = (u \o <<names[i]>>) \o v
              /\ Bytes(names) = (Bytes(u) \o ItemOf(names[i])) \o Bytes(v)
<1>1. PICK u, v : u = SubSeq(names, 1, i - 1) /\ v = SubSeq(names, i + 1, Len(names))
  OBVIOUS
<1>2. PICK m : m = Len(names)
  OBVIOUS
<1>3. m \in Nat /\ i \in 1 .. m /\ names[i] \in Names
  BY <1>2, ElementOfSeq
<1>4. u \in Seq(Names) /\ Len(u) = i - 1
  <2>1. \A k \in 1 .. i - 1 : names[k] \in Names
    BY <1>2, <1>3, ElementOfSeq
  <2> QED
    BY <1>1, <1>3, <2>1, SubSeqProperties
<1>5. v \in Seq(Names) /\ Len(v) = m - i
  <2>1. \A k \in i + 1 .. m : names[k] \in Names
    BY <1>2, <1>3, ElementOfSeq
  <2> QED
    BY <1>1, <1>2, <1>3, <2>1, SubSeqProperties
<1>6. names = (u \o <<names[i]>>) \o v
  <2>1. SubSeq(names, 1, i) = u \o <<names[i]>>
    BY <1>1, <1>2, <1>3, SubSeqRecursiveSecond
  <2>2. SubSeq(names, 1, i) \o SubSeq(names, i + 1, m) = SubSeq(names, 1, m)
    BY <1>2, <1>3, ConcatAdjacentSubSeq
  <2>3. SubSeq(names, 1, m) = names
    BY <1>2, SubSeqFull
  <2> QED
    BY <1>1, <1>2, <2>1, <2>2, <2>3
<1>7. Bytes(names) = (Bytes(u) \o ItemOf(names[i])) \o Bytes(v)
  <2>1. <<names[i]>> \in Seq(Names) /\ u \o <<names[i]>> \in Seq(Names)
    BY <1>3, <1>4, ConcatProperties
  <2>2. Bytes(names) = Bytes(u \o <<names[i]>>) \o Bytes(v)
    BY <1>5, <1>6, <2>1, BytesConcat
  <2>3. Bytes(u \o <<names[i]>>) = Bytes(u) \o ItemOf(names[i])
    BY <1>3, <1>4, <2>1, BytesConcat, BytesOne
  <2> QED
    BY <2>2, <2>3
<1> QED
  BY <1>1, <1>2, <1>3, <1>4, <1>5, <1>6, <1>7

\* w is three sequences one after the other.
Joined(w, u, x, v) ==
    /\ Len(w) = Len(u) + Len(x) + Len(v)
    /\ Len(u) \in Nat /\ Len(x) \in Nat /\ Len(v) \in Nat
    /\ \A k \in 1 .. Len(u) : w[k] = u[k]
    /\ \A k \in 1 .. Len(x) : w[Len(u) + k] = x[k]
    /\ \A k \in 1 .. Len(v) : w[Len(u) + Len(x) + k] = v[k]

\* Three sequences that are concatenated.
LEMMA ThreeParts ==
    ASSUME NEW S, NEW u \in Seq(S), NEW x \in Seq(S), NEW v \in Seq(S), NEW w,
           w = (u \o x) \o v
    PROVE  w \in Seq(S) /\ Joined(w, u, x, v)
<1>1. PICK p : p = u \o x
  OBVIOUS
<1>2. PICK l, m, n : l = Len(u) /\ m = Len(x) /\ n = Len(v)
  OBVIOUS
<1>3. l \in Nat /\ m \in Nat /\ n \in Nat
  BY <1>2
<1>4. /\ p \in Seq(S) /\ Len(p) = l + m
      /\ \A k \in 1 .. l + m : p[k] = IF k =< l THEN u[k] ELSE x[k - l]
  BY <1>1, <1>2, ConcatProperties
<1>5. /\ w \in Seq(S) /\ Len(w) = (l + m) + n
      /\ \A k \in 1 .. (l + m) + n : w[k] = IF k =< l + m THEN p[k] ELSE v[k - (l + m)]
  <2>1. w = p \o v
    BY <1>1
  <2> QED
    BY <1>2, <1>4, <2>1, ConcatProperties
<1>6. ASSUME NEW k \in 1 .. l PROVE w[k] = u[k]
  <2>1. k \in 1 .. l + m /\ k \in 1 .. (l + m) + n /\ k =< l /\ k =< l + m
    BY <1>3
  <2> QED
    BY <1>4, <1>5, <2>1
<1>7. ASSUME NEW k \in 1 .. m PROVE w[l + k] = x[k]
  <2>1. l + k \in 1 .. l + m /\ l + k \in 1 .. (l + m) + n /\ ~(l + k =< l) /\ l + k =< l + m
    BY <1>3
  <2>2. (l + k) - l = k
    BY <1>3
  <2> QED
    BY <1>4, <1>5, <2>1, <2>2
<1>8. ASSUME NEW k \in 1 .. n PROVE w[l + m + k] = v[k]
  <2>1. l + m + k \in 1 .. (l + m) + n /\ ~(l + m + k =< l + m)
    BY <1>3
  <2>2. (l + m + k) - (l + m) = k
    BY <1>3
  <2> QED
    BY <1>5, <2>1, <2>2
<1> QED
  BY <1>2, <1>3, <1>5, <1>6, <1>7, <1>8 DEF Joined

\* Where the items of a list begin and end, and what their first bytes are.
LEMMA StartFacts ==
    ASSUME NEW names \in Seq(Names), NEW i \in 1 .. Len(names)
    PROVE  /\ StartOf(names, i) \in Nat
           /\ ItemBytes[names[i]] \in Nat /\ ItemBytes[names[i]] >= 3
           /\ StartOf(names, i + 1) = StartOf(names, i) + ItemBytes[names[i]]
           /\ StartOf(names, i + 1) =< Len(Bytes(names))
           /\ Bytes(names)[StartOf(names, i) + 1].number = ItemBytes[names[i]] - 2
           /\ Bytes(names)[StartOf(names, i) + 2] = [number |-> 1, of |-> names[i], at |-> 2]
<1>1. PICK u, v \in Seq(Names) :
         /\ u = SubSeq(names, 1, i - 1) /\ v = SubSeq(names, i + 1, Len(names))
         /\ names[i] \in Names
         /\ Bytes(names) = (Bytes(u) \o ItemOf(names[i])) \o Bytes(v)
  BY ListAround
<1>2. PICK x : x = names[i]
  OBVIOUS
<1>3. PICK l, m, n : l = Len(Bytes(u)) /\ m = Len(ItemOf(x)) /\ n = Len(Bytes(v))
  OBVIOUS
<1>4. /\ Len(Bytes(names)) = l + m + n /\ l \in Nat /\ m \in Nat /\ n \in Nat
      /\ \A k \in 1 .. m : Bytes(names)[l + k] = ItemOf(x)[k]
  <2>1. Bytes(u) \in Seq(Byte) /\ Bytes(v) \in Seq(Byte) /\ ItemOf(x) \in Seq(Byte)
    BY <1>1, <1>2, BytesTyped, ItemFacts
  <2>2. Bytes(names) = (Bytes(u) \o ItemOf(x)) \o Bytes(v)
    BY <1>1, <1>2
  <2>3. Joined(Bytes(names), Bytes(u), ItemOf(x), Bytes(v))
    BY <2>1, <2>2, ThreeParts
  <2> QED
    BY <1>3, <2>3 DEF Joined
<1>5. /\ m = ItemBytes[x] /\ m >= 3
      /\ ItemOf(x)[1].number = m - 2 /\ ItemOf(x)[2] = [number |-> 1, of |-> x, at |-> 2]
  BY <1>1, <1>2, <1>3, ItemFacts
<1>6. StartOf(names, i) = l
  BY <1>1, <1>3 DEF StartOf
<1>7. StartOf(names, i + 1) = l + m
  <2>1. SubSeq(names, 1, i) = u \o <<x>>
    BY <1>1, <1>2, SubSeqRecursiveSecond
  <2>2. (i + 1) - 1 = i /\ x \in Names /\ <<x>> \in Seq(Names)
    BY <1>1, <1>2
  <2>3. Bytes(u \o <<x>>) = Bytes(u) \o ItemOf(x)
    BY <2>2, BytesConcat, BytesOne
  <2>4. Len(Bytes(u) \o ItemOf(x)) = l + m
    BY <1>3, <2>2, BytesTyped, ItemFacts, ConcatProperties
  <2> QED
    BY <2>1, <2>2, <2>3, <2>4 DEF StartOf
<1>8. Bytes(names)[l + 1] = ItemOf(x)[1] /\ Bytes(names)[l + 2] = ItemOf(x)[2]
  <2>1. 1 \in 1 .. m /\ 2 \in 1 .. m
    BY <1>4, <1>5
  <2> QED
    BY <1>4, <2>1
<1> QED
  BY <1>2, <1>4, <1>5, <1>6, <1>7, <1>8, SMTT(20)

\* The first item begins the list, and the last one ends it.
LEMMA StartEnds ==
    ASSUME NEW names \in Seq(Names)
    PROVE  /\ StartOf(names, 1) = 0
           /\ StartOf(names, Len(names) + 1) = Len(Bytes(names))
<1>1. SubSeq(names, 1, 1 - 1) = <<>> /\ (Len(names) + 1) - 1 = Len(names)
  BY SubSeqEmpty
<1>2. SubSeq(names, 1, Len(names)) = names
  BY SubSeqFull
<1>3. Len(Bytes(<<>>)) = 0
  BY BytesTyped
<1> QED
  BY <1>1, <1>2, <1>3 DEF StartOf

-----------------------------------------------------------------------------
(***************************************************************************)
(* The walk along a buffer.                                                *)
(***************************************************************************)

Buffers == [0 .. Size - 1 -> Byte]

\* The chain of the names and its terminator are in b.
Shows(b, names) ==
    /\ names \in Seq(Names) /\ b \in Buffers
    /\ Len(Bytes(names)) < Size
    /\ \A k \in 0 .. Len(Bytes(names)) - 1 : b[k] = Bytes(names)[k + 1]
    /\ b[Len(Bytes(names))] = Zero

\* What the walk does at one place.
Onward(b, f, ofs) ==
    IF ofs < Size /\ b[ofs].number # 0 THEN <<ofs>> \o f[ofs + b[ofs].number + 2] ELSE <<>>

IsWalk(b, f) == f = [ofs \in Nat |-> Onward(b, f, ofs)]

\* The list has room for at least one byte.
LEMMA SizeNat ==
    Size \in Nat \ {0}
<1>1. Sectors \in Nat \ {0} /\ SectorBytes \in Nat \ {0}
  BY ListAssumption
<1>2. Sectors * SectorBytes \in Nat \ {0}
  BY <1>1
<1> QED
  BY <1>2 DEF Size

\* There is a walk from everywhere: it goes up, and stops at the end of the buffer.
LEMMA WalkExists ==
    ASSUME NEW b \in Buffers
    PROVE  \E f : IsWalk(b, f)
<1>. DEFINE P(k) == \E f \in [Nat -> Seq(Nat)] :
                       \A ofs \in Nat : ofs + k >= Size => f[ofs] = Onward(b, f, ofs)
            Bad == {k \in Nat : ~P(k)}
<1>1. Bad = {}
  <2>1. SUFFICES ASSUME Bad # {} PROVE FALSE
    OBVIOUS
  <2>2. PICK n \in Bad : \A k \in Bad : n =< k
    <3>1. Bad \subseteq Nat
      OBVIOUS
    <3>. HIDE DEF Bad
    <3> QED
      BY <2>1, <3>1, LeastOne
  <2>3. n # 0
    <3>1. PICK f : f = [ofs \in Nat |-> <<>>]
      OBVIOUS
    <3>2. f \in [Nat -> Seq(Nat)]
      BY <3>1
    <3>3. \A ofs \in Nat : ofs + 0 >= Size => f[ofs] = Onward(b, f, ofs)
      BY <3>1, SizeNat DEF Onward
    <3> QED
      BY <3>2, <3>3
  <2>4. n \in Nat /\ n - 1 \in Nat /\ n - 1 \notin Bad
    <3>1. n \in Nat /\ n - 1 \in Nat /\ ~(n =< n - 1)
      BY <2>2, <2>3
    <3>. HIDE DEF Bad
    <3> QED
      BY <2>2, <3>1
  <2>5. PICK f \in [Nat -> Seq(Nat)] :
           \A ofs \in Nat : ofs + (n - 1) >= Size => f[ofs] = Onward(b, f, ofs)
    BY <2>4
  <2>6. PICK at : at = Size - n
    OBVIOUS
  <2>7. CASE at \notin Nat
    <3>1. \A ofs \in Nat : ofs + n >= Size => ofs + (n - 1) >= Size
      BY <2>4, <2>6, <2>7, SizeNat
    <3>2. P(n)
      BY <2>5, <3>1
    <3> QED
      BY <2>2, <3>2
  <2>8. CASE at \in Nat
    <3>1. at \in 0 .. Size - 1 /\ at + n = Size
      BY <2>3, <2>4, <2>6, <2>8, SizeNat
    <3>2. b[at].number \in Nat
      BY <3>1 DEF Buffers, Byte
    <3>3. Onward(b, f, at) \in Seq(Nat)
      <4>1. f[at + b[at].number + 2] \in Seq(Nat) /\ <<at>> \in Seq(Nat)
        <5>1. PICK d : d = b[at].number
          OBVIOUS
        <5>2. d \in Nat
          BY <3>2, <5>1
        <5>3. at + d + 2 \in Nat
          BY <2>8, <5>2
        <5>4. f[at + d + 2] \in Seq(Nat)
          BY <2>5, <5>3
        <5> QED
          BY <2>8, <5>1, <5>4
      <4>2. <<at>> \o f[at + b[at].number + 2] \in Seq(Nat)
        BY <4>1, ConcatProperties
      <4> QED
        BY <4>2 DEF Onward
    <3>4. PICK g : g = [f EXCEPT ![at] = Onward(b, f, at)]
      OBVIOUS
    <3>5. g \in [Nat -> Seq(Nat)]
      BY <3>3, <3>4
    <3>6. ASSUME NEW ofs \in Nat, ofs >= at PROVE g[ofs] = Onward(b, g, ofs)
      <4>1. Onward(b, g, ofs) = Onward(b, f, ofs)
        <5>1. CASE ofs < Size
          <6>1. b[ofs].number \in Nat
            <7>1. ofs \in 0 .. Size - 1
              BY <5>1, SizeNat
            <7>2. b[ofs] \in Byte
              BY <7>1 DEF Buffers
            <7> QED
              BY <7>2 DEF Byte
          <6>2. ofs + b[ofs].number + 2 \in Nat /\ ofs + b[ofs].number + 2 # at
            <7>1. PICK d : d = b[ofs].number
              OBVIOUS
            <7>2. d \in Nat /\ ofs \in Nat /\ at \in Nat /\ ofs >= at
              BY <2>8, <3>6, <6>1, <7>1
            <7>3. ofs + d + 2 \in Nat /\ ofs + d + 2 # at
              BY <7>2
            <7> QED
              BY <7>1, <7>3
          <6>3. g[ofs + b[ofs].number + 2] = f[ofs + b[ofs].number + 2]
            BY <3>4, <6>2
          <6> QED
            BY <6>3 DEF Onward
        <5>2. CASE ~(ofs < Size)
          BY <5>2 DEF Onward
        <5> QED
          BY <5>1, <5>2
      <4>2. CASE ofs = at
        BY <3>4, <4>1, <4>2
      <4>3. CASE ofs # at
        <5>1. g[ofs] = f[ofs]
          BY <3>4, <4>3
        <5>2. ofs + (n - 1) >= Size
          BY <2>4, <2>8, <3>1, <3>6, <4>3, SizeNat
        <5> QED
          BY <2>5, <4>1, <5>1, <5>2
      <4> QED
        BY <4>2, <4>3
    <3>7. \A ofs \in Nat : ofs + n >= Size => ofs >= at
      BY <2>4, <2>8, <3>1, SizeNat
    <3>8. P(n)
      BY <3>5, <3>6, <3>7
    <3> QED
      BY <2>2, <3>8
  <2> QED
    BY <2>7, <2>8
<1>2. P(Size)
  BY <1>1, SizeNat
<1>3. PICK f \in [Nat -> Seq(Nat)] :
         \A ofs \in Nat : ofs + Size >= Size => f[ofs] = Onward(b, f, ofs)
  BY <1>2
<1>4. \A ofs \in Nat : f[ofs] = Onward(b, f, ofs)
  BY <1>3, SizeNat
<1>5. f = [ofs \in Nat |-> Onward(b, f, ofs)]
  BY <1>3, <1>4
<1> QED
  BY <1>5 DEF IsWalk

\* The walk over a list comes to the beginning of each of its items, and ends behind
\* the last one.
LEMMA WalkIs ==
    ASSUME NEW b, NEW names, Shows(b, names)
    PROVE  /\ Walk(b) \in Seq(Nat) /\ Len(Walk(b)) = Len(names)
           /\ \A i \in 1 .. Len(names) : Walk(b)[i] = StartOf(names, i)
<1>1. /\ names \in Seq(Names) /\ b \in Buffers /\ Len(names) \in Nat
      /\ Len(Bytes(names)) < Size /\ Len(Bytes(names)) \in Nat
      /\ \A k \in 0 .. Len(Bytes(names)) - 1 : b[k] = Bytes(names)[k + 1]
      /\ b[Len(Bytes(names))] = Zero
  BY BytesTyped DEF Shows
<1>2. PICK f : f = CHOOSE g : IsWalk(b, g)
  OBVIOUS
<1>3. IsWalk(b, f)
  BY <1>1, <1>2, WalkExists, Zenon
<1>4. Walk(b) = f[0]
  BY <1>2, Zenon DEF Walk, IsWalk, Onward
<1>5. \A ofs \in Nat : f[ofs] = Onward(b, f, ofs)
  BY <1>3, Zenon DEF IsWalk
<1>6. PICK m : m = Len(names)
  OBVIOUS
<1>. DEFINE From(k) == [j \in 1 .. k |-> StartOf(names, m - k + j)]
            P(k) == f[StartOf(names, m + 1 - k)] = From(k)
            Bad == {k \in 0 .. m : ~P(k)}
<1>7. Bad = {}
  <2>1. SUFFICES ASSUME Bad # {} PROVE FALSE
    OBVIOUS
  <2>2. PICK n \in Bad : \A k \in Bad : n =< k
    <3>1. Bad \subseteq Nat
      OBVIOUS
    <3>. HIDE DEF Bad
    <3> QED
      BY <2>1, <3>1, LeastOne
  <2>3. m \in Nat /\ n \in 0 .. m
    BY <1>1, <1>6, <2>2
  <2>4. n # 0
    <3>1. StartOf(names, m + 1 - 0) = Len(Bytes(names))
      <4>1. m + 1 - 0 = Len(names) + 1
        BY <1>6, <2>3
      <4> QED
        BY <1>1, <4>1, StartEnds
    <3>2. f[Len(Bytes(names))] = <<>>
      <4>1. b[Len(Bytes(names))].number = 0
        BY <1>1 DEF Zero
      <4> QED
        BY <1>1, <1>5, <4>1 DEF Onward
    <3>3. From(0) = <<>>
      OBVIOUS
    <3>4. P(0)
      BY <3>1, <3>2, <3>3
    <3> QED
      BY <2>2, <3>4
  <2>5. P(n - 1)
    <3>1. n - 1 \in 0 .. m /\ ~(n =< n - 1)
      BY <2>3, <2>4
    <3>2. n - 1 \notin Bad
      <4>. HIDE DEF Bad
      <4> QED
        BY <2>2, <3>1
    <3>. HIDE DEF P
    <3> QED
      BY <3>1, <3>2
  <2>6. PICK i : i = m + 1 - n
    OBVIOUS
  <2>7. i \in 1 .. m /\ m + 1 - (n - 1) = i + 1 /\ i \in 1 .. Len(names)
    BY <1>6, <2>3, <2>4, <2>6
  <2>8. PICK s, d, x : s = StartOf(names, i) /\ x = names[i] /\ d = ItemBytes[x]
    OBVIOUS
  <2>9. /\ s \in Nat /\ d \in Nat /\ d >= 3
        /\ StartOf(names, i + 1) = s + d /\ s + d =< Len(Bytes(names))
        /\ Bytes(names)[s + 1].number = d - 2
    BY <1>1, <2>7, <2>8, StartFacts
  <2>10. b[s].number = d - 2
    <3>1. s \in 0 .. Len(Bytes(names)) - 1
      BY <1>1, <2>9
    <3> QED
      BY <1>1, <2>9, <3>1
  <2>11. f[s] = <<s>> \o f[s + d]
    <3>1. s < Size /\ d - 2 # 0 /\ s + (d - 2) + 2 = s + d
      BY <1>1, <2>9, SizeNat
    <3>2. Onward(b, f, s) = <<s>> \o f[s + (d - 2) + 2]
      BY <2>10, <3>1 DEF Onward
    <3> QED
      BY <1>5, <2>9, <3>1, <3>2
  <2>12. f[s + d] = From(n - 1)
    BY <2>5, <2>7, <2>9
  <2>13. PICK v : v = From(n - 1)
    OBVIOUS
  <2>14. PICK w : w = From(n)
    OBVIOUS
  <2>15. \A k \in 1 .. m + 1 : StartOf(names, k) \in Nat
    <3>1. ASSUME NEW k \in 1 .. m + 1 PROVE StartOf(names, k) \in Nat
      <4>1. CASE k = m + 1
        BY <1>1, <1>6, <4>1, StartEnds
      <4>2. CASE k # m + 1
        <5>1. k \in 1 .. Len(names)
          BY <1>6, <2>3, <4>2
        <5> QED
          BY <1>1, <5>1, StartFacts
      <4> QED
        BY <4>1, <4>2
    <3> QED
      BY <3>1
  <2>16. /\ w \in Seq(Nat) /\ Len(w) = n
         /\ \A j \in 1 .. n : w[j] = StartOf(names, m - n + j)
    <3>1. \A j \in 1 .. n : StartOf(names, m - n + j) \in Nat
      <4>1. \A j \in 1 .. n : m - n + j \in 1 .. m + 1
        BY <2>3
      <4> QED
        BY <2>15, <4>1
    <3> QED
      BY <2>3, <2>14, <3>1
  <2>17. /\ v \in Seq(Nat) /\ Len(v) = n - 1
         /\ \A j \in 1 .. n - 1 : v[j] = StartOf(names, m - (n - 1) + j)
    <3>1. \A j \in 1 .. n - 1 : StartOf(names, m - (n - 1) + j) \in Nat
      <4>1. \A j \in 1 .. n - 1 : m - (n - 1) + j \in 1 .. m + 1
        BY <2>3, <2>4
      <4> QED
        BY <2>15, <4>1
    <3> QED
      BY <2>3, <2>4, <2>13, <3>1
  <2>18. <<s>> \o v = w
    <3>1. PICK z : z = <<s>> \o v
      OBVIOUS
    <3>2. PICK o : o = <<s>>
      OBVIOUS
    <3>3. o \in Seq(Nat) /\ Len(o) = 1 /\ o[1] = s
      BY <2>9, <3>2
    <3>4. /\ z \in Seq(Nat) /\ Len(z) = 1 + (n - 1)
          /\ \A j \in 1 .. 1 + (n - 1) : z[j] = IF j =< 1 THEN o[j] ELSE v[j - 1]
      BY <2>17, <3>1, <3>2, <3>3, ConcatProperties
    <3>5. Len(z) = Len(w)
      BY <2>3, <2>16, <3>4
    <3>6. ASSUME NEW j \in 1 .. Len(z) PROVE z[j] = w[j]
      <4>1. j \in 1 .. 1 + (n - 1) /\ j \in 1 .. n
        BY <2>3, <3>4
      <4>2. CASE j = 1
        <5>1. z[j] = s /\ m - n + j = i
          BY <2>3, <2>6, <3>3, <3>4, <4>1, <4>2
        <5> QED
          BY <2>8, <2>16, <4>1, <5>1
      <4>3. CASE j # 1
        <5>1. j - 1 \in 1 .. n - 1 /\ ~(j =< 1) /\ m - (n - 1) + (j - 1) = m - n + j
          BY <2>3, <4>1, <4>3
        <5>2. z[j] = v[j - 1]
          BY <3>4, <4>1, <5>1
        <5>3. v[j - 1] = StartOf(names, m - (n - 1) + (j - 1))
          BY <2>17, <5>1
        <5>4. w[j] = StartOf(names, m - n + j)
          BY <2>16, <4>1
        <5> QED
          BY <5>1, <5>2, <5>3, <5>4
      <4> QED
        BY <4>2, <4>3
    <3>7. z = w
      BY <2>16, <3>4, <3>5, <3>6, SeqEqual
    <3> QED
      BY <3>1, <3>7
  <2>19. P(n)
    BY <2>6, <2>8, <2>11, <2>12, <2>13, <2>14, <2>18
  <2> QED
    BY <2>2, <2>19
<1>8. f[0] = From(m)
  <2>1. m \in 0 .. m /\ m + 1 - m = 1
    BY <1>1, <1>6
  <2>2. P(m)
    <3>. HIDE DEF P
    <3> QED
      BY <1>7, <2>1
  <2>3. PICK c, w : c = StartOf(names, m + 1 - m) /\ w = From(m)
    OBVIOUS
  <2>4. f[c] = w
    BY <2>2, <2>3
  <2>5. c = 0
    BY <1>1, <2>1, <2>3, StartEnds
  <2> QED
    BY <2>3, <2>4, <2>5, Zenon
<1>9. \A j \in 1 .. m : m - m + j = j /\ StartOf(names, j) \in Nat
  <2>1. ASSUME NEW j \in 1 .. m PROVE m - m + j = j /\ StartOf(names, j) \in Nat
    <3>1. m \in Nat /\ j \in 1 .. Len(names)
      BY <1>1, <1>6
    <3>2. StartOf(names, j) \in Nat
      BY <1>1, <3>1, StartFacts
    <3> QED
      BY <3>1, <3>2
  <2> QED
    BY <2>1
<1>10. /\ From(m) \in Seq(Nat) /\ Len(From(m)) = m
       /\ \A j \in 1 .. m : From(m)[j] = StartOf(names, j)
  <2>1. From(m) = [j \in 1 .. m |-> StartOf(names, j)]
    BY <1>9
  <2>2. m \in Nat
    BY <1>1, <1>6
  <2>. HIDE DEF From
  <2> QED
    BY <1>9, <2>1, <2>2
<1> QED
  BY <1>4, <1>6, <1>8, <1>10

\* read_header finds the end of the list.
LEMMA WalkEndIs ==
    ASSUME NEW b, NEW names, Shows(b, names)
    PROVE  WalkEnd(b) = Len(Bytes(names))
<1>1. /\ names \in Seq(Names) /\ Len(names) \in Nat
      /\ Len(Bytes(names)) \in Nat
      /\ \A k \in 0 .. Len(Bytes(names)) - 1 : b[k] = Bytes(names)[k + 1]
  BY BytesTyped DEF Shows
<1>2. PICK w : w = Walk(b)
  OBVIOUS
<1>3. /\ w \in Seq(Nat) /\ Len(w) = Len(names)
      /\ \A i \in 1 .. Len(names) : w[i] = StartOf(names, i)
  BY <1>2, WalkIs
<1>4. CASE names = <<>>
  <2>1. w = <<>> /\ Bytes(names) = <<>>
    BY <1>3, <1>4, EmptySeq, BytesTyped
  <2> QED
    BY <1>2, <2>1 DEF WalkEnd
<1>5. CASE names # <<>>
  <2>1. PICK m : m = Len(names)
    OBVIOUS
  <2>2. m \in 1 .. Len(names) /\ w # <<>>
    BY <1>1, <1>3, <1>5, <2>1, EmptySeq
  <2>3. PICK s, d : s = StartOf(names, m) /\ d = ItemBytes[names[m]]
    OBVIOUS
  <2>4. /\ s \in Nat /\ d \in Nat /\ d >= 3 /\ s + d = Len(Bytes(names))
        /\ Bytes(names)[s + 1].number = d - 2
    <3>1. StartOf(names, m + 1) = Len(Bytes(names))
      BY <1>1, <2>1, StartEnds
    <3>2. StartOf(names, m + 1) = s + d
      BY <1>1, <2>2, <2>3, StartFacts
    <3>3. /\ s \in Nat /\ d \in Nat /\ d >= 3
          /\ Bytes(names)[s + 1].number = d - 2
      BY <1>1, <2>2, <2>3, StartFacts
    <3> QED
      BY <3>1, <3>2, <3>3
  <2>5. Last(w) = s
    BY <1>3, <2>1, <2>2, <2>3 DEF Last
  <2>6. b[s].number = d - 2
    <3>1. s \in 0 .. Len(Bytes(names)) - 1
      BY <2>4
    <3> QED
      BY <1>1, <2>4, <3>1
  <2>7. WalkEnd(b) = Last(w) + b[Last(w)].number + 2
    BY <1>2, <2>2 DEF WalkEnd
  <2> QED
    BY <2>4, <2>5, <2>6, <2>7
<1> QED
  BY <1>4, <1>5

\* No name is in the list twice.
NoTwice(names) == \A i, j \in 1 .. Len(names) : names[i] = names[j] => i = j

\* find_file finds the item of a name, and no other.
LEMMA OffsetsAre ==
    ASSUME NEW b, NEW names, Shows(b, names), NEW name \in Names
    PROVE  Offsets(b, name) =
              {StartOf(names, i) : i \in {j \in 1 .. Len(names) : names[j] = name}}
<1>1. /\ names \in Seq(Names) /\ Len(names) \in Nat
      /\ Len(Bytes(names)) \in Nat
      /\ \A k \in 0 .. Len(Bytes(names)) - 1 : b[k] = Bytes(names)[k + 1]
  BY BytesTyped DEF Shows
<1>2. PICK w : w = Walk(b)
  OBVIOUS
<1>3. /\ w \in Seq(Nat) /\ Len(w) = Len(names)
      /\ \A i \in 1 .. Len(names) : w[i] = StartOf(names, i)
  BY <1>2, WalkIs
<1>4. ToSet(w) = {StartOf(names, i) : i \in 1 .. Len(names)}
  <2>1. DOMAIN w = 1 .. Len(names)
    BY <1>3
  <2>2. ToSet(w) = {w[i] : i \in 1 .. Len(names)}
    BY <2>1 DEF ToSet
  <2>3. \A i \in 1 .. Len(names) : w[i] = StartOf(names, i)
    BY <1>3
  <2> QED
    BY <2>2, <2>3, Zenon
<1>5. ASSUME NEW i \in 1 .. Len(names)
      PROVE  b[StartOf(names, i) + 1] = [number |-> 1, of |-> names[i], at |-> 2]
  <2>1. PICK s : s = StartOf(names, i)
    OBVIOUS
  <2>2. PICK d : d = ItemBytes[names[i]]
    OBVIOUS
  <2>3. /\ s \in Nat /\ d \in Nat /\ d >= 3 /\ s + d =< Len(Bytes(names))
        /\ Bytes(names)[s + 2] = [number |-> 1, of |-> names[i], at |-> 2]
    BY <1>1, <2>1, <2>2, StartFacts
  <2>4. s + 1 \in 0 .. Len(Bytes(names)) - 1 /\ (s + 1) + 1 = s + 2
    BY <1>1, <2>3
  <2> QED
    BY <1>1, <2>1, <2>3, <2>4
<1>6. ItemOf(name)[2] = [number |-> 1, of |-> name, at |-> 2]
  BY ItemFacts
<1>7. ASSUME NEW i \in 1 .. Len(names)
      PROVE  b[StartOf(names, i) + 1] = ItemOf(name)[2] <=> names[i] = name
  <2>1. PICK x : x = names[i]
    OBVIOUS
  <2>2. ASSUME [number |-> 1, of |-> x, at |-> 2] = [number |-> 1, of |-> name, at |-> 2]
        PROVE  x = name
    <3>1. [number |-> 1, of |-> x, at |-> 2].of = [number |-> 1, of |-> name, at |-> 2].of
      BY <2>2, Zenon
    <3> QED
      BY <3>1
  <2>3. b[StartOf(names, i) + 1] = [number |-> 1, of |-> x, at |-> 2]
    BY <1>5, <2>1
  <2> QED
    BY <1>6, <2>1, <2>2, <2>3, Zenon
<1>8. Offsets(b, name) = {ofs \in ToSet(w) : b[ofs + 1] = ItemOf(name)[2]}
  BY <1>2 DEF Offsets
<1> QED
  BY <1>4, <1>7, <1>8, ZenonT(30)

-----------------------------------------------------------------------------
(***************************************************************************)
(* The names of a list that is edited.                                     *)
(***************************************************************************)

\* Without a name that is not in the list it stays as it is,
LEMMA WithoutNone ==
    ASSUME NEW names, NEW name, \A i \in 1 .. Len(names) : names[i] # name
    PROVE  NamesWithout(names, name) = names
  BY DEF NamesWithout, RemoveFirst

\* and without one that is, the items around that one remain.
LEMMA WithoutOne ==
    ASSUME NEW names, Len(names) \in Nat, NoTwice(names), NEW i \in 1 .. Len(names)
    PROVE  NamesWithout(names, names[i]) =
              SubSeq(names, 1, i - 1) \o SubSeq(names, i + 1, Len(names))
<1>1. PICK name : name = names[i]
  OBVIOUS
<1>2. SelectInSeq(names, LAMBDA v : v = name) = i
  <2>. DEFINE I == {j \in 1 .. Len(names) : names[j] = name}
  <2>1. I = {i}
    BY <1>1 DEF NoTwice
  <2>2. Min(I) = i
    <3>. HIDE DEF I
    <3> QED
      BY <2>1 DEF Min
  <2>3. SelectInSeq(names, LAMBDA v : v = name) = IF I # {} THEN Min(I) ELSE 0
    BY DEF SelectInSeq
  <2> QED
    BY <2>1, <2>2, <2>3
<1>3. NamesWithout(names, name) = RemoveAt(names, SelectInSeq(names, LAMBDA v : v = name))
  BY <1>1 DEF NamesWithout, RemoveFirst
<1> QED
  BY <1>1, <1>2, <1>3 DEF RemoveAt

\* What is left has no name twice, and not the one taken out.
LEMMA WithoutFacts ==
    ASSUME NEW names \in Seq(Names), NoTwice(names), NEW name
    PROVE  /\ NamesWithout(names, name) \in Seq(Names)
           /\ NoTwice(NamesWithout(names, name))
           /\ \A j \in 1 .. Len(NamesWithout(names, name)) :
                 NamesWithout(names, name)[j] # name
<1>1. CASE \A i \in 1 .. Len(names) : names[i] # name
  BY <1>1, WithoutNone, Zenon
<1>2. CASE \E i \in 1 .. Len(names) : names[i] = name
  <2>1. PICK i \in 1 .. Len(names) : names[i] = name
    BY <1>2
  <2>2. PICK u, v \in Seq(Names) :
           /\ u = SubSeq(names, 1, i - 1) /\ v = SubSeq(names, i + 1, Len(names))
           /\ Len(u) = i - 1 /\ Len(v) = Len(names) - i
           /\ names = (u \o <<names[i]>>) \o v
    BY ListAround
  <2>3. PICK w : w = NamesWithout(names, name)
    OBVIOUS
  <2>4. w = u \o v
    <3>1. Len(names) \in Nat
      OBVIOUS
    <3>2. NamesWithout(names, names[i]) = u \o v
      BY <2>2, <3>1, WithoutOne
    <3> QED
      BY <2>1, <2>3, <3>2
  <2>5. PICK l, m : l = Len(u) /\ m = Len(v)
    OBVIOUS
  <2>6. l \in Nat /\ m \in Nat /\ i = l + 1 /\ Len(names) = (l + 1) + m
    BY <2>2, <2>5
  <2>7. /\ w \in Seq(Names) /\ Len(w) = l + m
        /\ \A k \in 1 .. l + m : w[k] = IF k =< l THEN u[k] ELSE v[k - l]
    BY <2>4, <2>5, ConcatProperties
  <2>8. /\ \A k \in 1 .. l : names[k] = u[k]
        /\ \A k \in 1 .. m : names[l + 1 + k] = v[k]
    <3>1. PICK x : x = <<names[i]>>
      OBVIOUS
    <3>2. x \in Seq(Names) /\ Len(x) = 1
      <4>1. names[i] \in Names
        BY ElementOfSeq
      <4> QED
        BY <3>1, <4>1
    <3>3. names = (u \o x) \o v
      BY <2>2, <3>1
    <3>4. Joined(names, u, x, v)
      BY <3>2, <3>3, ThreeParts
    <3> QED
      BY <2>5, <3>2, <3>4 DEF Joined
  <2>9. ASSUME NEW k \in 1 .. l + m
        PROVE  w[k] = names[IF k =< l THEN k ELSE k + 1]
    <3>1. CASE k =< l
      <4>1. k \in 1 .. l
        BY <2>6, <3>1
      <4> QED
        BY <2>7, <2>8, <3>1, <4>1
    <3>2. CASE ~(k =< l)
      <4>1. k - l \in 1 .. m /\ l + 1 + (k - l) = k + 1
        BY <2>6, <3>2
      <4>2. names[k + 1] = v[k - l]
        BY <2>8, <4>1
      <4> QED
        BY <2>7, <3>2, <4>2
    <3> QED
      BY <3>1, <3>2
  <2>10. \A k \in 1 .. l + m :
            (IF k =< l THEN k ELSE k + 1) \in 1 .. Len(names)
            /\ (IF k =< l THEN k ELSE k + 1) # i
    BY <2>6
  <2>11. NoTwice(w)
    <3>1. ASSUME NEW j \in 1 .. Len(w), NEW k \in 1 .. Len(w), w[j] = w[k] PROVE j = k
      <4>1. j \in 1 .. l + m /\ k \in 1 .. l + m
        BY <2>7
      <4>2. PICK a, c : a = (IF j =< l THEN j ELSE j + 1) /\ c = (IF k =< l THEN k ELSE k + 1)
        OBVIOUS
      <4>3. w[j] = names[a] /\ w[k] = names[c]
        BY <2>9, <4>1, <4>2
      <4>4. a \in 1 .. Len(names) /\ c \in 1 .. Len(names)
        BY <2>10, <4>1, <4>2
      <4>5. a = c
        BY <3>1, <4>3, <4>4 DEF NoTwice
      <4> QED
        BY <2>6, <4>1, <4>2, <4>5
    <3> QED
      BY <3>1 DEF NoTwice
  <2>12. \A j \in 1 .. Len(w) : w[j] # name
    <3>1. ASSUME NEW j \in 1 .. Len(w), w[j] = name PROVE FALSE
      <4>1. PICK a : a = IF j =< l THEN j ELSE j + 1
        OBVIOUS
      <4>2. a \in 1 .. Len(names) /\ a # i /\ names[a] = name
        BY <2>7, <2>9, <2>10, <3>1, <4>1
      <4> QED
        BY <2>1, <4>2 DEF NoTwice
    <3> QED
      BY <3>1
  <2> QED
    BY <2>3, <2>7, <2>11, <2>12
<1> QED
  BY <1>1, <1>2

\* A name more, which was not in the list.
LEMMA InsertFacts ==
    ASSUME NEW names \in Seq(Names), NoTwice(names), NEW name \in Names,
           \A j \in 1 .. Len(names) : names[j] # name,
           NEW i \in 1 .. Len(names) + 1
    PROVE  \E u, v \in Seq(Names) :
              /\ Len(Bytes(u)) = StartOf(names, i)
              /\ Bytes(names) = Bytes(u) \o Bytes(v)
              /\ InsertAt(names, i, name) = (u \o <<name>>) \o v
              /\ InsertAt(names, i, name) \in Seq(Names) /\ NoTwice(InsertAt(names, i, name))
<1>1. PICK u, v : u = SubSeq(names, 1, i - 1) /\ v = SubSeq(names, i, Len(names))
  OBVIOUS
<1>2. PICK m : m = Len(names)
  OBVIOUS
<1>3. m \in Nat /\ i \in 1 .. m + 1
  BY <1>2
<1>4. u \in Seq(Names) /\ Len(u) = i - 1
  <2>1. \A k \in 1 .. i - 1 : names[k] \in Names
    BY <1>2, <1>3, ElementOfSeq
  <2> QED
    BY <1>1, <1>3, <2>1, SubSeqProperties
<1>5. v \in Seq(Names) /\ Len(v) = (m + 1) - i
  <2>1. \A k \in i .. m : names[k] \in Names
    BY <1>2, <1>3, ElementOfSeq
  <2>2. v \in Seq(Names) /\ Len(v) = IF i =< m THEN m - i + 1 ELSE 0
    BY <1>1, <1>2, <1>3, <2>1, SubSeqProperties
  <2> QED
    BY <1>3, <2>2
<1>6. names = u \o v
  <2>1. PICK j : j = i - 1
    OBVIOUS
  <2>2. j \in 0 .. m /\ j + 1 = i
    BY <1>3, <2>1
  <2>3. SubSeq(names, 1, j) \o SubSeq(names, j + 1, m) = SubSeq(names, 1, m)
    <3>1. 1 \in 1 .. Len(names) + 1 /\ j \in 1 - 1 .. Len(names) /\ m \in j .. Len(names)
      BY <1>2, <1>3, <2>2
    <3> QED
      BY <3>1, ConcatAdjacentSubSeq
  <2>4. SubSeq(names, 1, m) = names
    BY <1>2, SubSeqFull
  <2> QED
    BY <1>1, <1>2, <2>1, <2>2, <2>3, <2>4
<1>7. Bytes(names) = Bytes(u) \o Bytes(v)
  BY <1>4, <1>5, <1>6, BytesConcat
<1>8. PICK w, x : w = InsertAt(names, i, name) /\ x = <<name>>
  OBVIOUS
<1>9. w = (u \o x) \o v
  BY <1>1, <1>8 DEF InsertAt
<1>10. x \in Seq(Names) /\ Len(x) = 1 /\ x[1] = name
  BY <1>8
<1>11. PICK l, n : l = Len(u) /\ n = Len(v)
  OBVIOUS
<1>12. l \in Nat /\ n \in Nat /\ i = l + 1 /\ m = l + n
  BY <1>3, <1>4, <1>5, <1>11
<1>13. /\ w \in Seq(Names) /\ Len(w) = (l + 1) + n
       /\ \A k \in 1 .. l : w[k] = u[k]
       /\ w[l + 1] = name
       /\ \A k \in 1 .. n : w[(l + 1) + k] = v[k]
  <2>1. u \in Seq(Names) /\ x \in Seq(Names) /\ v \in Seq(Names)
    BY <1>4, <1>5, <1>10
  <2>2. w \in Seq(Names) /\ Joined(w, u, x, v)
    BY <1>9, <2>1, ThreeParts
  <2>3. 1 \in 1 .. Len(x)
    BY <1>10
  <2> QED
    BY <1>10, <1>11, <2>2, <2>3 DEF Joined
<1>14. \A k \in 1 .. l + n : names[k] = IF k =< l THEN u[k] ELSE v[k - l]
  BY <1>4, <1>5, <1>6, <1>11, ConcatProperties
<1>15. ASSUME NEW k \in 1 .. (l + 1) + n, k # l + 1
       PROVE  w[k] = names[IF k =< l THEN k ELSE k - 1]
  <2>1. CASE k =< l
    <3>1. k \in 1 .. l /\ k \in 1 .. l + n
      BY <1>12, <2>1
    <3> QED
      BY <1>13, <1>14, <2>1, <3>1
  <2>2. CASE ~(k =< l)
    <3>1. k - (l + 1) \in 1 .. n /\ (l + 1) + (k - (l + 1)) = k
      BY <1>12, <1>15, <2>2
    <3>2. k - 1 \in 1 .. l + n /\ ~(k - 1 =< l) /\ (k - 1) - l = k - (l + 1)
      BY <1>12, <1>15, <2>2
    <3>3. w[k] = v[k - (l + 1)]
      BY <1>13, <3>1
    <3>4. names[k - 1] = v[k - (l + 1)]
      BY <1>14, <3>2
    <3> QED
      BY <2>2, <3>3, <3>4
  <2> QED
    BY <2>1, <2>2
<1>16. \A k \in 1 .. (l + 1) + n :
          k # l + 1 => (IF k =< l THEN k ELSE k - 1) \in 1 .. m
  BY <1>12
<1>17. NoTwice(w)
  <2>1. ASSUME NEW j \in 1 .. Len(w), NEW k \in 1 .. Len(w), w[j] = w[k] PROVE j = k
    <3>1. j \in 1 .. (l + 1) + n /\ k \in 1 .. (l + 1) + n
      BY <1>13
    <3>2. PICK a, c : a = (IF j =< l THEN j ELSE j - 1) /\ c = (IF k =< l THEN k ELSE k - 1)
      OBVIOUS
    <3>3. j # l + 1 => w[j] = names[a] /\ a \in 1 .. m
      BY <1>15, <1>16, <3>1, <3>2
    <3>4. k # l + 1 => w[k] = names[c] /\ c \in 1 .. m
      BY <1>15, <1>16, <3>1, <3>2
    <3>5. CASE j = l + 1 \/ k = l + 1
      BY <1>2, <1>13, <2>1, <3>3, <3>4, <3>5
    <3>6. CASE j # l + 1 /\ k # l + 1
      <4>1. a = c
        BY <1>2, <2>1, <3>3, <3>4, <3>6 DEF NoTwice
      <4> QED
        BY <1>12, <3>1, <3>2, <3>6, <4>1
    <3> QED
      BY <3>5, <3>6
  <2> QED
    BY <2>1 DEF NoTwice
<1>18. Len(Bytes(u)) = StartOf(names, i)
  BY <1>1 DEF StartOf
<1> QED
  BY <1>4, <1>5, <1>7, <1>8, <1>9, <1>13, <1>17, <1>18

\* Another name for an item.
LEMMA RenameFacts ==
    ASSUME NEW names \in Seq(Names), NoTwice(names), NEW name \in Names,
           \A j \in 1 .. Len(names) : names[j] # name,
           NEW i \in 1 .. Len(names)
    PROVE  \E u, v \in Seq(Names) :
              /\ u = SubSeq(names, 1, i - 1) /\ names[i] \in Names
              /\ Bytes(names) = (Bytes(u) \o ItemOf(names[i])) \o Bytes(v)
              /\ ReplaceAll(names, names[i], name) \in Seq(Names)
              /\ NoTwice(ReplaceAll(names, names[i], name))
              /\ ReplaceAll(names, names[i], name) = (u \o <<name>>) \o v
<1>1. PICK u, v \in Seq(Names) :
         /\ u = SubSeq(names, 1, i - 1) /\ names[i] \in Names
         /\ Len(u) = i - 1 /\ Len(v) = Len(names) - i
         /\ names = (u \o <<names[i]>>) \o v
         /\ Bytes(names) = (Bytes(u) \o ItemOf(names[i])) \o Bytes(v)
  BY ListAround
<1>2. PICK r : r = ReplaceAll(names, names[i], name)
  OBVIOUS
<1>3. PICK m : m = Len(names)
  OBVIOUS
<1>4. m \in Nat /\ i \in 1 .. m /\ \A j \in 1 .. m : names[j] \in Names
  BY <1>3, ElementOfSeq
<1>5. \A j \in 1 .. m : names[j] = names[i] <=> j = i
  BY <1>3, <1>4 DEF NoTwice
<1>6. r = [j \in 1 .. m |-> IF j = i THEN name ELSE names[j]]
  <2>1. r = [j \in 1 .. m |-> IF names[j] = names[i] THEN name ELSE names[j]]
    BY <1>2, <1>3 DEF ReplaceAll
  <2> QED
    BY <1>5, <2>1
<1>7. /\ r \in Seq(Names) /\ Len(r) = m
      /\ \A j \in 1 .. m : r[j] = IF j = i THEN name ELSE names[j]
  <2>1. \A j \in 1 .. m : (IF j = i THEN name ELSE names[j]) \in Names
    BY <1>4
  <2>2. r \in [1 .. m -> Names]
    BY <1>6, <2>1
  <2>3. \A j \in 1 .. m : r[j] = IF j = i THEN name ELSE names[j]
    BY <1>6
  <2>4. r \in Seq(Names)
    <3>1. m \in Nat
      BY <1>4
    <3> QED
      BY <2>2, <3>1, SeqDef
  <2>5. Len(r) = m
    <3>1. DOMAIN r = 1 .. m /\ m \in Nat
      BY <1>4, <2>2
    <3> QED
      BY <2>4, <3>1, LenProperties
  <2> QED
    BY <2>3, <2>4, <2>5
<1>8. NoTwice(r)
  <2>1. ASSUME NEW j \in 1 .. m, NEW k \in 1 .. m, r[j] = r[k] PROVE j = k
    <3>1. /\ r[j] = IF j = i THEN name ELSE names[j]
          /\ r[k] = IF k = i THEN name ELSE names[k]
      BY <1>7
    <3>2. names[j] # name /\ names[k] # name
      BY <1>3
    <3>3. names[j] = names[k] => j = k
      BY <1>3 DEF NoTwice
    <3> QED
      BY <2>1, <3>1, <3>2, <3>3
  <2> QED
    BY <1>7, <2>1 DEF NoTwice
<1>9. r = (u \o <<name>>) \o v
  <2>1. PICK x, y, w : x = <<names[i]>> /\ y = <<name>> /\ w = (u \o y) \o v
    OBVIOUS
  <2>2. PICK l, n : l = Len(u) /\ n = Len(v)
    OBVIOUS
  <2>3. /\ x \in Seq(Names) /\ Len(x) = 1
        /\ y \in Seq(Names) /\ Len(y) = 1 /\ y[1] = name
        /\ l \in Nat /\ n \in Nat /\ i = l + 1 /\ m = (l + 1) + n
    BY <1>1, <1>3, <1>4, <2>1, <2>2
  <2>4. /\ \A k \in 1 .. l : names[k] = u[k]
        /\ \A k \in 1 .. n : names[(l + 1) + k] = v[k]
    <3>1. names = (u \o x) \o v
      BY <1>1, <2>1
    <3>2. x \in Seq(Names)
      BY <2>3
    <3>3. Joined(names, u, x, v)
      BY <3>1, <3>2, ThreeParts
    <3> QED
      BY <2>2, <2>3, <3>3 DEF Joined
  <2>5. /\ w \in Seq(Names) /\ Len(w) = (l + 1) + n
        /\ \A k \in 1 .. l : w[k] = u[k]
        /\ w[l + 1] = name
        /\ \A k \in 1 .. n : w[(l + 1) + k] = v[k]
    <3>1. y \in Seq(Names) /\ w = (u \o y) \o v
      BY <2>1, <2>3
    <3>2. w \in Seq(Names) /\ Joined(w, u, y, v)
      BY <3>1, ThreeParts
    <3>3. 1 \in 1 .. Len(y)
      BY <2>3
    <3> QED
      BY <2>2, <2>3, <3>2, <3>3 DEF Joined
  <2>6. ASSUME NEW k \in 1 .. m PROVE r[k] = w[k]
    <3>1. CASE k = i
      BY <1>7, <2>3, <2>5, <3>1
    <3>2. CASE k < i
      <4>1. k \in 1 .. l
        BY <2>3, <3>2
      <4>2. k # i
        BY <1>4, <3>2
      <4> QED
        BY <1>7, <2>4, <2>5, <4>1, <4>2
    <3>3. CASE k > i
      <4>1. k - (l + 1) \in 1 .. n /\ (l + 1) + (k - (l + 1)) = k /\ k # i
        BY <2>3, <3>3
      <4>2. names[k] = v[k - (l + 1)] /\ w[k] = v[k - (l + 1)]
        BY <2>4, <2>5, <4>1
      <4> QED
        BY <1>7, <4>1, <4>2
    <3> QED
      BY <1>4, <3>1, <3>2, <3>3
  <2>7. r = w
    <3>1. Len(r) = Len(w) /\ \A k \in 1 .. Len(r) : r[k] = w[k]
      BY <1>7, <2>3, <2>5, <2>6
    <3> QED
      BY <1>7, <2>5, <3>1, SeqEqual
  <2> QED
    BY <2>1, <2>7
<1> QED
  BY <1>1, <1>2, <1>7, <1>8, <1>9

-----------------------------------------------------------------------------
(***************************************************************************)
(* The buffer that is edited.                                              *)
(***************************************************************************)

\* Three runs of bytes and a terminator are in b.
Laid(b, u, x, v) ==
    /\ Len(u) + Len(x) + Len(v) < Size
    /\ \A k \in 0 .. Len(u) - 1 : b[k] = u[k + 1]
    /\ \A k \in 0 .. Len(x) - 1 : b[Len(u) + k] = x[k + 1]
    /\ \A k \in 0 .. Len(v) - 1 : b[Len(u) + Len(x) + k] = v[k + 1]
    /\ b[Len(u) + Len(x) + Len(v)] = Zero

\* It shows the list if they are its bytes.
LEMMA LaidShows ==
    ASSUME NEW names \in Seq(Names), NEW b \in Buffers,
           NEW u \in Seq(Byte), NEW x \in Seq(Byte), NEW v \in Seq(Byte),
           Bytes(names) = (u \o x) \o v
    PROVE  Shows(b, names) <=> Laid(b, u, x, v)
<1>1. PICK w : w = Bytes(names)
  OBVIOUS
<1>2. Joined(w, u, x, v)
  BY <1>1, ThreeParts
<1>3. PICK l, m, n : l = Len(u) /\ m = Len(x) /\ n = Len(v)
  OBVIOUS
<1>4. /\ l \in Nat /\ m \in Nat /\ n \in Nat /\ Len(w) = l + m + n
      /\ \A k \in 1 .. l : w[k] = u[k]
      /\ \A k \in 1 .. m : w[l + k] = x[k]
      /\ \A k \in 1 .. n : w[l + m + k] = v[k]
  BY <1>2, <1>3 DEF Joined
<1>5. Shows(b, names) <=>
         /\ l + m + n < Size
         /\ \A k \in 0 .. (l + m + n) - 1 : b[k] = w[k + 1]
         /\ b[l + m + n] = Zero
  BY <1>1, <1>4 DEF Shows
<1>6. Laid(b, u, x, v) <=>
         /\ l + m + n < Size
         /\ \A k \in 0 .. l - 1 : b[k] = u[k + 1]
         /\ \A k \in 0 .. m - 1 : b[l + k] = x[k + 1]
         /\ \A k \in 0 .. n - 1 : b[l + m + k] = v[k + 1]
         /\ b[l + m + n] = Zero
  BY <1>3 DEF Laid
<1>7. ASSUME \A k \in 0 .. (l + m + n) - 1 : b[k] = w[k + 1]
      PROVE  /\ \A k \in 0 .. l - 1 : b[k] = u[k + 1]
             /\ \A k \in 0 .. m - 1 : b[l + k] = x[k + 1]
             /\ \A k \in 0 .. n - 1 : b[l + m + k] = v[k + 1]
  <2>1. ASSUME NEW k \in 0 .. l - 1 PROVE b[k] = u[k + 1]
    <3>1. k \in 0 .. (l + m + n) - 1 /\ k + 1 \in 1 .. l
      BY <1>4
    <3> QED
      BY <1>4, <1>7, <3>1
  <2>2. ASSUME NEW k \in 0 .. m - 1 PROVE b[l + k] = x[k + 1]
    <3>1. l + k \in 0 .. (l + m + n) - 1 /\ k + 1 \in 1 .. m /\ (l + k) + 1 = l + (k + 1)
      BY <1>4
    <3>2. b[l + k] = w[(l + k) + 1] /\ w[l + (k + 1)] = x[k + 1]
      BY <1>4, <1>7, <3>1
    <3> QED
      BY <3>1, <3>2
  <2>3. ASSUME NEW k \in 0 .. n - 1 PROVE b[l + m + k] = v[k + 1]
    <3>1. /\ l + m + k \in 0 .. (l + m + n) - 1 /\ k + 1 \in 1 .. n
          /\ (l + m + k) + 1 = l + m + (k + 1)
      BY <1>4
    <3>2. b[l + m + k] = w[(l + m + k) + 1] /\ w[l + m + (k + 1)] = v[k + 1]
      BY <1>4, <1>7, <3>1
    <3> QED
      BY <3>1, <3>2
  <2> QED
    BY <2>1, <2>2, <2>3
<1>8. ASSUME \A k \in 0 .. l - 1 : b[k] = u[k + 1],
             \A k \in 0 .. m - 1 : b[l + k] = x[k + 1],
             \A k \in 0 .. n - 1 : b[l + m + k] = v[k + 1]
      PROVE  \A k \in 0 .. (l + m + n) - 1 : b[k] = w[k + 1]
  <2>1. ASSUME NEW k \in 0 .. (l + m + n) - 1 PROVE b[k] = w[k + 1]
    <3>1. CASE k < l
      <4>1. k \in 0 .. l - 1 /\ k + 1 \in 1 .. l
        BY <1>4, <3>1
      <4> QED
        BY <1>4, <1>8, <4>1
    <3>2. CASE ~(k < l) /\ k < l + m
      <4>1. PICK j : j = k - l
        OBVIOUS
      <4>2. j \in 0 .. m - 1 /\ j + 1 \in 1 .. m /\ k = l + j /\ k + 1 = l + (j + 1)
        BY <1>4, <3>2, <4>1
      <4>3. b[l + j] = x[j + 1] /\ w[l + (j + 1)] = x[j + 1]
        BY <1>4, <1>8, <4>2
      <4> QED
        BY <4>2, <4>3
    <3>3. CASE ~(k < l + m)
      <4>1. PICK j : j = k - (l + m)
        OBVIOUS
      <4>2. j \in 0 .. n - 1 /\ j + 1 \in 1 .. n /\ k = l + m + j /\ k + 1 = l + m + (j + 1)
        BY <1>4, <3>3, <4>1
      <4>3. b[l + m + j] = v[j + 1] /\ w[l + m + (j + 1)] = v[j + 1]
        BY <1>4, <1>8, <4>2
      <4> QED
        BY <4>2, <4>3
    <3> QED
      BY <3>1, <3>2, <3>3
  <2> QED
    BY <2>1
<1>9. Shows(b, names) <=> Laid(b, u, x, v)
  <2>1. ASSUME Shows(b, names) PROVE Laid(b, u, x, v)
    BY <1>5, <1>6, <1>7, <2>1
  <2>2. ASSUME Laid(b, u, x, v) PROVE Shows(b, names)
    BY <1>5, <1>6, <1>8, <2>2
  <2> QED
    BY <2>1, <2>2 DEF Shows, Laid
<1> QED
  BY <1>9

\* Such a list is as long as the three.
LEMMA LaidLength ==
    ASSUME NEW names \in Seq(Names),
           NEW u \in Seq(Byte), NEW x \in Seq(Byte), NEW v \in Seq(Byte),
           Bytes(names) = (u \o x) \o v
    PROVE  Len(Bytes(names)) = Len(u) + Len(x) + Len(v)
<1>1. Joined(Bytes(names), u, x, v)
  BY ThreeParts
<1> QED
  BY <1>1 DEF Joined

\* A copy that is made as a whole.
Copied(c, b, dst, src, n) ==
    /\ c \in Buffers
    /\ \A k \in 0 .. Size - 1 :
          c[k] = IF dst =< k /\ k < dst + n THEN b[src + (k - dst)] ELSE b[k]

\* memcpy where it copies what was there before.
LEMMA CopyWhole ==
    ASSUME NEW b \in Buffers, NEW dst \in Nat, NEW src \in Nat, NEW n \in Nat,
           src + n =< Size, dst + n =< Size
    PROVE  Copied(Memcpy(b, dst, src, n, "whole"), b, dst, src, n)
<1>1. PICK c : c = Memcpy(b, dst, src, n, "whole")
  OBVIOUS
<1>2. c = [k \in 0 .. Size - 1 |->
             IF k \notin dst .. dst + n - 1 THEN b[k] ELSE b[src + k - dst]]
  <2>1. DOMAIN b = 0 .. Size - 1
    BY DEF Buffers
  <2>2. "whole" # "up" /\ "whole" # "down"
    OBVIOUS
  <2> QED
    BY <1>1, <2>1, <2>2 DEF Memcpy
<1>3. ASSUME NEW k \in 0 .. Size - 1
      PROVE  /\ c[k] = IF dst =< k /\ k < dst + n THEN b[src + (k - dst)] ELSE b[k]
             /\ c[k] \in Byte
  <2>1. c[k] = IF k \notin dst .. dst + n - 1 THEN b[k] ELSE b[src + k - dst]
    BY <1>2
  <2>2. k \in Nat /\ k < Size
    BY SizeNat
  <2>3. k \in dst .. dst + n - 1 <=> dst =< k /\ k < dst + n
    BY <2>2
  <2>4. src + k - dst = src + (k - dst)
    BY <2>2
  <2>5. dst =< k /\ k < dst + n => src + (k - dst) \in 0 .. Size - 1
    BY <2>2, SizeNat
  <2>6. b[k] \in Byte /\ (dst =< k /\ k < dst + n => b[src + (k - dst)] \in Byte)
    BY <2>5 DEF Buffers
  <2> QED
    BY <2>1, <2>3, <2>4, <2>6
<1>4. c \in Buffers
  BY <1>2, <1>3 DEF Buffers
<1> QED
  BY <1>1, <1>3, <1>4 DEF Copied

\* The terminator is a byte.
LEMMA ZeroByte == Zero \in Byte
<1>1. 0 \in Nat /\ "none" \in Names \union {"none"}
  OBVIOUS
<1> QED
  BY <1>1 DEF Zero, Byte

\* A list on the disk is one that fits in the buffer.
LEMMA EncodedTyped ==
    ASSUME NEW names \in Seq(Names)
    PROVE  Encoded(names) \in Buffers
<1>1. PICK w, m : w = Bytes(names) /\ m = Len(w)
  OBVIOUS
<1>2. w \in Seq(Byte) /\ m \in Nat
  BY <1>1, BytesTyped
<1>3. ASSUME NEW k \in 0 .. Size - 1 PROVE (IF k < m THEN w[k + 1] ELSE Zero) \in Byte
  <2>1. k < m => k + 1 \in 1 .. m
    BY <1>2, SizeNat
  <2>2. k < m => w[k + 1] \in Byte
    BY <1>1, <1>2, <2>1
  <2> QED
    BY <2>2, ZeroByte
<1>4. Encoded(names) = [k \in 0 .. Size - 1 |-> IF k < m THEN w[k + 1] ELSE Zero]
  BY <1>1 DEF Encoded
<1> QED
  BY <1>3, <1>4 DEF Buffers

\* del_file takes one item out of the buffer, and touches nothing from its old tail on.
LEMMA DeletedShows ==
    ASSUME NEW b, NEW names, Shows(b, names), NoTwice(names), NEW name \in Names,
           NEW t, t = Len(Bytes(names)), NEW r, r = Deleted(b, t, name, "whole")
    PROVE  /\ Shows(r[1], NamesWithout(names, name))
           /\ r[2] = Len(Bytes(NamesWithout(names, name)))
           /\ r[2] =< t
           /\ \A k \in 0 .. Size - 1 :
                 r[2] + ItemBytes[name] =< k /\ t =< k => r[1][k] = b[k]
           /\ t =< r[2] + ItemBytes[name]
<1>1. names \in Seq(Names) /\ b \in Buffers /\ Len(names) \in Nat /\ t \in Nat /\ t < Size
  BY BytesTyped DEF Shows
<1>2. PICK c : c = ItemBytes[name]
  OBVIOUS
<1>3. c \in Nat /\ c >= 3
  BY <1>2, ItemFacts
<1>4. Offsets(b, name) = {StartOf(names, i) : i \in {j \in 1 .. Len(names) : names[j] = name}}
  BY OffsetsAre
<1>5. CASE \A i \in 1 .. Len(names) : names[i] # name
  <2>1. Offsets(b, name) = {}
    BY <1>4, <1>5
  <2>2. r = <<b, t>>
    BY <2>1, Zenon DEF Deleted
  <2>3. r[1] = b /\ r[2] = t
    BY <2>2
  <2>4. NamesWithout(names, name) = names
    BY <1>5, WithoutNone
  <2>5. t =< t /\ t =< t + c
    BY <1>1, <1>3
  <2> QED
    BY <1>2, <2>3, <2>4, <2>5
<1>6. CASE \E i \in 1 .. Len(names) : names[i] = name
  <2>1. PICK i \in 1 .. Len(names) : names[i] = name
    BY <1>6
  <2>2. PICK p : p = StartOf(names, i)
    OBVIOUS
  <2>3. Offsets(b, name) = {p}
    <3>1. {j \in 1 .. Len(names) : names[j] = name} = {i}
      BY <2>1 DEF NoTwice
    <3>2. Offsets(b, name) = {StartOf(names, j) : j \in {i}}
      BY <1>4, <3>1, Zenon
    <3> QED
      BY <2>2, <3>2
  <2>4. (CHOOSE ofs \in Offsets(b, name) : TRUE) = p
    BY <2>3
  <2>5. PICK u, v \in Seq(Names) :
           /\ u = SubSeq(names, 1, i - 1) /\ v = SubSeq(names, i + 1, Len(names))
           /\ Bytes(names) = (Bytes(u) \o ItemOf(names[i])) \o Bytes(v)
    BY <1>1, ListAround
  <2>6. PICK U, X, V : U = Bytes(u) /\ X = ItemOf(name) /\ V = Bytes(v)
    OBVIOUS
  <2>7. U \in Seq(Byte) /\ X \in Seq(Byte) /\ V \in Seq(Byte)
    BY <2>5, <2>6, BytesTyped, ItemFacts
  <2>8. Bytes(names) = (U \o X) \o V
    BY <2>1, <2>5, <2>6
  <2>9. PICK l, n : l = Len(U) /\ n = Len(V)
    OBVIOUS
  <2>10. Len(X) = c /\ X[1].number = c - 2
    BY <1>2, <2>6, ItemFacts
  <2>11. Laid(b, U, X, V) /\ t = l + c + n
    <3>1. Shows(b, names) <=> Laid(b, U, X, V)
      BY <1>1, <2>7, <2>8, LaidShows
    <3>2. Len(Bytes(names)) = Len(U) + Len(X) + Len(V)
      BY <1>1, <2>7, <2>8, LaidLength, SMTT(20)
    <3> QED
      BY <2>9, <2>10, <3>1, <3>2
  <2>12. /\ l \in Nat /\ n \in Nat /\ l + c + n < Size
         /\ \A k \in 0 .. l - 1 : b[k] = U[k + 1]
         /\ \A k \in 0 .. c - 1 : b[l + k] = X[k + 1]
         /\ \A k \in 0 .. n - 1 : b[l + c + k] = V[k + 1]
    BY <2>7, <2>9, <2>10, <2>11 DEF Laid
  <2>13. p = l
    BY <2>2, <2>5, <2>6, <2>9 DEF StartOf
  <2>14. b[p].number + 2 = c
    <3>1. 0 \in 0 .. c - 1 /\ l + 0 = l
      BY <1>3, <2>12
    <3>2. b[l] = X[1]
      BY <2>12, <3>1
    <3> QED
      BY <1>3, <2>10, <2>13, <3>2
  <2>15. PICK d : d = Memcpy(b, l, l + c, n, "whole")
    OBVIOUS
  <2>16. /\ d \in Buffers
         /\ \A k \in 0 .. Size - 1 :
               d[k] = IF l =< k /\ k < l + n THEN b[(l + c) + (k - l)] ELSE b[k]
    <3>1. (l + c) + n =< Size /\ l + n =< Size /\ l + c \in Nat
      BY <1>3, <2>12, SizeNat
    <3>2. Copied(d, b, l, l + c, n)
      BY <1>1, <2>12, <2>15, <3>1, CopyWhole
    <3> QED
      BY <3>2 DEF Copied
  <2>17. PICK e : e = [d EXCEPT ![l + n] = Zero]
    OBVIOUS
  <2>18. r = <<e, l + n>>
    <3>1. r = <<[Memcpy(b, p, p + (b[p].number + 2), t - (p + (b[p].number + 2)), "whole")
                    EXCEPT ![t - (b[p].number + 2)] = Zero], t - (b[p].number + 2)>>
      BY <2>3, <2>4, Zenon DEF Deleted
    <3>2. t - (l + c) = n /\ t - c = l + n
      BY <1>3, <2>11, <2>12
    <3> QED
      BY <2>13, <2>14, <2>15, <2>17, <3>1, <3>2, Zenon
  <2>19. r[1] = e /\ r[2] = l + n
    BY <2>18
  <2>20. l + n \in 0 .. Size - 1 /\ l \in 0 .. Size - 1
    BY <1>3, <2>12, SizeNat
  <2>21. /\ e \in Buffers /\ e[l + n] = Zero
         /\ \A k \in 0 .. Size - 1 : k # l + n => e[k] = d[k]
    <3>1. e \in Buffers
      BY <2>16, <2>17, <2>20, ZeroByte DEF Buffers
    <3> QED
      BY <2>16, <2>17, <2>20, <3>1 DEF Buffers
  <2>22. PICK w, E : w = NamesWithout(names, name) /\ E = <<>>
    OBVIOUS
  <2>23. w \in Seq(Names) /\ Bytes(w) = (U \o E) \o V
    <3>1. w = u \o v
      BY <1>1, <2>1, <2>5, <2>22, WithoutOne
    <3>2. Bytes(w) = U \o V
      BY <2>5, <2>6, <3>1, BytesConcat
    <3>3. U \o E = U
      BY <2>7, <2>22, ConcatEmptySeq
    <3> QED
      BY <2>5, <3>1, <3>2, <3>3, ConcatProperties
  <2>24. E \in Seq(Byte) /\ Len(E) = 0
    BY <2>22
  <2>25. Laid(e, U, E, V)
    <3>1. l + 0 + n < Size
      BY <1>3, <2>12, SizeNat
    <3>2. ASSUME NEW k \in 0 .. l - 1 PROVE e[k] = U[k + 1]
      <4>1. k \in 0 .. Size - 1 /\ k # l + n /\ ~(l =< k)
        BY <1>3, <2>12, SizeNat
      <4> QED
        BY <2>12, <2>16, <2>21, <4>1
    <3>3. ASSUME NEW k \in 0 .. n - 1 PROVE e[l + 0 + k] = V[k + 1]
      <4>1. /\ l + 0 + k \in 0 .. Size - 1 /\ l + 0 + k # l + n
            /\ l =< l + 0 + k /\ l + 0 + k < l + n
            /\ (l + c) + ((l + 0 + k) - l) = l + c + k
        BY <1>3, <2>12, SizeNat
      <4>2. e[l + 0 + k] = b[l + c + k]
        BY <2>16, <2>21, <4>1
      <4> QED
        BY <2>12, <4>2
    <3>4. e[l + 0 + n] = Zero
      BY <2>12, <2>21
    <3>5. \A k \in 0 .. 0 - 1 : e[l + k] = E[k + 1]
      OBVIOUS
    <3> QED
      BY <2>9, <2>24, <3>1, <3>2, <3>3, <3>4, <3>5 DEF Laid
  <2>26. Shows(e, w) /\ Len(Bytes(w)) = l + n
    <3>1. e \in Buffers
      BY <2>21
    <3>2. Shows(e, w) <=> Laid(e, U, E, V)
      BY <2>7, <2>23, <2>24, <3>1, LaidShows
    <3>3. Len(Bytes(w)) = Len(U) + Len(E) + Len(V)
      BY <2>7, <2>23, <2>24, <3>1, LaidLength, SMTT(20)
    <3> QED
      BY <2>9, <2>12, <2>24, <2>25, <3>2, <3>3
  <2>27. ASSUME NEW k \in 0 .. Size - 1, t =< k PROVE e[k] = b[k]
    <3>1. k # l + n /\ ~(k < l + n)
      BY <1>3, <2>11, <2>12, <2>27
    <3> QED
      BY <2>16, <2>21, <3>1
  <2>28. l + n =< t /\ t =< (l + n) + c
    BY <1>3, <2>11, <2>12
  <2> QED
    BY <1>2, <2>19, <2>22, <2>26, <2>27, <2>28
<1> QED
  BY <1>5, <1>6

\* What the whole buffer holds, beyond the terminator too.
LEMMA EncodedShows ==
    ASSUME NEW b \in Buffers, NEW names \in Seq(Names), Len(Bytes(names)) < Size
    PROVE  b = Encoded(names) <=>
              /\ Shows(b, names)
              /\ \A k \in 0 .. Size - 1 : Len(Bytes(names)) =< k => b[k] = Zero
<1>1. PICK w, m : w = Bytes(names) /\ m = Len(w)
  OBVIOUS
<1>2. m \in Nat /\ m < Size /\ m \in 0 .. Size - 1
  BY <1>1, BytesTyped, SizeNat
<1>3. PICK c : c = Encoded(names)
  OBVIOUS
<1>4. c = [k \in 0 .. Size - 1 |-> IF k < m THEN w[k + 1] ELSE Zero]
  BY <1>1, <1>3 DEF Encoded
<1>5. ASSUME b = c
      PROVE  /\ Shows(b, names)
             /\ \A k \in 0 .. Size - 1 : m =< k => b[k] = Zero
  <2>1. \A k \in 0 .. Size - 1 : b[k] = IF k < m THEN w[k + 1] ELSE Zero
    BY <1>4, <1>5
  <2>2. \A k \in 0 .. m - 1 : k \in 0 .. Size - 1 /\ k < m
    BY <1>2, SizeNat
  <2>3. \A k \in 0 .. m - 1 : b[k] = w[k + 1]
    BY <2>1, <2>2
  <2>4. b[m] = Zero
    BY <1>2, <2>1
  <2>5. \A k \in 0 .. Size - 1 : m =< k => b[k] = Zero
    BY <1>2, <2>1
  <2> QED
    BY <1>1, <2>3, <2>4, <2>5 DEF Shows
<1>6. ASSUME Shows(b, names), \A k \in 0 .. Size - 1 : m =< k => b[k] = Zero
      PROVE  b = c
  <2>1. ASSUME NEW k \in 0 .. Size - 1 PROVE b[k] = IF k < m THEN w[k + 1] ELSE Zero
    <3>1. k < m => k \in 0 .. m - 1
      BY <1>2
    <3>2. k < m => b[k] = w[k + 1]
      BY <1>1, <1>6, <3>1 DEF Shows
    <3>3. ~(k < m) => m =< k
      BY <1>2
    <3> QED
      BY <1>6, <3>2, <3>3
  <2>2. b = [k \in 0 .. Size - 1 |-> b[k]]
    BY DEF Buffers
  <2> QED
    BY <1>4, <2>1, <2>2
<1>7. b = c <=>
         /\ Shows(b, names)
         /\ \A k \in 0 .. Size - 1 : m =< k => b[k] = Zero
  BY <1>5, <1>6
<1> QED
  BY <1>1, <1>3, <1>7

\* An item that is put into the buffer.
Written(c, b, ofs, x) ==
    /\ c \in Buffers
    /\ \A k \in 0 .. Size - 1 :
          c[k] = IF ofs =< k /\ k < ofs + Len(x) THEN x[(k - ofs) + 1] ELSE b[k]

\* Put puts it there.
LEMMA PutWrites ==
    ASSUME NEW b \in Buffers, NEW ofs \in Nat, NEW x \in Seq(Byte)
    PROVE  Written(Put(b, ofs, x), b, ofs, x)
<1>1. PICK c, n : c = Put(b, ofs, x) /\ n = Len(x)
  OBVIOUS
<1>2. n \in Nat
  BY <1>1
<1>3. c = [k \in 0 .. Size - 1 |->
             IF k \in ofs .. ofs + n - 1 THEN x[k - ofs + 1] ELSE b[k]]
  <2>1. DOMAIN b = 0 .. Size - 1
    BY DEF Buffers
  <2> QED
    BY <1>1, <2>1 DEF Put
<1>4. ASSUME NEW k \in 0 .. Size - 1
      PROVE  /\ c[k] = IF ofs =< k /\ k < ofs + n THEN x[(k - ofs) + 1] ELSE b[k]
             /\ c[k] \in Byte
  <2>1. c[k] = IF k \in ofs .. ofs + n - 1 THEN x[k - ofs + 1] ELSE b[k]
    BY <1>3
  <2>2. k \in Nat
    BY SizeNat
  <2>3. k \in ofs .. ofs + n - 1 <=> ofs =< k /\ k < ofs + n
    BY <1>2, <2>2
  <2>4. ofs =< k /\ k < ofs + n => (k - ofs) + 1 \in 1 .. n
    BY <1>2, <2>2
  <2>5. b[k] \in Byte /\ (ofs =< k /\ k < ofs + n => x[(k - ofs) + 1] \in Byte)
    BY <1>1, <2>4 DEF Buffers
  <2> QED
    BY <2>1, <2>3, <2>5
<1>5. c \in Buffers
  BY <1>3, <1>4 DEF Buffers
<1> QED
  BY <1>1, <1>4, <1>5 DEF Written

\* alloc_file puts an item between two, and although it writes no terminator there is
\* one behind its new tail, and nothing but zeros.
LEMMA InsertedShows ==
    ASSUME NEW b, NEW names, Shows(b, names), NoTwice(names), NEW name \in Names,
           \A j \in 1 .. Len(names) : names[j] # name,
           NEW i \in 1 .. Len(names) + 1,
           NEW t, t = Len(Bytes(names)), Room(t, name),
           \A k \in 0 .. Size - 1 : t + ItemBytes[name] =< k => b[k] = Zero,
           NEW r, r = Inserted(b, t, StartOf(names, i), name, "whole")
    PROVE  /\ r[1] = Encoded(InsertAt(names, i, name))
           /\ r[2] = Len(Bytes(InsertAt(names, i, name))) /\ r[2] < Size
           /\ InsertAt(names, i, name) \in Seq(Names) /\ NoTwice(InsertAt(names, i, name))
<1>1. names \in Seq(Names) /\ b \in Buffers /\ t \in Nat
  BY BytesTyped DEF Shows
<1>2. PICK c : c = ItemBytes[name]
  OBVIOUS
<1>3. c \in Nat /\ c >= 3
  BY <1>2, ItemFacts
<1>4. PICK w : w = InsertAt(names, i, name)
  OBVIOUS
<1>5. PICK u, v \in Seq(Names) :
         /\ Len(Bytes(u)) = StartOf(names, i)
         /\ Bytes(names) = Bytes(u) \o Bytes(v)
         /\ w = (u \o <<name>>) \o v
         /\ w \in Seq(Names) /\ NoTwice(w)
  BY <1>1, <1>4, InsertFacts
<1>6. PICK U, E, X, V : U = Bytes(u) /\ E = <<>> /\ X = ItemOf(name) /\ V = Bytes(v)
  OBVIOUS
<1>7. /\ U \in Seq(Byte) /\ X \in Seq(Byte) /\ V \in Seq(Byte) /\ Len(X) = c
      /\ E \in Seq(Byte) /\ Len(E) = 0
  <2>1. U \in Seq(Byte) /\ X \in Seq(Byte) /\ V \in Seq(Byte) /\ Len(X) = c
    BY <1>2, <1>6, BytesTyped, ItemFacts
  <2>2. E \in Seq(Byte) /\ Len(E) = 0
    BY <1>6
  <2> QED
    BY <2>1, <2>2
<1>8. PICK l, n : l = Len(U) /\ n = Len(V)
  OBVIOUS
<1>9. Laid(b, U, E, V) /\ t = l + 0 + n
  <2>1. Bytes(names) = (U \o E) \o V
    BY <1>5, <1>6, <1>7, ConcatEmptySeq
  <2>2. Shows(b, names) <=> Laid(b, U, E, V)
    BY <1>1, <1>7, <2>1, LaidShows
  <2>3. Len(Bytes(names)) = Len(U) + Len(E) + Len(V)
    BY <1>1, <1>7, <2>1, LaidLength, SMTT(20)
  <2> QED
    BY <1>7, <1>8, <2>2, <2>3
<1>10. /\ l \in Nat /\ n \in Nat /\ t = l + n /\ l + c + n < Size /\ t + c < Size
       /\ \A k \in 0 .. l - 1 : b[k] = U[k + 1]
       /\ \A k \in 0 .. n - 1 : b[l + 0 + k] = V[k + 1]
  <2>1. t + c < Size
    BY <1>2 DEF Room
  <2>2. l \in Nat /\ n \in Nat
    BY <1>7, <1>8
  <2>3. t = l + n /\ l + c + n = t + c
    BY <1>3, <1>9, <2>2
  <2>4. /\ \A k \in 0 .. l - 1 : b[k] = U[k + 1]
        /\ \A k \in 0 .. n - 1 : b[l + 0 + k] = V[k + 1]
    BY <1>7, <1>8, <1>9 DEF Laid
  <2> QED
    BY <2>1, <2>2, <2>3, <2>4
<1>11. PICK d : d = Memcpy(b, l + c, l, n, "whole")
  OBVIOUS
<1>12. /\ d \in Buffers
       /\ \A k \in 0 .. Size - 1 :
             d[k] = IF l + c =< k /\ k < (l + c) + n THEN b[l + (k - (l + c))] ELSE b[k]
  <2>1. (l + c) + n =< Size /\ l + n =< Size /\ l + c \in Nat
    BY <1>3, <1>10, SizeNat
  <2>2. Copied(d, b, l + c, l, n)
    BY <1>1, <1>10, <1>11, <2>1, CopyWhole
  <2> QED
    BY <2>2 DEF Copied
<1>13. PICK e : e = Put(d, l, X)
  OBVIOUS
<1>14. /\ e \in Buffers
       /\ \A k \in 0 .. Size - 1 :
             e[k] = IF l =< k /\ k < l + c THEN X[(k - l) + 1] ELSE d[k]
  <2>1. Written(e, d, l, X)
    BY <1>7, <1>10, <1>12, <1>13, PutWrites
  <2> QED
    BY <1>7, <2>1 DEF Written
<1>15. r = <<e, t + c>>
  <2>1. r = <<Put(Memcpy(b, l + c, l, t - l, "whole"), l, X), t + c>>
    BY <1>2, <1>5, <1>6, <1>8, Zenon DEF Inserted
  <2>2. t - l = n
    BY <1>10
  <2> QED
    BY <1>11, <1>13, <2>1, <2>2
<1>16. r[1] = e /\ r[2] = l + c + n
  <2>1. t + c = l + c + n
    BY <1>3, <1>10
  <2> QED
    BY <1>15, <2>1
<1>17. \A k \in 0 .. Size - 1 : l + c + n =< k => e[k] = Zero
  <2>1. ASSUME NEW k \in 0 .. Size - 1, l + c + n =< k PROVE e[k] = Zero
    <3>1. ~(k < (l + c) + n) /\ ~(k < l + c) /\ t + c =< k
      BY <1>3, <1>10, <2>1, SizeNat
    <3>2. b[k] = Zero
      BY <1>2, <3>1
    <3> QED
      BY <1>12, <1>14, <3>1, <3>2
  <2> QED
    BY <2>1
<1>18. Laid(e, U, X, V)
  <2>1. ASSUME NEW k \in 0 .. l - 1 PROVE e[k] = U[k + 1]
    <3>1. k \in 0 .. Size - 1 /\ ~(l =< k) /\ ~(l + c =< k)
      BY <1>3, <1>10, SizeNat
    <3> QED
      BY <1>10, <1>12, <1>14, <3>1
  <2>2. ASSUME NEW k \in 0 .. c - 1 PROVE e[l + k] = X[k + 1]
    <3>1. /\ l + k \in 0 .. Size - 1 /\ l =< l + k /\ l + k < l + c
          /\ ((l + k) - l) + 1 = k + 1
      BY <1>3, <1>10, SizeNat
    <3> QED
      BY <1>14, <3>1
  <2>3. ASSUME NEW k \in 0 .. n - 1 PROVE e[l + c + k] = V[k + 1]
    <3>1. /\ l + c + k \in 0 .. Size - 1 /\ ~(l + c + k < l + c)
          /\ l + c =< l + c + k /\ l + c + k < (l + c) + n
          /\ l + ((l + c + k) - (l + c)) = l + 0 + k
      BY <1>3, <1>10, SizeNat
    <3>2. e[l + c + k] = d[l + c + k]
      BY <1>14, <3>1
    <3>3. d[l + c + k] = b[l + 0 + k]
      BY <1>12, <3>1
    <3> QED
      BY <1>10, <3>2, <3>3
  <2>4. e[l + c + n] = Zero
    <3>1. l + c + n \in 0 .. Size - 1 /\ l + c + n =< l + c + n
      BY <1>3, <1>10, SizeNat
    <3> QED
      BY <1>17, <3>1
  <2> QED
    BY <1>7, <1>8, <1>10, <2>1, <2>2, <2>3, <2>4 DEF Laid
<1>19. Shows(e, w) /\ Len(Bytes(w)) = l + c + n
  <2>1. Bytes(w) = (U \o X) \o V
    <3>1. PICK y : y = <<name>>
      OBVIOUS
    <3>2. y \in Seq(Names) /\ Bytes(y) = X
      BY <1>6, <3>1, BytesOne
    <3>3. w = (u \o y) \o v
      BY <1>5, <3>1
    <3>4. u \o y \in Seq(Names) /\ Bytes(u \o y) = U \o X
      BY <1>6, <3>2, BytesConcat, ConcatProperties
    <3> QED
      BY <1>6, <3>3, <3>4, BytesConcat
  <2>2. e \in Buffers /\ w \in Seq(Names)
    BY <1>5, <1>14
  <2>3. Shows(e, w) <=> Laid(e, U, X, V)
    BY <1>7, <2>1, <2>2, LaidShows
  <2>4. Len(Bytes(w)) = Len(U) + Len(X) + Len(V)
    <3>1. Joined(Bytes(w), U, X, V)
      BY <1>7, <2>1, ThreeParts
    <3> QED
      BY <3>1 DEF Joined
  <2> QED
    BY <1>7, <1>8, <1>18, <2>3, <2>4
<1>20. e = Encoded(w)
  <2>1. e \in Buffers /\ w \in Seq(Names) /\ Len(Bytes(w)) < Size
    BY <1>5, <1>10, <1>14, <1>19
  <2>2. \A k \in 0 .. Size - 1 : Len(Bytes(w)) =< k => e[k] = Zero
    BY <1>17, <1>19
  <2> QED
    BY <1>19, <2>1, <2>2, EncodedShows
<1> QED
  BY <1>4, <1>5, <1>10, <1>16, <1>19, <1>20

\* move_file writes another item over the one that had the old name.
LEMMA RenamedShows ==
    ASSUME NEW b, NEW names, Shows(b, names), NoTwice(names), NEW name \in Names,
           \A j \in 1 .. Len(names) : names[j] # name,
           NEW i \in 1 .. Len(names), NEW p, p = StartOf(names, i),
           NEW t, t = Len(Bytes(names)), Room(t - (b[p].number + 2), name),
           NEW q, q = ReplaceAll(names, names[i], name),
           NEW r, r = Renamed(b, t, p, name, "whole")
    PROVE  /\ Shows(r[1], q) /\ r[2] = Len(Bytes(q))
           /\ NoTwice(q)
<1>1. names \in Seq(Names) /\ b \in Buffers /\ t \in Nat /\ t < Size
  BY BytesTyped DEF Shows
<1>2. PICK c, o : c = ItemBytes[name] /\ o = ItemBytes[names[i]]
  OBVIOUS
<1>3. c \in Nat /\ c >= 3
  BY <1>2, ItemFacts
<1>4. PICK u, v \in Seq(Names) :
         /\ u = SubSeq(names, 1, i - 1) /\ names[i] \in Names
         /\ Bytes(names) = (Bytes(u) \o ItemOf(names[i])) \o Bytes(v)
         /\ q \in Seq(Names) /\ NoTwice(q)
         /\ q = (u \o <<name>>) \o v
  BY <1>1, RenameFacts
<1>5. q \in Seq(Names) /\ NoTwice(q) /\ q = (u \o <<name>>) \o v
  BY <1>4
<1>6. PICK U, Y, X, V : U = Bytes(u) /\ Y = ItemOf(names[i]) /\ X = ItemOf(name) /\ V = Bytes(v)
  OBVIOUS
<1>7. /\ U \in Seq(Byte) /\ X \in Seq(Byte) /\ V \in Seq(Byte) /\ Len(X) = c
      /\ Y \in Seq(Byte) /\ Len(Y) = o /\ Y[1].number = o - 2
      /\ o \in Nat /\ o >= 3
  BY <1>2, <1>4, <1>6, BytesTyped, ItemFacts
<1>8. PICK l, n : l = Len(U) /\ n = Len(V)
  OBVIOUS
<1>9. Laid(b, U, Y, V) /\ t = l + o + n
  <2>1. Bytes(names) = (U \o Y) \o V
    BY <1>4, <1>6
  <2>2. Shows(b, names) <=> Laid(b, U, Y, V)
    BY <1>1, <1>7, <2>1, LaidShows
  <2>3. Len(Bytes(names)) = Len(U) + Len(Y) + Len(V)
    <3>1. Joined(Bytes(names), U, Y, V)
      BY <1>7, <2>1, ThreeParts
    <3> QED
      BY <3>1 DEF Joined
  <2> QED
    BY <1>7, <1>8, <2>2, <2>3
<1>10. /\ l \in Nat /\ n \in Nat
       /\ \A k \in 0 .. l - 1 : b[k] = U[k + 1]
       /\ \A k \in 0 .. o - 1 : b[l + k] = Y[k + 1]
       /\ \A k \in 0 .. n - 1 : b[l + o + k] = V[k + 1]
       /\ b[l + o + n] = Zero
  <2>1. l \in Nat /\ n \in Nat
    BY <1>7, <1>8
  <2>2. /\ \A k \in 0 .. Len(U) - 1 : b[k] = U[k + 1]
        /\ \A k \in 0 .. Len(Y) - 1 : b[Len(U) + k] = Y[k + 1]
        /\ \A k \in 0 .. Len(V) - 1 : b[Len(U) + Len(Y) + k] = V[k + 1]
        /\ b[Len(U) + Len(Y) + Len(V)] = Zero
    BY <1>9 DEF Laid
  <2> QED
    BY <1>7, <1>8, <2>1, <2>2
<1>11. p = l /\ b[p].number + 2 = o
  <2>1. p = l
    BY <1>4, <1>6, <1>8 DEF StartOf
  <2>2. 0 \in 0 .. o - 1 /\ l + 0 = l
    BY <1>7, <1>10
  <2>3. b[l] = Y[1]
    BY <1>10, <2>2
  <2> QED
    BY <1>7, <2>1, <2>3
<1>12. l + c + n < Size
  <2>1. (t - o) + c < Size
    BY <1>2, <1>11 DEF Room
  <2>2. (t - o) + c = l + c + n
    BY <1>3, <1>7, <1>9, <1>10
  <2> QED
    BY <2>1, <2>2
<1>13. PICK d : d = Memcpy(b, l + c, l + o, n, "whole")
  OBVIOUS
<1>14. /\ d \in Buffers
       /\ \A k \in 0 .. Size - 1 :
             d[k] = IF l + c =< k /\ k < (l + c) + n THEN b[(l + o) + (k - (l + c))] ELSE b[k]
  <2>1. (l + c) + n =< Size /\ (l + o) + n =< Size /\ l + c \in Nat /\ l + o \in Nat
    <3>1. /\ l \in Nat /\ c \in Nat /\ n \in Nat /\ o \in Nat /\ Size \in Nat
          /\ l + c + n < Size
      BY <1>3, <1>7, <1>10, <1>12, SizeNat
    <3>2. l + o + n < Size
      BY <1>1, <1>9
    <3> QED
      BY <3>1, <3>2
  <2>2. Copied(d, b, l + c, l + o, n)
    BY <1>1, <1>10, <1>13, <2>1, CopyWhole
  <2> QED
    BY <2>2 DEF Copied
<1>15. PICK g : g = IF c = o THEN b ELSE [d EXCEPT ![l + c + n] = Zero]
  OBVIOUS
<1>16. l + c + n \in 0 .. Size - 1
  BY <1>3, <1>10, <1>12, SizeNat
<1>17. /\ g \in Buffers
       /\ \A k \in 0 .. l - 1 : g[k] = U[k + 1]
       /\ \A k \in 0 .. n - 1 : g[l + c + k] = V[k + 1]
       /\ g[l + c + n] = Zero
  <2>1. CASE c = o
    BY <1>1, <1>10, <1>15, <2>1
  <2>2. CASE c # o
    <3>1. g = [d EXCEPT ![l + c + n] = Zero]
      BY <1>15, <2>2
    <3>2. g \in Buffers
      BY <1>14, <1>16, <3>1, ZeroByte DEF Buffers
    <3>3. /\ g[l + c + n] = Zero
          /\ \A k \in 0 .. Size - 1 : k # l + c + n => g[k] = d[k]
      BY <1>14, <1>16, <3>1 DEF Buffers
    <3>4. ASSUME NEW k \in 0 .. l - 1 PROVE g[k] = U[k + 1]
      <4>1. k \in 0 .. Size - 1 /\ ~(l + c =< k) /\ k # l + c + n
        BY <1>3, <1>10, <1>12, SizeNat
      <4> QED
        BY <1>10, <1>14, <3>3, <4>1
    <3>5. ASSUME NEW k \in 0 .. n - 1 PROVE g[l + c + k] = V[k + 1]
      <4>1. /\ l + c + k \in 0 .. Size - 1 /\ l + c + k # l + c + n
            /\ l + c =< l + c + k /\ l + c + k < (l + c) + n
            /\ (l + o) + ((l + c + k) - (l + c)) = l + o + k
        BY <1>3, <1>7, <1>10, <1>12, SizeNat
      <4>2. g[l + c + k] = d[l + c + k] /\ d[l + c + k] = b[l + o + k]
        BY <1>14, <3>3, <4>1
      <4> QED
        BY <1>10, <4>2
    <3> QED
      BY <3>2, <3>3, <3>4, <3>5
  <2> QED
    BY <2>1, <2>2
<1>18. PICK e : e = Put(g, l, X)
  OBVIOUS
<1>19. /\ e \in Buffers
       /\ \A k \in 0 .. Size - 1 :
             e[k] = IF l =< k /\ k < l + c THEN X[(k - l) + 1] ELSE g[k]
  <2>1. Written(e, g, l, X)
    BY <1>7, <1>10, <1>17, <1>18, PutWrites
  <2> QED
    BY <1>7, <2>1 DEF Written
<1>20. r[1] = e /\ r[2] = l + c + n
  <2>1. t - (l + o) = n /\ (t + c) - o = l + c + n /\ t + c - o = (t + c) - o
    BY <1>3, <1>7, <1>9, <1>10
  <2>2. r = <<Put(IF ItemBytes[name] = b[p].number + 2 THEN b
                  ELSE [Memcpy(b, p + ItemBytes[name], p + (b[p].number + 2),
                               t - (p + (b[p].number + 2)), "whole")
                          EXCEPT ![t + ItemBytes[name] - (b[p].number + 2)] = Zero],
                  p, ItemOf(name)), t + ItemBytes[name] - (b[p].number + 2)>>
    BY DEF Renamed
  <2>3. r = <<Put(IF c = o THEN b
                  ELSE [Memcpy(b, l + c, l + o, t - (l + o), "whole")
                          EXCEPT ![t + c - o] = Zero],
                  l, X), t + c - o>>
    BY <1>2, <1>6, <1>11, <2>2, Zenon
  <2>4. r = <<Put(g, l, X), l + c + n>>
    BY <1>13, <1>15, <2>1, <2>3, Zenon
  <2> QED
    BY <1>18, <2>4
<1>21. Laid(e, U, X, V)
  <2>1. ASSUME NEW k \in 0 .. l - 1 PROVE e[k] = U[k + 1]
    <3>1. k \in 0 .. Size - 1 /\ ~(l =< k)
      BY <1>3, <1>10, <1>12, SizeNat
    <3> QED
      BY <1>17, <1>19, <3>1
  <2>2. ASSUME NEW k \in 0 .. c - 1 PROVE e[l + k] = X[k + 1]
    <3>1. /\ l + k \in 0 .. Size - 1 /\ l =< l + k /\ l + k < l + c
          /\ ((l + k) - l) + 1 = k + 1
      BY <1>3, <1>10, <1>12, SizeNat
    <3> QED
      BY <1>19, <3>1
  <2>3. ASSUME NEW k \in 0 .. n - 1 PROVE e[l + c + k] = V[k + 1]
    <3>1. l + c + k \in 0 .. Size - 1 /\ ~(l + c + k < l + c)
      BY <1>3, <1>10, <1>12, SizeNat, SMTT(20)
    <3> QED
      BY <1>17, <1>19, <3>1
  <2>4. e[l + c + n] = Zero
    <3>1. ~(l + c + n < l + c)
      BY <1>3, <1>10
    <3> QED
      BY <1>16, <1>17, <1>19, <3>1
  <2> QED
    BY <1>7, <1>8, <1>12, <2>1, <2>2, <2>3, <2>4 DEF Laid
<1>22. Shows(e, q) /\ Len(Bytes(q)) = l + c + n
  <2>1. Bytes(q) = (U \o X) \o V
    <3>1. PICK y : y = <<name>>
      OBVIOUS
    <3>2. y \in Seq(Names) /\ Bytes(y) = X
      BY <1>6, <3>1, BytesOne
    <3>3. q = (u \o y) \o v
      BY <1>5, <3>1
    <3>4. u \o y \in Seq(Names) /\ Bytes(u \o y) = U \o X
      BY <1>6, <3>2, BytesConcat, ConcatProperties
    <3> QED
      BY <1>6, <3>3, <3>4, BytesConcat
  <2>2. e \in Buffers /\ q \in Seq(Names)
    BY <1>5, <1>19
  <2>3. Shows(e, q) <=> Laid(e, U, X, V)
    BY <1>7, <2>1, <2>2, LaidShows
  <2>4. Len(Bytes(q)) = Len(U) + Len(X) + Len(V)
    <3>1. Joined(Bytes(q), U, X, V)
      BY <1>7, <2>1, ThreeParts
    <3> QED
      BY <3>1 DEF Joined
  <2> QED
    BY <1>7, <1>8, <1>21, <2>3, <2>4
<1> QED
  BY <1>5, <1>20, <1>22

-----------------------------------------------------------------------------
(***************************************************************************)
(* The inductive invariant.                                                *)
(***************************************************************************)

\* The lists in memory and on the disk leave room for a terminator.
ListsOK ==
    /\ list \in Seq(Names) /\ NoTwice(list) /\ Len(Bytes(list)) < Size
    /\ mem \in Seq(Names) /\ NoTwice(mem) /\ Len(Bytes(mem)) < Size

\* What a command has in its buffer.
EditOK ==
    /\ fb_list \in Buffers
    /\ pc # "idle" => tail = Len(Bytes(mem)) /\ Shows(fb_list, mem)
    /\ pc \in {"ready", "adding", "used", "list"} => fb_list = Encoded(mem)

\* What is on the disk: up to the sector that is written next it is the new list.
DiskOK ==
    /\ pc # "list" /\ ~torn => OnDisk = Encoded(list)
    /\ torn => pc = "idle"
    /\ \A k \in 0 .. Size - 1 : OnDisk[k] \in {Encoded(list)[k], Encoded(mem)[k]}
    /\ pc = "list" =>
          /\ cur < Sectors /\ tail < used * SectorBytes
          /\ \A k \in 0 .. Size - 1 : k < cur * SectorBytes => OnDisk[k] = Encoded(mem)[k]
    /\ done => pc = "idle" /\ Len(Bytes(list)) < used * SectorBytes

ListIInv == TypeOK /\ ListsOK /\ EditOK /\ DiskOK

\* Where a byte of the list is on the disk.
LEMMA SectorPlace ==
    ASSUME NEW k \in 0 .. Size - 1
    PROVE  /\ k \div SectorBytes \in 0 .. Sectors - 1
           /\ k % SectorBytes \in 0 .. SectorBytes - 1
           /\ (k \div SectorBytes) * SectorBytes + (k % SectorBytes) = k
           /\ \A c \in Nat : k < c * SectorBytes <=> k \div SectorBytes < c
<1>1. PICK b, s : b = SectorBytes /\ s = Sectors
  OBVIOUS
<1>2. b \in Nat \ {0} /\ s \in Nat \ {0} /\ k \in Nat /\ k < s * b
  BY <1>1, ListAssumption, SizeNat DEF Size
<1>3. PICK q, r : q = k \div b /\ r = k % b
  OBVIOUS
<1>4. q \in Nat /\ r \in 0 .. b - 1 /\ k = b * q + r
  BY <1>2, <1>3
<1>5. b * q = q * b
  BY <1>2, <1>4
<1>6. ASSUME NEW c \in Nat PROVE k < c * b <=> q < c
  <2>1. CASE q < c
    <3>1. (c - q) - 1 \in Nat
      BY <1>4, <2>1
    <3>2. ((c - q) - 1) * b \in Nat
      BY <1>2, <3>1
    <3>3. c * b = q * b + b + ((c - q) - 1) * b
      BY <1>2, <1>4
    <3>4. q * b \in Nat /\ c * b \in Nat
      BY <1>2, <1>4
    <3> QED
      BY <1>2, <1>4, <1>5, <2>1, <3>2, <3>3, <3>4
  <2>2. CASE ~(q < c)
    <3>1. q - c \in Nat
      BY <1>4, <2>2
    <3>2. (q - c) * b \in Nat
      BY <1>2, <3>1
    <3>3. q * b = c * b + (q - c) * b
      BY <1>2, <1>4
    <3>4. q * b \in Nat /\ c * b \in Nat
      BY <1>2, <1>4
    <3> QED
      BY <1>2, <1>4, <1>5, <2>2, <3>2, <3>3, <3>4
  <2> QED
    BY <2>1, <2>2
<1>7. q < s
  BY <1>2, <1>6
<1>8. q * b + r = k
  BY <1>4, <1>5
<1>9. /\ q \in 0 .. s - 1 /\ r \in 0 .. b - 1 /\ q * b + r = k
      /\ \A c \in Nat : k < c * b <=> q < c
  BY <1>2, <1>4, <1>6, <1>7, <1>8
<1> QED
  BY <1>1, <1>3, <1>9, Zenon

\* The initial state.
LEMMA InitList == Init => ListIInv
<1>1. SUFFICES ASSUME Init PROVE ListIInv
  OBVIOUS
<1>2. /\ Bytes(<<>>) = <<>> /\ Len(Bytes(<<>>)) = 0 /\ <<>> \in Seq(Names) /\ NoTwice(<<>>)
      /\ 0 < Size
  <2>1. <<>> \in Seq(Names) /\ Len(<<>>) = 0
    OBVIOUS
  <2>2. Bytes(<<>>) = <<>>
    BY <2>1, BytesTyped
  <2>3. NoTwice(<<>>)
    BY <2>1 DEF NoTwice
  <2> QED
    BY <2>1, <2>2, <2>3, SizeNat
<1>3. \A k \in 0 .. Size - 1 : Encoded(<<>>)[k] = Zero
  BY <1>2, SizeNat DEF Encoded
<1>4. Encoded(<<>>) \in Buffers
  <2>1. Encoded(<<>>) = [k \in 0 .. Size - 1 |-> Zero]
    <3>1. \A k \in 0 .. Size - 1 : ~(k < 0)
      BY SizeNat
    <3> QED
      BY <1>2, <3>1 DEF Encoded
  <2> QED
    BY <2>1, ZeroByte DEF Buffers
<1>5. OnDisk = Encoded(<<>>)
  <2>1. ASSUME NEW k \in 0 .. Size - 1
        PROVE  disk[k \div SectorBytes][k % SectorBytes] = Zero
    BY <1>1, SectorPlace DEF Init
  <2>2. OnDisk = [k \in 0 .. Size - 1 |-> Zero]
    BY <2>1 DEF OnDisk
  <2>3. Encoded(<<>>) = [k \in 0 .. Size - 1 |-> Encoded(<<>>)[k]]
    BY <1>4 DEF Buffers
  <2> QED
    BY <1>3, <2>2, <2>3
<1>6. TypeOK
  <2>1. DOMAIN fb_list = 0 .. Size - 1
    BY <1>1, <1>4 DEF Init, Buffers
  <2>2. 1 \in 1 .. Sectors /\ 0 \in 0 .. Sectors /\ 0 \in 0 .. MaxCmds /\ 0 \in 0 .. Size - 1
    BY ListAssumption, SizeNat
  <2> QED
    BY <1>1, <1>2, <2>1, <2>2 DEF Init, TypeOK
<1>7. ListsOK
  BY <1>1, <1>2 DEF Init, ListsOK
<1>8. EditOK
  BY <1>1, <1>4 DEF Init, EditOK
<1>9. DiskOK
  BY <1>1, <1>5 DEF Init, DiskOK
<1> QED
  BY <1>6, <1>7, <1>8, <1>9 DEF ListIInv

\* What an edit of the buffer has to leave.
EditLeaves(b, t, names, next) ==
    /\ names \in Seq(Names) /\ NoTwice(names)
    /\ t = Len(Bytes(names)) /\ Shows(b, names)
    /\ next = "adding" => b = Encoded(names)

\* Then it keeps the invariant.
LEMMA EditKeeps ==
    ASSUME ListIInv, pc \in {"ready", "adding"},
           NEW r, NEW names, NEW next \in {"adding", "commit"},
           EditLeaves(r[1], r[2], names, next), Edited(r, names, next)
    PROVE  ListIInv'
<1>1. /\ fb_list' = r[1] /\ tail' = r[2] /\ mem' = names /\ pc' = next
      /\ UNCHANGED <<disk, used, cur, ncmd, list, done, torn>>
  BY DEF Edited
<1>2. /\ names \in Seq(Names) /\ NoTwice(names) /\ r[2] = Len(Bytes(names))
      /\ Shows(r[1], names) /\ (next = "adding" => r[1] = Encoded(names))
  BY DEF EditLeaves
<1>3. r[1] \in Buffers /\ Len(Bytes(names)) < Size /\ Len(Bytes(names)) \in Nat
  BY <1>2, BytesTyped DEF Shows
<1>4. TypeOK'
  <2>1. DOMAIN r[1] = 0 .. Size - 1
    BY <1>3 DEF Buffers
  <2>2. r[2] \in 0 .. Size - 1
    BY <1>2, <1>3, SizeNat
  <2> QED
    BY <1>1, <1>2, <2>1, <2>2 DEF TypeOK, ListIInv
<1>5. ListsOK'
  BY <1>1, <1>2, <1>3 DEF ListsOK, ListIInv
<1>6. EditOK'
  BY <1>1, <1>2, <1>3 DEF EditOK
<1>7. DiskOK'
  <2>1. ~torn /\ OnDisk = Encoded(list) /\ ~done
    BY DEF ListIInv, DiskOK
  <2>2. OnDisk' = OnDisk
    BY <1>1 DEF OnDisk
  <2> QED
    BY <1>1, <2>1, <2>2 DEF DiskOK
<1> QED
  BY <1>4, <1>5, <1>6, <1>7 DEF ListIInv

\* read_header takes over the committed list.
LEMMA ReadHeaderKeeps ==
    ASSUME ListIInv, ReadHeader
    PROVE  ListIInv'
<1>1. /\ pc = "idle" /\ ~torn /\ ncmd < MaxCmds
      /\ fb_list' = OnDisk /\ tail' = WalkEnd(OnDisk) /\ mem' = list
      /\ pc' = "ready" /\ ncmd' = ncmd + 1 /\ done' = FALSE
      /\ UNCHANGED <<disk, used, cur, list, torn>>
  BY DEF ReadHeader
<1>2. OnDisk = Encoded(list) /\ OnDisk' = OnDisk
  BY <1>1 DEF ListIInv, DiskOK, OnDisk
<1>3. list \in Seq(Names) /\ NoTwice(list) /\ Len(Bytes(list)) < Size /\ Len(Bytes(list)) \in Nat
  BY BytesTyped DEF ListIInv, ListsOK
<1>4. OnDisk \in Buffers /\ Shows(OnDisk, list)
  <2>1. Encoded(list) \in Buffers
    BY <1>3, EncodedTyped
  <2> QED
    BY <1>2, <1>3, <2>1, EncodedShows
<1>5. WalkEnd(OnDisk) = Len(Bytes(list))
  BY <1>4, WalkEndIs
<1>6. TypeOK'
  <2>1. DOMAIN OnDisk = 0 .. Size - 1
    BY <1>4 DEF Buffers
  <2>2. WalkEnd(OnDisk) \in 0 .. Size - 1
    BY <1>3, <1>5, SizeNat
  <2>3. ncmd + 1 \in 0 .. MaxCmds
    BY <1>1, ListAssumption DEF ListIInv, TypeOK
  <2> QED
    BY <1>1, <1>3, <2>1, <2>2, <2>3 DEF TypeOK, ListIInv
<1>7. ListsOK'
  BY <1>1, <1>3 DEF ListsOK
<1>8. EditOK'
  BY <1>1, <1>2, <1>4, <1>5 DEF EditOK
<1>9. DiskOK'
  BY <1>1, <1>2 DEF DiskOK
<1> QED
  BY <1>6, <1>7, <1>8, <1>9 DEF ListIInv

\* alloc_file, after del_file, at the beginning or the end of any item.
LEMMA AllocFileKeeps ==
    ASSUME ListIInv, NEW name \in Names, AllocFile(name, "whole")
    PROVE  ListIInv'
<1>1. PICK deleted : deleted = Deleted(fb_list, tail, name, "whole")
  OBVIOUS
<1>2. PICK names : names = NamesWithout(mem, name)
  OBVIOUS
<1>3. PICK gaps : gaps = Append(Walk(deleted[1]), deleted[2])
  OBVIOUS
<1>4. pc \in {"ready", "adding"} /\ Room(deleted[2], name)
  BY <1>1 DEF AllocFile
<1>5. PICK i \in 1 .. IF Len(names) < Len(gaps) THEN Len(names) + 1 ELSE Len(gaps) :
         Edited(Inserted(deleted[1], deleted[2], gaps[i], name, "whole"),
                InsertAt(names, i, name), "adding")
  BY <1>1, <1>2, <1>3, Zenon DEF AllocFile
<1>6. /\ mem \in Seq(Names) /\ NoTwice(mem) /\ Len(Bytes(mem)) < Size /\ fb_list \in Buffers
      /\ tail = Len(Bytes(mem)) /\ Shows(fb_list, mem) /\ fb_list = Encoded(mem)
  BY <1>4 DEF ListIInv, ListsOK, EditOK
<1>7. /\ names \in Seq(Names) /\ NoTwice(names)
      /\ \A j \in 1 .. Len(names) : names[j] # name
  BY <1>2, <1>6, WithoutFacts
<1>8. /\ Shows(deleted[1], names)
      /\ deleted[2] = Len(Bytes(names)) /\ deleted[2] =< tail
      /\ \A k \in 0 .. Size - 1 :
            deleted[2] + ItemBytes[name] =< k /\ tail =< k => deleted[1][k] = fb_list[k]
      /\ tail =< deleted[2] + ItemBytes[name]
  BY <1>1, <1>2, <1>6, DeletedShows
<1>9. \A k \in 0 .. Size - 1 : deleted[2] + ItemBytes[name] =< k => deleted[1][k] = Zero
  <2>1. ASSUME NEW k \in 0 .. Size - 1, deleted[2] + ItemBytes[name] =< k
        PROVE  deleted[1][k] = Zero
    <3>1. PICK d, c, t : d = deleted[2] /\ c = ItemBytes[name] /\ t = tail
      OBVIOUS
    <3>2. d \in Nat /\ c \in Nat /\ t \in Nat /\ t =< d + c /\ d + c =< k /\ k \in Nat
      <4>1. d \in Nat /\ t \in Nat
        BY <1>6, <1>7, <1>8, <3>1, BytesTyped
      <4>2. c \in Nat
        BY <3>1, ItemFacts
      <4>3. t =< d + c /\ d + c =< k
        BY <1>8, <2>1, <3>1
      <4>4. k \in Nat
        BY SizeNat
      <4> QED
        BY <4>1, <4>2, <4>3, <4>4
    <3>3. t =< k
      BY <3>2
    <3>4. fb_list[k] = Zero
      BY <1>6, <3>1, <3>3, EncodedShows
    <3> QED
      BY <1>8, <2>1, <3>1, <3>3, <3>4
  <2> QED
    BY <2>1
<1>10. i \in 1 .. Len(names) + 1 /\ gaps[i] = StartOf(names, i)
  <2>1. PICK w, m : w = Walk(deleted[1]) /\ m = Len(names)
    OBVIOUS
  <2>2. /\ w \in Seq(Nat) /\ Len(w) = m /\ m \in Nat
        /\ \A j \in 1 .. m : w[j] = StartOf(names, j)
    BY <1>7, <1>8, <2>1, WalkIs
  <2>3. deleted[2] \in Nat /\ gaps = Append(w, deleted[2])
    BY <1>3, <1>7, <1>8, <2>1, BytesTyped
  <2>4. /\ Len(gaps) = m + 1 /\ gaps[m + 1] = deleted[2]
        /\ \A j \in 1 .. m : gaps[j] = w[j]
    BY <2>2, <2>3, AppendProperties
  <2>5. i \in 1 .. m + 1
    BY <2>1, <2>2, <2>4
  <2>6. CASE i = m + 1
    <3>1. StartOf(names, m + 1) = Len(Bytes(names))
      BY <1>7, <2>1, StartEnds
    <3> QED
      BY <1>8, <2>1, <2>4, <2>5, <2>6, <3>1
  <2>7. CASE i # m + 1
    <3>1. i \in 1 .. m
      BY <2>2, <2>5, <2>7
    <3> QED
      BY <2>1, <2>2, <2>4, <2>5, <3>1
  <2> QED
    BY <2>6, <2>7
<1>11. PICK r : r = Inserted(deleted[1], deleted[2], gaps[i], name, "whole")
  OBVIOUS
<1>12. PICK after : after = InsertAt(names, i, name)
  OBVIOUS
<1>13. /\ r[1] = Encoded(after) /\ r[2] = Len(Bytes(after)) /\ r[2] < Size
       /\ after \in Seq(Names) /\ NoTwice(after)
  <2>1. r = Inserted(deleted[1], deleted[2], StartOf(names, i), name, "whole")
    BY <1>10, <1>11
  <2> QED
    BY <1>4, <1>7, <1>8, <1>9, <1>10, <1>12, <2>1, InsertedShows
<1>14. EditLeaves(r[1], r[2], after, "adding")
  <2>1. Encoded(after) \in Buffers
    BY <1>13, EncodedTyped
  <2>2. Shows(Encoded(after), after)
    BY <1>13, <2>1, EncodedShows
  <2> QED
    BY <1>13, <2>2 DEF EditLeaves
<1> QED
  BY <1>4, <1>5, <1>11, <1>12, <1>14, EditKeeps

\* del_file alone.
LEMMA RemoveFileKeeps ==
    ASSUME ListIInv, NEW name \in Names, RemoveFile(name, "whole")
    PROVE  ListIInv'
<1>1. PICK r, names : r = Deleted(fb_list, tail, name, "whole") /\ names = NamesWithout(mem, name)
  OBVIOUS
<1>2. pc = "ready" /\ Edited(r, names, "commit")
  BY <1>1 DEF RemoveFile
<1>3. /\ mem \in Seq(Names) /\ NoTwice(mem)
      /\ tail = Len(Bytes(mem)) /\ Shows(fb_list, mem)
  BY <1>2 DEF ListIInv, ListsOK, EditOK
<1>4. names \in Seq(Names) /\ NoTwice(names)
  BY <1>1, <1>3, WithoutFacts
<1>5. Shows(r[1], names) /\ r[2] = Len(Bytes(names))
  BY <1>1, <1>3, DeletedShows
<1>6. EditLeaves(r[1], r[2], names, "commit")
  BY <1>4, <1>5 DEF EditLeaves
<1> QED
  BY <1>2, <1>6, EditKeeps

\* move_file, after del_file of the new name.
LEMMA MoveFileKeeps ==
    ASSUME ListIInv, NEW old \in Names, NEW new \in Names, MoveFile(old, new, "whole")
    PROVE  ListIInv'
<1>1. PICK deleted : deleted = Deleted(fb_list, tail, new, "whole")
  OBVIOUS
<1>2. PICK names : names = NamesWithout(mem, new)
  OBVIOUS
<1>3. PICK p : p = CHOOSE ofs \in Offsets(deleted[1], old) : TRUE
  OBVIOUS
<1>4. PICK r : r = Renamed(deleted[1], deleted[2], p, new, "whole")
  OBVIOUS
<1>5. /\ pc = "ready" /\ Offsets(deleted[1], old) # {}
      /\ Room(deleted[2] - (deleted[1][p].number + 2), new)
      /\ Edited(r, ReplaceAll(names, old, new), "commit")
  BY <1>1, <1>2, <1>3, <1>4 DEF MoveFile
<1>6. /\ mem \in Seq(Names) /\ NoTwice(mem)
      /\ tail = Len(Bytes(mem)) /\ Shows(fb_list, mem)
  BY <1>5 DEF ListIInv, ListsOK, EditOK
<1>7. /\ names \in Seq(Names) /\ NoTwice(names)
      /\ \A j \in 1 .. Len(names) : names[j] # new
  BY <1>2, <1>6, WithoutFacts
<1>8. Shows(deleted[1], names) /\ deleted[2] = Len(Bytes(names))
  BY <1>1, <1>2, <1>6, DeletedShows
<1>9. Offsets(deleted[1], old) =
         {StartOf(names, j) : j \in {k \in 1 .. Len(names) : names[k] = old}}
  BY <1>8, OffsetsAre
<1>10. PICK i \in 1 .. Len(names) : names[i] = old /\ p = StartOf(names, i)
  <2>1. p \in Offsets(deleted[1], old)
    BY <1>3, <1>5
  <2> QED
    BY <1>9, <2>1
<1>11. PICK q : q = ReplaceAll(names, names[i], new)
  OBVIOUS
<1>12. Shows(r[1], q) /\ r[2] = Len(Bytes(q)) /\ NoTwice(q)
  BY <1>4, <1>5, <1>7, <1>8, <1>10, <1>11, RenamedShows
<1>13. EditLeaves(r[1], r[2], q, "commit")
  BY <1>12 DEF EditLeaves, Shows
<1>14. Edited(r, q, "commit")
  BY <1>5, <1>10, <1>11
<1> QED
  BY <1>5, <1>13, <1>14, EditKeeps

\* The list of a disk that is cleared.
LEMMA ClearMenuKeeps ==
    ASSUME ListIInv, ClearMenu
    PROVE  ListIInv'
<1>1. PICK e, r : e = [fb_list EXCEPT ![0] = Zero] /\ r = <<e, 0>>
  OBVIOUS
<1>2. pc = "ready" /\ Edited(r, <<>>, "commit") /\ r[1] = e /\ r[2] = 0
  BY <1>1 DEF ClearMenu
<1>3. fb_list \in Buffers /\ 0 \in 0 .. Size - 1
  BY SizeNat DEF ListIInv, EditOK
<1>4. e \in Buffers /\ e[0] = Zero
  BY <1>1, <1>3, ZeroByte DEF Buffers
<1>5. <<>> \in Seq(Names) /\ Len(<<>>) = 0
  OBVIOUS
<1>6. Bytes(<<>>) = <<>> /\ NoTwice(<<>>)
  <2>1. Bytes(<<>>) = <<>>
    BY <1>5, BytesTyped
  <2>2. NoTwice(<<>>)
    BY <1>5 DEF NoTwice
  <2> QED
    BY <2>1, <2>2
<1>7. Len(Bytes(<<>>)) = 0
  BY <1>5, <1>6
<1>8. Shows(e, <<>>)
  BY <1>3, <1>4, <1>5, <1>7, SizeNat DEF Shows
<1>9. EditLeaves(r[1], r[2], <<>>, "commit")
  BY <1>2, <1>5, <1>6, <1>7, <1>8 DEF EditLeaves
<1> QED
  BY <1>2, <1>9, EditKeeps

\* What is behind the tail becomes zero: the buffer is the list, byte for byte.
LEMMA AddMarkKeeps ==
    ASSUME ListIInv, AddMark
    PROVE  ListIInv'
<1>1. /\ pc \in {"ready", "adding", "commit"} /\ pc' = "used"
      /\ fb_list' = [k \in 0 .. Size - 1 |-> IF k < tail THEN fb_list[k] ELSE Zero]
      /\ UNCHANGED <<disk, used, tail, cur, ncmd, list, mem, done, torn>>
  BY DEF AddMark
<1>2. /\ mem \in Seq(Names) /\ tail = Len(Bytes(mem)) /\ Shows(fb_list, mem)
      /\ tail \in Nat /\ tail < Size
  BY <1>1, BytesTyped DEF ListIInv, ListsOK, EditOK
<1>3. fb_list' = Encoded(mem)
  <2>1. ASSUME NEW k \in 0 .. Size - 1
        PROVE  (IF k < tail THEN fb_list[k] ELSE Zero)
                  = IF k < Len(Bytes(mem)) THEN Bytes(mem)[k + 1] ELSE Zero
    <3>1. k < tail => k \in 0 .. Len(Bytes(mem)) - 1
      BY <1>2
    <3>2. k < tail => fb_list[k] = Bytes(mem)[k + 1]
      BY <1>2, <3>1 DEF Shows
    <3> QED
      BY <1>2, <3>2
  <2> QED
    BY <1>1, <2>1 DEF Encoded
<1>4. Encoded(mem) \in Buffers /\ Shows(Encoded(mem), mem)
  BY <1>2, EncodedTyped, EncodedShows
<1>5. TypeOK'
  <2>1. DOMAIN fb_list' = 0 .. Size - 1
    BY <1>1
  <2> QED
    BY <1>1, <2>1 DEF TypeOK, ListIInv
<1>6. ListsOK'
  BY <1>1 DEF ListsOK, ListIInv
<1>7. EditOK'
  BY <1>1, <1>2, <1>3, <1>4 DEF EditOK
<1>8. DiskOK'
  <2>1. ~torn /\ OnDisk = Encoded(list) /\ ~done
    BY <1>1 DEF ListIInv, DiskOK
  <2>2. OnDisk' = OnDisk
    BY <1>1 DEF OnDisk
  <2> QED
    BY <1>1, <2>1, <2>2 DEF DiskOK
<1> QED
  BY <1>5, <1>6, <1>7, <1>8 DEF ListIInv

\* The sectors to be loaded hold the tail, and so the terminator.
LEMMA WriteUsedKeeps ==
    ASSUME ListIInv, WriteUsed
    PROVE  ListIInv'
<1>1. /\ pc = "used" /\ pc' = "list" /\ used' = tail \div SectorBytes + 1 /\ cur' = 0
      /\ UNCHANGED <<disk, fb_list, tail, ncmd, list, mem, done, torn>>
  BY DEF WriteUsed, ListUsed
<1>2. /\ tail \div SectorBytes \in 0 .. Sectors - 1
      /\ tail < (tail \div SectorBytes + 1) * SectorBytes
  <2>1. tail \in 0 .. Size - 1
    BY DEF ListIInv, TypeOK
  <2>2. PICK q : q = tail \div SectorBytes
    OBVIOUS
  <2>3. q \in 0 .. Sectors - 1 /\ \A c \in Nat : tail < c * SectorBytes <=> q < c
    BY <2>1, <2>2, SectorPlace
  <2>4. q + 1 \in Nat /\ q < q + 1
    BY <2>3
  <2>5. tail < (q + 1) * SectorBytes
    BY <2>3, <2>4
  <2> QED
    BY <2>2, <2>3, <2>5
<1>3. used' \in 1 .. Sectors /\ tail < used' * SectorBytes /\ 0 \in 0 .. Sectors /\ 0 < Sectors
  BY <1>1, <1>2, ListAssumption
<1>4. TypeOK'
  BY <1>1, <1>3 DEF TypeOK, ListIInv
<1>5. ListsOK'
  BY <1>1 DEF ListsOK, ListIInv
<1>6. EditOK'
  BY <1>1 DEF EditOK, ListIInv
<1>7. DiskOK'
  <2>1. ~torn /\ ~done /\ \A k \in 0 .. Size - 1 : OnDisk[k] \in {Encoded(list)[k], Encoded(mem)[k]}
    BY <1>1 DEF ListIInv, DiskOK
  <2>2. OnDisk' = OnDisk
    BY <1>1 DEF OnDisk
  <2>3. \A k \in 0 .. Size - 1 : ~(k < 0 * SectorBytes)
    BY SizeNat, ListAssumption
  <2> QED
    BY <1>1, <1>3, <2>1, <2>2, <2>3 DEF DiskOK
<1> QED
  BY <1>4, <1>5, <1>6, <1>7 DEF ListIInv

\* A sector of the new list replaces one of the old; the last one commits.
LEMMA WriteListKeeps ==
    ASSUME ListIInv, WriteList
    PROVE  ListIInv'
<1>1. /\ pc = "list" /\ cur' = cur + 1
      /\ disk' = [disk EXCEPT ![cur] =
                    [k \in 0 .. SectorBytes - 1 |-> fb_list[cur * SectorBytes + k]]]
      /\ UNCHANGED <<used, fb_list, tail, ncmd, mem, torn>>
      /\ IF cur < Sectors - 1 THEN UNCHANGED <<pc, list, done>>
         ELSE pc' = "idle" /\ list' = mem /\ done' = TRUE
  BY DEF WriteList, SectorAt, LastSector
<1>2. /\ fb_list = Encoded(mem) /\ fb_list \in Buffers
      /\ tail = Len(Bytes(mem)) /\ tail < used * SectorBytes
      /\ cur < Sectors /\ ~torn
      /\ cur \in Nat /\ Sectors \in Nat \ {0} /\ SectorBytes \in Nat \ {0}
      /\ DOMAIN disk = 0 .. Sectors - 1
      /\ \A k \in 0 .. Size - 1 : OnDisk[k] \in {Encoded(list)[k], Encoded(mem)[k]}
      /\ \A k \in 0 .. Size - 1 : k < cur * SectorBytes => OnDisk[k] = Encoded(mem)[k]
  BY <1>1, ListAssumption DEF ListIInv, TypeOK, EditOK, DiskOK
<1>3. ASSUME NEW k \in 0 .. Size - 1
      PROVE  /\ OnDisk'[k] \in {OnDisk[k], Encoded(mem)[k]}
             /\ k < (cur + 1) * SectorBytes => OnDisk'[k] = Encoded(mem)[k]
  <2>1. PICK q, m : q = k \div SectorBytes /\ m = k % SectorBytes
    OBVIOUS
  <2>2. /\ q \in 0 .. Sectors - 1 /\ m \in 0 .. SectorBytes - 1 /\ q * SectorBytes + m = k
        /\ \A c \in Nat : k < c * SectorBytes <=> q < c
    BY <2>1, SectorPlace
  <2>3. OnDisk[k] = disk[q][m] /\ OnDisk'[k] = disk'[q][m]
    BY <2>1 DEF OnDisk
  <2>4. CASE q = cur
    <3>1. disk'[q] = [j \in 0 .. SectorBytes - 1 |-> fb_list[cur * SectorBytes + j]]
      BY <1>1, <1>2, <2>2, <2>4
    <3>2. disk'[q][m] = fb_list[cur * SectorBytes + m]
      BY <2>2, <3>1
    <3>3. OnDisk'[k] = Encoded(mem)[k]
      BY <1>2, <2>2, <2>3, <2>4, <3>2
    <3> QED
      BY <3>3
  <2>5. CASE q # cur
    <3>1. disk'[q] = disk[q]
      BY <1>1, <1>2, <2>2, <2>5
    <3>2. OnDisk'[k] = OnDisk[k]
      BY <2>3, <3>1
    <3>3. k < (cur + 1) * SectorBytes => k < cur * SectorBytes
      <4>1. k < (cur + 1) * SectorBytes <=> q < cur + 1
        BY <1>2, <2>2
      <4>2. k < cur * SectorBytes <=> q < cur
        BY <1>2, <2>2
      <4>3. q < cur + 1 => q < cur
        BY <1>2, <2>2, <2>5
      <4> QED
        BY <4>1, <4>2, <4>3
    <3> QED
      BY <1>2, <3>2, <3>3
  <2> QED
    BY <2>4, <2>5
<1>4. DOMAIN disk' = 0 .. Sectors - 1
  BY <1>1, <1>2
<1>5. CASE cur < Sectors - 1
  <2>1. UNCHANGED <<pc, list, done>>
    BY <1>1, <1>5
  <2>2. cur + 1 \in 0 .. Sectors /\ cur + 1 < Sectors
    BY <1>2, <1>5
  <2>3. TypeOK'
    BY <1>1, <1>4, <2>1, <2>2 DEF TypeOK, ListIInv
  <2>4. ListsOK'
    BY <1>1, <2>1 DEF ListsOK, ListIInv
  <2>5. EditOK'
    BY <1>1, <2>1 DEF EditOK, ListIInv
  <2>6. DiskOK'
    <3>1. ~done
      BY <1>1 DEF ListIInv, DiskOK
    <3>2. \A k \in 0 .. Size - 1 : OnDisk'[k] \in {Encoded(list)[k], Encoded(mem)[k]}
      BY <1>2, <1>3
    <3>3. \A k \in 0 .. Size - 1 : k < (cur + 1) * SectorBytes => OnDisk'[k] = Encoded(mem)[k]
      BY <1>3
    <3>4. Encoded(list)' = Encoded(list) /\ Encoded(mem)' = Encoded(mem)
      BY <1>1, <2>1
    <3> QED
      BY <1>1, <1>2, <2>1, <2>2, <3>1, <3>2, <3>3, <3>4 DEF DiskOK
  <2> QED
    BY <2>3, <2>4, <2>5, <2>6 DEF ListIInv
<1>6. CASE ~(cur < Sectors - 1)
  <2>1. pc' = "idle" /\ list' = mem /\ done' = TRUE
    BY <1>1, <1>6
  <2>2. cur + 1 = Sectors
    BY <1>2, <1>6
  <2>3. OnDisk' = Encoded(mem)
    <3>1. \A k \in 0 .. Size - 1 : k < (cur + 1) * SectorBytes
      <4>1. (cur + 1) * SectorBytes = Size
        BY <2>2 DEF Size
      <4> QED
        BY <4>1, SizeNat
    <3>2. \A k \in 0 .. Size - 1 : OnDisk'[k] = Encoded(mem)[k]
      BY <1>3, <3>1
    <3>3. /\ OnDisk' = [k \in 0 .. Size - 1 |-> OnDisk'[k]]
          /\ Encoded(mem) = [k \in 0 .. Size - 1 |-> Encoded(mem)[k]]
      BY DEF OnDisk, Encoded
    <3> QED
      BY <3>2, <3>3
  <2>4. TypeOK'
    <3>1. mem \in Seq(Names) /\ cur + 1 \in 0 .. Sectors
      BY <1>2, <2>2 DEF ListIInv, ListsOK
    <3> QED
      BY <1>1, <1>4, <2>1, <3>1 DEF TypeOK, ListIInv
  <2>5. ListsOK'
    BY <1>1, <2>1 DEF ListsOK, ListIInv
  <2>6. EditOK'
    BY <1>1, <1>2, <2>1 DEF EditOK
  <2>7. DiskOK'
    BY <1>1, <1>2, <2>1, <2>3 DEF DiskOK
  <2> QED
    BY <2>4, <2>5, <2>6, <2>7 DEF ListIInv
<1> QED
  BY <1>5, <1>6

\* A run that ends leaves the old list, the new one, or a part of each.
LEMMA InterruptKeeps ==
    ASSUME ListIInv, Interrupt
    PROVE  ListIInv'
<1>1. /\ pc # "idle" /\ pc' = "idle"
      /\ list' = IF pc = "list" /\ OnDisk = Encoded(mem) THEN mem ELSE list
      /\ torn' = (OnDisk \notin {Encoded(list), Encoded(mem)})
      /\ UNCHANGED <<disk, used, fb_list, tail, cur, ncmd, mem, done>>
  BY DEF Interrupt
<1>2. list' = list \/ (list' = mem /\ OnDisk = Encoded(mem))
  BY <1>1
<1>3. TypeOK'
  BY <1>1, <1>2 DEF TypeOK, ListIInv
<1>4. ListsOK'
  BY <1>1, <1>2 DEF ListsOK, ListIInv
<1>5. EditOK'
  BY <1>1 DEF EditOK, ListIInv
<1>6. DiskOK'
  <2>1. /\ ~done /\ \A k \in 0 .. Size - 1 : OnDisk[k] \in {Encoded(list)[k], Encoded(mem)[k]}
        /\ (pc # "list" => OnDisk = Encoded(list))
    BY <1>1 DEF ListIInv, DiskOK
  <2>2. OnDisk' = OnDisk
    BY <1>1 DEF OnDisk
  <2>3. CASE list' = list
    <3>1. OnDisk = Encoded(list) \/ torn'
      <4>1. CASE OnDisk \in {Encoded(list), Encoded(mem)}
        BY <1>1, <2>1, <2>3, <4>1
      <4>2. CASE OnDisk \notin {Encoded(list), Encoded(mem)}
        BY <1>1, <4>2
      <4> QED
        BY <4>1, <4>2
    <3> QED
      BY <1>1, <2>1, <2>2, <2>3, <3>1 DEF DiskOK
  <2>4. CASE list' = mem /\ OnDisk = Encoded(mem)
    BY <1>1, <2>1, <2>2, <2>4 DEF DiskOK
  <2> QED
    BY <1>2, <2>3, <2>4
<1> QED
  BY <1>3, <1>4, <1>5, <1>6 DEF ListIInv

\* Every step keeps the invariant.
LEMMA ListStep ==
    ASSUME Copying = {"whole"}, ListIInv, [Next]_vars
    PROVE  ListIInv'
<1>1. CASE ReadHeader
  BY <1>1, ReadHeaderKeeps
<1>2. CASE Step
  <2>1. ASSUME NEW how \in Copying, NEW name \in Names, AllocFile(name, how)
        PROVE  ListIInv'
    BY <2>1, AllocFileKeeps
  <2>2. ASSUME NEW how \in Copying, NEW name \in Names, RemoveFile(name, how)
        PROVE  ListIInv'
    BY <2>2, RemoveFileKeeps
  <2>3. ASSUME NEW how \in Copying, NEW old \in Names, NEW new \in Names,
               MoveFile(old, new, how)
        PROVE  ListIInv'
    BY <2>3, MoveFileKeeps
  <2>4. CASE ClearMenu
    BY <2>4, ClearMenuKeeps
  <2>5. CASE AddMark
    BY <2>5, AddMarkKeeps
  <2>6. CASE WriteUsed
    BY <2>6, WriteUsedKeeps
  <2>7. CASE WriteList
    BY <2>7, WriteListKeeps
  <2> QED
    BY <1>2, <2>1, <2>2, <2>3, <2>4, <2>5, <2>6, <2>7 DEF Step
<1>3. CASE Interrupt
  BY <1>3, InterruptKeeps
<1>4. CASE Stop \/ UNCHANGED vars
  <2>1. UNCHANGED <<disk, used, fb_list, tail, pc, cur, ncmd, list, mem, done, torn>>
    BY <1>4 DEF Stop, vars, memory
  <2> QED
    BY <2>1 DEF ListIInv, TypeOK, ListsOK, EditOK, DiskOK, OnDisk, Encoded
<1> QED
  BY <1>1, <1>2, <1>3, <1>4 DEF Next

\* The inductive invariant always holds.
LEMMA ListInvariant ==
    ASSUME Copying = {"whole"}
    PROVE  Spec => []ListIInv
<1>1. Init => ListIInv
  BY InitList
<1>2. ListIInv /\ [Next]_vars => ListIInv'
  BY ListStep
<1> QED
  BY <1>1, <1>2, PTL DEF Spec

-----------------------------------------------------------------------------
(***************************************************************************)
(* The theorems.                                                           *)
(***************************************************************************)

\* The chain of a list, in the bytes of its sectors.
LEMMA EncodedChain ==
    ASSUME NEW names \in Seq(Names), Len(Bytes(names)) < Size
    PROVE  /\ Len(Bytes(names)) \in Nat
           /\ \A k \in 0 .. Len(Bytes(names)) - 1 : Encoded(names)[k] = Bytes(names)[k + 1]
           /\ Encoded(names)[Len(Bytes(names))] = Zero
<1>1. Len(Bytes(names)) \in Nat
  BY BytesTyped
<1>2. \A k \in 0 .. Len(Bytes(names)) : k \in 0 .. Size - 1
  BY <1>1, SizeNat
<1> QED
  BY <1>1, <1>2 DEF Encoded

\* Lists that begin alike have the same bytes there.
LEMMA EncodedPrefix ==
    ASSUME NEW names \in Seq(Names), NEW n \in 0 .. Len(names),
           NEW u, u = SubSeq(names, 1, n), Len(Bytes(names)) < Size
    PROVE  /\ Len(Bytes(u)) \in Nat /\ Len(Bytes(u)) =< Len(Bytes(names))
           /\ \A k \in 0 .. Len(Bytes(u)) - 1 : Encoded(names)[k] = Bytes(u)[k + 1]
<1>1. PICK m : m = Len(names)
  OBVIOUS
<1>2. m \in Nat /\ n \in 0 .. m
  BY <1>1
<1>3. CASE n = m
  <2>1. u = names
    BY <1>1, <1>3, SubSeqFull
  <2>2. /\ Len(Bytes(u)) \in Nat
        /\ \A k \in 0 .. Len(Bytes(u)) - 1 : Encoded(u)[k] = Bytes(u)[k + 1]
    BY <2>1, EncodedChain
  <2>3. Len(Bytes(u)) =< Len(Bytes(u))
    BY <2>2
  <2> QED
    BY <2>1, <2>2, <2>3, Zenon
<1>4. CASE n # m
  <2>1. n + 1 \in 1 .. Len(names) /\ (n + 1) - 1 = n
    BY <1>1, <1>2, <1>4
  <2>2. PICK i : i = n + 1
    OBVIOUS
  <2>3. PICK s, v \in Seq(Names) :
           /\ s = SubSeq(names, 1, i - 1) /\ names[i] \in Names
           /\ Bytes(names) = (Bytes(s) \o ItemOf(names[i])) \o Bytes(v)
    BY <2>1, <2>2, ListAround
  <2>4. u = s
    BY <2>1, <2>2, <2>3
  <2>5. /\ Bytes(u) \in Seq(Byte) /\ Bytes(v) \in Seq(Byte) /\ ItemOf(names[i]) \in Seq(Byte)
        /\ Len(Bytes(u)) \in Nat /\ Len(Bytes(v)) \in Nat /\ Len(ItemOf(names[i])) \in Nat
    BY <2>3, <2>4, BytesTyped, ItemFacts
  <2>6. Joined(Bytes(names), Bytes(u), ItemOf(names[i]), Bytes(v))
    BY <2>3, <2>4, <2>5, ThreeParts
  <2>7. PICK l, w : l = Len(Bytes(u)) /\ w = Len(Bytes(names))
    OBVIOUS
  <2>8. l \in Nat /\ w \in Nat /\ l =< w
    BY <2>5, <2>6, <2>7 DEF Joined
  <2>9. \A k \in 1 .. l : Bytes(names)[k] = Bytes(u)[k]
    BY <2>6, <2>7 DEF Joined
  <2>10. ASSUME NEW k \in 0 .. l - 1
         PROVE  Encoded(names)[k] = Bytes(u)[k + 1]
    <3>1. k \in 0 .. w - 1 /\ k + 1 \in 1 .. l
      BY <2>8
    <3> QED
      BY <2>7, <2>9, <3>1, EncodedChain
  <2> QED
    BY <2>7, <2>8, <2>10
<1> QED
  BY <1>3, <1>4

\* What the inductive invariant says of the buffer,
LEMMA BufferHolds == ListIInv => BufferInv
<1>1. SUFFICES ASSUME ListIInv PROVE BufferInv
  OBVIOUS
<1>2. ASSUME pc # "idle"
      PROVE  tail = Len(Bytes(mem)) /\ \A k \in 0 .. tail : fb_list[k] = Encoded(mem)[k]
  <2>1. /\ mem \in Seq(Names) /\ Len(Bytes(mem)) < Size
        /\ tail = Len(Bytes(mem)) /\ Shows(fb_list, mem)
    BY <1>1, <1>2 DEF ListIInv, ListsOK, EditOK
  <2>2. /\ tail \in Nat
        /\ \A k \in 0 .. tail - 1 : Encoded(mem)[k] = Bytes(mem)[k + 1]
        /\ Encoded(mem)[tail] = Zero
    BY <2>1, EncodedChain
  <2>3. /\ \A k \in 0 .. tail - 1 : fb_list[k] = Bytes(mem)[k + 1]
        /\ fb_list[tail] = Zero
    BY <2>1 DEF Shows
  <2>4. \A k \in 0 .. tail : k \in 0 .. tail - 1 \/ k = tail
    BY <2>2
  <2> QED
    BY <2>1, <2>2, <2>3, <2>4
<1> QED
  BY <1>1, <1>2 DEF ListIInv, BufferInv, BufferIsList

\* and of what an interrupted run leaves on the disk,
LEMMA PrefixHolds == ListIInv => PrefixSurvives
<1>1. SUFFICES ASSUME ListIInv PROVE PrefixSurvives
  OBVIOUS
<1>2. /\ list \in Seq(Names) /\ mem \in Seq(Names)
      /\ Len(Bytes(list)) < Size /\ Len(Bytes(mem)) < Size
      /\ \A k \in 0 .. Size - 1 : OnDisk[k] \in {Encoded(list)[k], Encoded(mem)[k]}
      /\ pc = "list" => tail = Len(Bytes(mem)) /\ tail < used * SectorBytes
  BY <1>1 DEF ListIInv, ListsOK, EditOK, DiskOK
<1>3. ASSUME NEW n \in 0 .. Len(list),
             n =< Len(mem) /\ SubSeq(list, 1, n) = SubSeq(mem, 1, n)
      PROVE  /\ pc = "list" => Len(Bytes(SubSeq(list, 1, n))) < used * SectorBytes
             /\ \A k \in 0 .. Len(Bytes(SubSeq(list, 1, n))) - 1 : OnDisk[k] = Encoded(list)[k]
  <2>1. PICK u : u = SubSeq(list, 1, n)
    OBVIOUS
  <2>2. n \in 0 .. Len(mem) /\ u = SubSeq(mem, 1, n)
    BY <1>2, <1>3, <2>1
  <2>3. /\ Len(Bytes(u)) \in Nat /\ Len(Bytes(u)) =< Len(Bytes(list))
        /\ \A k \in 0 .. Len(Bytes(u)) - 1 : Encoded(list)[k] = Bytes(u)[k + 1]
    BY <1>2, <2>1, EncodedPrefix
  <2>4. /\ Len(Bytes(u)) =< Len(Bytes(mem))
        /\ \A k \in 0 .. Len(Bytes(u)) - 1 : Encoded(mem)[k] = Bytes(u)[k + 1]
    BY <1>2, <2>2, EncodedPrefix
  <2>5. PICK l : l = Len(Bytes(u))
    OBVIOUS
  <2>6. pc = "list" => l < used * SectorBytes
    <3>1. Len(Bytes(mem)) \in Nat /\ used \in Nat /\ SectorBytes \in Nat
      BY <1>1, <1>2, BytesTyped, ListAssumption DEF ListIInv, TypeOK
    <3>2. PICK w, z : w = Len(Bytes(mem)) /\ z = used * SectorBytes
      OBVIOUS
    <3>3. w \in Nat /\ z \in Nat /\ l \in Nat /\ l =< w
      BY <2>3, <2>4, <2>5, <3>1, <3>2
    <3>4. pc = "list" => w < z
      BY <1>2, <3>2
    <3> QED
      BY <3>2, <3>3, <3>4
  <2>7. ASSUME NEW k \in 0 .. l - 1 PROVE OnDisk[k] = Encoded(list)[k]
    <3>1. k \in 0 .. Size - 1
      <4>1. Len(Bytes(list)) \in Nat
        BY <1>2, BytesTyped
      <4> QED
        BY <1>2, <2>3, <2>5, <4>1, SizeNat
    <3>2. Encoded(mem)[k] = Encoded(list)[k]
      BY <2>3, <2>4, <2>5
    <3> QED
      BY <1>2, <3>1, <3>2
  <2> QED
    BY <2>1, <2>5, <2>6, <2>7
<1> QED
  BY <1>3 DEF PrefixSurvives

\* and of the check of read_header.
LEMMA ReadableHolds == ListIInv => ListReadable
<1>1. SUFFICES ASSUME ListIInv, pc = "idle", ~torn PROVE WalkEnd(OnDisk) < Size
  BY DEF ListReadable
<1>2. OnDisk = Encoded(list) /\ list \in Seq(Names) /\ Len(Bytes(list)) < Size
  BY <1>1 DEF ListIInv, ListsOK, DiskOK
<1>3. Shows(OnDisk, list)
  BY <1>2, EncodedTyped, EncodedShows
<1> QED
  BY <1>2, <1>3, WalkEndIs

\* Whatever the commands and wherever they end, when memcpy copies as memmove does:
\* the bytes del_file, alloc_file and move_file leave in the buffer are those of the
\* list, with its terminator, and it always leaves room for one.
THEOREM BufferAlwaysList ==
    ASSUME Copying = {"whole"}
    PROVE  Spec => []BufferInv
<1>1. Spec => []ListIInv
  BY ListInvariant
<1> QED
  BY <1>1, BufferHolds, PTL

\* What write_header has committed is byte for byte the list that was in memory, for
\* the next read_header to find.
THEOREM ListAlwaysCommitted ==
    ASSUME Copying = {"whole"}
    PROVE  Spec => []ListCommitted
<1>1. Spec => []ListIInv
  BY ListInvariant
<1>2. ListIInv => ListCommitted
  BY DEF ListIInv, DiskOK, ListCommitted
<1> QED
  BY <1>1, <1>2, PTL

\* The sectors list_used counts hold the whole of a committed list.
THEOREM BootAlwaysSeesList ==
    ASSUME Copying = {"whole"}
    PROVE  Spec => []BootSeesList
<1>1. Spec => []ListIInv
  BY ListInvariant
<1>2. ListIInv => BootSeesList
  BY DEF ListIInv, DiskOK, BootSeesList
<1> QED
  BY <1>1, <1>2, PTL

\* Wherever write_header is interrupted, the items before the first that changed are
\* on the disk and within the sectors the boot code loads.
THEOREM PrefixAlwaysSurvives ==
    ASSUME Copying = {"whole"}
    PROVE  Spec => []PrefixSurvives
<1>1. Spec => []ListIInv
  BY ListInvariant
<1> QED
  BY <1>1, PrefixHolds, PTL

\* read_header never refuses a committed list.  (Without the hypothesis, memcpy copying
\* regions that overlap, it may: the run "overlap".)
THEOREM ListAlwaysReadable ==
    ASSUME Copying = {"whole"}
    PROVE  Spec => []ListReadable
<1>1. Spec => []ListIInv
  BY ListInvariant
<1> QED
  BY <1>1, ReadableHolds, PTL
=============================================================================
