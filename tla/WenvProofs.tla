------------------------------ MODULE WenvProofs ------------------------------
(***************************************************************************)
(* Proofs about wenv, for every set of lines, however deep they nest:      *)
(* which statements of a line run, where break and continue lead, and what *)
(* ends a loop.                                                            *)
(***************************************************************************)
EXTENDS Wenv, SequenceTheorems, FiniteSetTheorems, WellFoundedInduction, TLAPS

-----------------------------------------------------------------------------
(***************************************************************************)
(* The inductive invariant.                                                *)
(***************************************************************************)

Outcomes == [at : Nat \ {0}, ret : BOOLEAN]
LineCalls == [kind : {"line"}, line : Lines, at : Nat \ {0}, ran : Seq(Outcomes)]
LoopCalls == [kind : {"loop"}, body : Lines, left : 0 .. MaxRounds, cut : 0 .. MaxRounds]
Calls == LineCalls \union LoopCalls
Flags == {"none", "break", "continue"}

StateOK ==
    /\ program \in Lines /\ stack \in Seq(Calls)
    /\ phase \in {"run", "returned"} /\ flags \in Flags
    /\ ret \in BOOLEAN /\ errnum \in BOOLEAN /\ loose \in BOOLEAN /\ level \in Nat

\* No ]]! behind an item from k to before j.
NoElse(line, k, j) == \A e \in k .. j - 1 : line[e].sep # "else"

\* The item at k ran, and the operator behind it lets the next one run.
Passed(f, k) == \E r \in BOOLEAN : Returned(f, k, r) /\ Passes(f.line[k].sep, r)

\* What ran in a line, with the item it is at as the one to run next.
RanOK(f) ==
    /\ f.at =< Len(f.line) + 1
    /\ \A k \in RanAt(f) : k < f.at
    /\ \A k \in RanAt(f), j \in RanAt(f) \union {f.at} :
          k < j /\ j =< Len(f.line) /\ NoElse(f.line, k + 1, j) => Passed(f, k)
    /\ \A k \in RanAt(f) :
          k < Len(f.line) /\ f.line[k].sep = "else" => k + 1 \notin RanAt(f) \union {f.at}

\* One of the alternatives at a ]]! ran or comes next, unless the line is given up.
AlternativeOK(f, given) ==
    \A k \in RanAt(f) :
        /\ f.line[k].sep \in {"and", "or"}
        /\ k + 1 < Len(f.line) /\ f.line[k + 1].sep = "else"
        => given \/ {k + 1, k + 2} \cap (RanAt(f) \union {f.at}) # {}

\* A call, which waits for one it made, while wenv_flags is fl.
CallOK(f, waits, fl) ==
    IF f.kind = "line"
    THEN /\ RanOK(f)
         /\ AlternativeOK(f, fl # "none" /\ f.at > Len(f.line))
         /\ waits => f.at =< Len(f.line)
    ELSE f.cut =< f.left /\ (waits => f.left > f.cut)

CallsOK == \A i \in DOMAIN stack :
              CallOK(stack[i], i < Len(stack) \/ phase = "returned", flags)

\* Nothing is started while break or continue is on its way.
OnlyLeaving ==
    flags # "none" => stack = <<>> \/ phase = "returned" \/ InLoop \/ ~HasItem

LineIInv == StateOK /\ CallsOK /\ OnlyLeaving /\ (errnum => loose) /\ LoopContained

-----------------------------------------------------------------------------
(***************************************************************************)
(* Lines and the stack.                                                    *)
(***************************************************************************)

\* A line and its items.
LEMMA LineItems ==
    ASSUME NEW line \in Lines
    PROVE  /\ Len(line) \in Nat /\ DOMAIN line = 1 .. Len(line)
           /\ \A k \in 1 .. Len(line) :
                 /\ line[k].op \in {"command", "break", "continue", "group", "for", "check", "read"}
                 /\ line[k].body \in Lines
                 /\ line[k].sep \in {"none", "and", "or", "queue", "else"}
<1>1. line \in Seq(Items)
  BY LinesAssumption
<1>2. Len(line) \in Nat /\ DOMAIN line = 1 .. Len(line)
      /\ \A k \in 1 .. Len(line) : line[k] \in Items
  BY <1>1
<1> QED
  BY <1>2 DEF Items

\* The stack, its top and what is below.
LEMMA StackParts ==
    ASSUME NEW F, NEW s \in Seq(F), s # <<>>
    PROVE  /\ Len(s) \in Nat \ {0} /\ DOMAIN s = 1 .. Len(s)
           /\ Last(s) = s[Len(s)] /\ Last(s) \in F
           /\ Front(s) \in Seq(F) /\ Len(Front(s)) = Len(s) - 1
           /\ DOMAIN Front(s) = 1 .. Len(s) - 1
           /\ \A i \in 1 .. Len(s) - 1 : Front(s)[i] = s[i]
<1>1. Len(s) \in Nat /\ DOMAIN s = 1 .. Len(s) /\ \A i \in 1 .. Len(s) : s[i] \in F
  BY ElementOfSeq, LenProperties
<1>2. Len(s) # 0
  BY EmptySeq
<1>3. Len(s) \in Nat \ {0} /\ Last(s) = s[Len(s)] /\ s[Len(s)] \in F
  BY <1>1, <1>2 DEF Last
<1>4. /\ Front(s) \in Seq(F) /\ Len(Front(s)) = Len(s) - 1
      /\ \A i \in 1 .. Len(s) - 1 : Front(s)[i] = s[i]
  <2>. DEFINE n == Len(s) - 1
  <2>1. n \in Nat /\ \A i \in 1 .. n : s[i] \in F
    BY <1>1, <1>3
  <2>2. Front(s) = SubSeq(s, 1, n)
    BY DEF Front
  <2>. HIDE DEF n
  <2>3. /\ SubSeq(s, 1, n) \in Seq(F)
        /\ Len(SubSeq(s, 1, n)) = IF 1 <= n THEN n - 1 + 1 ELSE 0
        /\ \A i \in 1 .. n - 1 + 1 : SubSeq(s, 1, n)[i] = s[1 + i - 1]
    BY <2>1, SubSeqProperties
  <2>4. n - 1 + 1 = n /\ (IF 1 <= n THEN n - 1 + 1 ELSE 0) = n /\ \A i \in 1 .. n : 1 + i - 1 = i
    BY <2>1
  <2>5. /\ Len(SubSeq(s, 1, n)) = n
        /\ \A i \in 1 .. n : SubSeq(s, 1, n)[i] = s[i]
    BY <2>3, <2>4
  <2> QED
    BY <2>2, <2>3, <2>5 DEF n
<1>5. DOMAIN Front(s) = 1 .. Len(s) - 1
  BY <1>4, LenProperties
<1> QED
  BY <1>1, <1>3, <1>4, <1>5

LEMMA Appended ==
    ASSUME NEW F, NEW s \in Seq(F), NEW f \in F
    PROVE  /\ Append(s, f) \in Seq(F) /\ Append(s, f) # <<>>
           /\ Len(Append(s, f)) = Len(s) + 1 /\ Len(s) \in Nat
           /\ DOMAIN Append(s, f) = 1 .. Len(s) + 1
           /\ \A i \in 1 .. Len(s) : Append(s, f)[i] = s[i]
           /\ Append(s, f)[Len(s) + 1] = f
           /\ Last(Append(s, f)) = f
<1>1. /\ Append(s, f) \in Seq(F) /\ Append(s, f) # <<>>
      /\ Len(Append(s, f)) = Len(s) + 1 /\ Len(s) \in Nat
      /\ \A i \in 1 .. Len(s) : Append(s, f)[i] = s[i]
      /\ Append(s, f)[Len(s) + 1] = f
  BY AppendProperties, LenProperties
<1>2. DOMAIN Append(s, f) = 1 .. Len(s) + 1
  BY <1>1, LenProperties
<1> QED
  BY <1>1, <1>2 DEF Last

\* The elements of a sequence with one more.
LEMMA AppendedElements ==
    ASSUME NEW F, NEW s \in Seq(F), NEW f \in F
    PROVE  ToSet(Append(s, f)) = ToSet(s) \union {f}
<1>1. /\ DOMAIN Append(s, f) = 1 .. Len(s) + 1 /\ DOMAIN s = 1 .. Len(s) /\ Len(s) \in Nat
      /\ \A i \in 1 .. Len(s) : Append(s, f)[i] = s[i]
      /\ Append(s, f)[Len(s) + 1] = f
  BY Appended, LenProperties
<1>2. ASSUME NEW x \in ToSet(Append(s, f)) PROVE x \in ToSet(s) \union {f}
  <2>1. PICK i \in 1 .. Len(s) + 1 : x = Append(s, f)[i]
    BY <1>1 DEF ToSet
  <2>2. CASE i = Len(s) + 1
    BY <1>1, <2>1, <2>2
  <2>3. CASE i # Len(s) + 1
    <3>1. i \in 1 .. Len(s)
      BY <1>1, <2>3
    <3> QED
      BY <1>1, <2>1, <3>1 DEF ToSet
  <2> QED
    BY <2>2, <2>3
<1>3. ASSUME NEW x \in ToSet(s) PROVE x \in ToSet(Append(s, f))
  <2>1. PICK i \in 1 .. Len(s) : x = s[i]
    BY <1>1 DEF ToSet
  <2>2. i \in 1 .. Len(s) + 1 /\ Append(s, f)[i] = x
    BY <1>1, <2>1
  <2> QED
    BY <1>1, <2>2 DEF ToSet
<1>4. f \in ToSet(Append(s, f))
  <2>1. Len(s) + 1 \in 1 .. Len(s) + 1
    BY <1>1
  <2> QED
    BY <1>1, <2>1 DEF ToSet
<1> QED
  BY <1>2, <1>3, <1>4

\* A set of naturals has a least one.
LEMMA Smallest ==
    ASSUME NEW N, N \subseteq Nat, N # {}
    PROVE  \E n \in N : \A m \in N : n <= m
<1>. DEFINE R == OpToRel(<, Nat)
<1>1. IsWellFoundedOn(R, Nat)
  BY NatLessThanWellFounded
<1>2. \E n \in N : \A m \in N : <<m, n>> \notin R
  <2>. HIDE DEF R
  <2> QED
    BY <1>1, WFMin
<1>3. R = {p \in Nat \X Nat : p[1] < p[2]}
  BY DEF OpToRel
<1>4. \A m, n \in Nat : m < n => <<m, n>> \in R
  BY <1>3
<1>. HIDE DEF R
<1>5. \A n, m \in Nat : <<m, n>> \notin R => n <= m
  <2>1. ASSUME NEW n \in Nat, NEW m \in Nat, ~(n <= m) PROVE <<m, n>> \in R
    <3>1. m < n
      BY <2>1
    <3> QED
      BY <1>4, <3>1
  <2> QED
    BY <2>1
<1> QED
  BY <1>2, <1>5

\* The item behind the next ]]!: the first one after at, or the end of the line.
LEMMA NextElse ==
    ASSUME NEW line \in Lines, NEW at \in 1 .. Len(line)
    PROVE  \/ /\ BehindElse(line, at) = Len(line) + 1
              /\ \A e \in at + 1 .. Len(line) : line[e].sep # "else"
           \/ \E e \in at + 1 .. Len(line) :
                 /\ BehindElse(line, at) = e + 1 /\ line[e].sep = "else"
                 /\ NoElse(line, at + 1, e)
<1>. DEFINE elses == {k \in at + 1 .. Len(line) : line[k].sep = "else"}
<1>1. Len(line) \in Nat
  BY LineItems
<1>2. CASE elses = {}
  BY <1>2 DEF BehindElse
<1>3. CASE elses # {}
  <2>1. elses \in SUBSET Nat
    BY <1>1
  <2>2. \E e \in elses : \A j \in elses : e <= j
    <3>. HIDE DEF elses
    <3> QED
      BY <1>3, <2>1, Smallest
  <2>. DEFINE e == CHOOSE e \in elses : \A j \in elses : e <= j
  <2>3. e \in elses /\ \A j \in elses : e <= j
    BY <2>2
  <2>4. BehindElse(line, at) = 1 + e
    BY <1>3 DEF BehindElse
  <2>. HIDE DEF e
  <2>5. e \in at + 1 .. Len(line) /\ line[e].sep = "else"
    BY <2>3
  <2>6. ASSUME NEW j \in at + 1 .. e - 1 PROVE line[j].sep # "else"
    BY <1>1, <2>3, <2>5
  <2>7. BehindElse(line, at) = e + 1
    BY <1>1, <2>4, <2>5
  <2> QED
    BY <2>5, <2>6, <2>7 DEF NoElse
<1> QED
  BY <1>2, <1>3

-----------------------------------------------------------------------------
(***************************************************************************)
(* An item of a line is done.                                              *)
(***************************************************************************)

\* The call f after the item it is at returned r, with wenv_flags fl.
After(f, r, fl) ==
    [f EXCEPT !.at = NextItem(f.line, f.at, r, fl),
              !.ran = Append(@, [at |-> f.at, ret |-> r])]

\* Where the line goes on behind the item at p: at q, behind its end or behind an else.
GoesOn(line, n, p, r, fl, q) ==
    /\ q \in Nat /\ p < q /\ q =< n + 1
    /\ fl # "none" \/ line[p].sep = "else" => q = n + 1
    /\ q =< n /\ NoElse(line, p + 1, q) => q = p + 1 /\ Passes(line[p].sep, r)
    /\ q =< n /\ q # p + 1 => line[q - 1].sep = "else" /\ p < q - 1
    /\ /\ fl = "none" /\ line[p].sep \in {"and", "or"}
       /\ p + 1 < n /\ line[p + 1].sep = "else"
       => q \in {p + 1, p + 2}

LEMMA NextPlace ==
    ASSUME NEW line \in Lines, NEW n, n = Len(line), NEW p \in 1 .. n,
           NEW r \in BOOLEAN, NEW fl \in Flags, NEW q, q = NextItem(line, p, r, fl)
    PROVE  GoesOn(line, n, p, r, fl, q)
<1>. DEFINE sep == line[p].sep
<1>. USE DEF GoesOn
<1>1. n \in Nat /\ p \in Nat
  BY LineItems
<1>2. CASE fl # "none" \/ sep = "else"
  <2>1. q = n + 1
    BY <1>2 DEF NextItem
  <2> QED
    BY <1>1, <1>2, <2>1
<1>3. CASE ~(fl # "none" \/ sep = "else") /\ Passes(sep, r)
  <2>1. q = p + 1
    BY <1>3 DEF NextItem
  <2> QED
    BY <1>1, <1>3, <2>1
<1>4. CASE ~(fl # "none" \/ sep = "else") /\ ~Passes(sep, r)
  <2>1. q = BehindElse(line, p)
    BY <1>4 DEF NextItem
  <2>2. CASE /\ BehindElse(line, p) = n + 1
             /\ \A e \in p + 1 .. n : line[e].sep # "else"
    <3>1. p + 1 < n => line[p + 1].sep # "else"
      BY <1>1, <2>2
    <3> QED
      BY <1>1, <1>4, <2>1, <2>2, <3>1
  <2>3. ASSUME NEW e \in p + 1 .. n, BehindElse(line, p) = e + 1, line[e].sep = "else",
               NoElse(line, p + 1, e)
        PROVE  /\ q \in Nat /\ p < q /\ q =< n + 1
               /\ ~NoElse(line, p + 1, q) /\ line[q - 1].sep = "else" /\ p < q - 1
               /\ p + 1 < n /\ line[p + 1].sep = "else" => q = p + 2
    <3>1. q = e + 1 /\ q - 1 = e /\ e \in Nat
      BY <1>1, <2>1, <2>3
    <3>2. e \in p + 1 .. q - 1
      BY <1>1, <3>1
    <3>3. ~NoElse(line, p + 1, q)
      BY <2>3, <3>2 DEF NoElse
    <3>4. line[p + 1].sep = "else" => e = p + 1
      <4>1. e # p + 1 => p + 1 \in p + 1 .. e - 1
        BY <1>1
      <4> QED
        BY <2>3, <4>1 DEF NoElse
    <3> QED
      BY <1>1, <2>3, <3>1, <3>3, <3>4
  <2> QED
    BY <1>1, <1>4, <2>2, <2>3, NextElse
<1> QED
  BY <1>2, <1>3, <1>4

\* A call of wenv_func, field by field.
LEMMA LineCallFields ==
    ASSUME NEW f \in LineCalls
    PROVE  /\ f.kind = "line" /\ f.line \in Lines /\ f.at \in Nat \ {0}
           /\ f.ran \in Seq(Outcomes)
           /\ f = [kind |-> "line", line |-> f.line, at |-> f.at, ran |-> f.ran]
<1>1. f.kind = "line"
  BY DEF LineCalls
<1>2. f.line \in Lines
  BY DEF LineCalls
<1>3. f.at \in Nat \ {0}
  BY DEF LineCalls
<1>4. f.ran \in Seq(Outcomes)
  BY DEF LineCalls
<1>5. f = [kind |-> f.kind, line |-> f.line, at |-> f.at, ran |-> f.ran]
  BY DEF LineCalls
<1> QED
  BY <1>1, <1>2, <1>3, <1>4, <1>5

\* A call with another place and other items that ran.
LEMMA FieldsChanged ==
    ASSUME NEW l, NEW a, NEW b, NEW x, NEW y, NEW f,
           f = [kind |-> "line", line |-> l, at |-> a, ran |-> b]
    PROVE  [f EXCEPT !.at = x, !.ran = y] = [kind |-> "line", line |-> l, at |-> x, ran |-> y]
<1>. DEFINE h == [f EXCEPT !.at = x, !.ran = y]
            g == [kind |-> "line", line |-> l, at |-> x, ran |-> y]
<1>1. /\ DOMAIN h = {"kind", "line", "at", "ran"}
      /\ DOMAIN g = {"kind", "line", "at", "ran"}
  OBVIOUS
<1>2. h = [k \in DOMAIN h |-> h[k]]
  OBVIOUS
<1>3. g = [k \in DOMAIN g |-> g[k]]
  OBVIOUS
<1>4. h.kind = g.kind /\ h.line = g.line /\ h.at = g.at /\ h.ran = g.ran
  OBVIOUS
<1>. HIDE DEF h, g
<1>5. \A k \in DOMAIN h : h[k] = g[k]
  BY <1>1, <1>4
<1>6. h = g
  BY <1>1, <1>2, <1>3, <1>5
<1> QED
  BY <1>6 DEF h, g

LEMMA AfterFields ==
    ASSUME NEW f \in LineCalls, NEW r, NEW fl
    PROVE  After(f, r, fl) =
              [kind |-> "line", line |-> f.line, at |-> NextItem(f.line, f.at, r, fl),
               ran |-> Append(f.ran, [at |-> f.at, ret |-> r])]
<1>2. f = [kind |-> "line", line |-> f.line, at |-> f.at, ran |-> f.ran]
  BY LineCallFields
<1>. DEFINE x == NextItem(f.line, f.at, r, fl)
            o == [at |-> f.at, ret |-> r]
            l == f.line
            a == f.at
            b == f.ran
            y == Append(b, o)
<1>3. After(f, r, fl) = [f EXCEPT !.at = x, !.ran = y]
  BY DEF After
<1>4. f = [kind |-> "line", line |-> l, at |-> a, ran |-> b]
  BY <1>2
<1>. HIDE DEF x, o, l, a, b, y
<1>5. After(f, r, fl) = [kind |-> "line", line |-> l, at |-> x, ran |-> y]
  BY <1>3, <1>4, FieldsChanged
<1> QED
  BY <1>5 DEF x, o, l, a, b, y

\* What ran is in order when the item is done.
LEMMA ItemDone ==
    ASSUME NEW f \in LineCalls, RanOK(f), AlternativeOK(f, FALSE), f.at =< Len(f.line),
           NEW r \in BOOLEAN, NEW fl \in Flags
    PROVE  /\ After(f, r, fl) \in LineCalls /\ CallOK(After(f, r, fl), FALSE, fl)
           /\ After(f, r, fl).kind = "line" /\ After(f, r, fl).line = f.line
           /\ fl # "none" => After(f, r, fl).at > Len(f.line)
<1>. DEFINE g == After(f, r, fl)
            line == f.line
            p == f.at
            q == NextItem(line, p, r, fl)
            n == Len(line)
            R == RanAt(f)
<1>1. /\ line \in Lines /\ p \in Nat \ {0} /\ f.kind = "line"
      /\ f.ran \in Seq(Outcomes)
      /\ n \in Nat /\ p \in 1 .. n
  BY LineItems, LineCallFields
<1>2. /\ q \in Nat /\ p < q /\ q =< n + 1
      /\ fl # "none" \/ line[p].sep = "else" => q = n + 1
      /\ q =< n /\ NoElse(line, p + 1, q) => q = p + 1 /\ Passes(line[p].sep, r)
      /\ q =< n /\ q # p + 1 => line[q - 1].sep = "else" /\ p < q - 1
      /\ /\ fl = "none" /\ line[p].sep \in {"and", "or"}
         /\ p + 1 < n /\ line[p + 1].sep = "else"
         => q \in {p + 1, p + 2}
  <2>1. line \in Lines /\ n = Len(line) /\ p \in 1 .. n /\ q = NextItem(line, p, r, fl)
    BY <1>1
  <2>. HIDE DEF line, p, q, n, g, R
  <2>2. GoesOn(line, n, p, r, fl, q)
    BY <2>1, NextPlace
  <2> QED
    BY <2>2 DEF GoesOn
<1>3. /\ g.kind = "line" /\ g.line = line /\ g.at = q
      /\ g.ran = Append(f.ran, [at |-> p, ret |-> r])
      /\ g = [kind |-> "line", line |-> line, at |-> q, ran |-> g.ran]
  BY AfterFields
<1>4. [at |-> p, ret |-> r] \in Outcomes
  BY <1>1 DEF Outcomes
<1>5. g.ran \in Seq(Outcomes)
  BY <1>1, <1>3, <1>4, Appended
<1>6. g \in LineCalls
  <2>1. q \in Nat \ {0}
    BY <1>1, <1>2
  <2>. HIDE DEF g, q, line
  <2> QED
    BY <1>1, <1>3, <1>5, <2>1 DEF LineCalls
<1>7. ToSet(g.ran) = ToSet(f.ran) \union {[at |-> p, ret |-> r]}
  BY <1>1, <1>3, <1>4, AppendedElements
<1>8. RanAt(g) = R \union {p}
  <2>1. RanAt(g) = {x.at : x \in ToSet(g.ran)} /\ R = {x.at : x \in ToSet(f.ran)}
    BY DEF RanAt
  <2>. DEFINE o == [at |-> p, ret |-> r]
              G == ToSet(g.ran)
              H == ToSet(f.ran)
  <2>2. G = H \union {o} /\ o.at = p
    BY <1>7
  <2>3. {x.at : x \in G} = {x.at : x \in H} \union {o.at}
    <3>. HIDE DEF o, G, H
    <3> QED
      BY <2>2
  <2> QED
    BY <2>1, <2>2, <2>3
<1>9. /\ \A k, v : Returned(f, k, v) => Returned(g, k, v)
      /\ Returned(g, p, r)
  BY <1>7 DEF Returned
<1>10. \A k \in R : k \in Nat \ {0} /\ k < p
  <2>1. \A x \in ToSet(f.ran) : x.at \in Nat \ {0}
    <3>1. \A i \in DOMAIN f.ran : f.ran[i] \in Outcomes
      BY <1>1, LenProperties, ElementOfSeq
    <3> QED
      BY <3>1 DEF ToSet, Outcomes
  <2>2. \A k \in R : k \in Nat \ {0}
    BY <2>1 DEF RanAt
  <2> QED
    BY <2>2 DEF RanOK
<1>11. /\ \A k \in R, j \in R \union {p} : k < j /\ j =< n /\ NoElse(line, k + 1, j) => Passed(f, k)
       /\ \A k \in R : k < n /\ line[k].sep = "else" => k + 1 \notin R \union {p}
       /\ \A k \in R : /\ line[k].sep \in {"and", "or"}
                       /\ k + 1 < n /\ line[k + 1].sep = "else"
                       => {k + 1, k + 2} \cap (R \union {p}) # {}
  BY DEF RanOK, AlternativeOK
<1>12. \A k \in R : Passed(f, k) => Passed(g, k)
  BY <1>3, <1>9 DEF Passed
<1>. HIDE DEF g, q, p, R, n, line
<1>13. ASSUME NEW k \in R \union {p}, NEW j \in R \union {p, q},
              k < j, j =< n, NoElse(line, k + 1, j)
       PROVE  Passed(g, k)
  <2>1. CASE k = p
    <3>1. j = q
      <4>1. p \in Nat /\ \A x \in R : x \in Nat /\ x < p
        BY <1>1, <1>10
      <4>2. ~(p < p) /\ \A x \in R : ~(p < x)
        BY <4>1
      <4>3. p < j
        BY <1>13, <2>1
      <4> QED
        BY <1>13, <4>2, <4>3, Zenon
    <3>2. Passes(line[p].sep, r)
      BY <1>2, <1>13, <2>1, <3>1
    <3> QED
      BY <1>3, <1>9, <2>1, <3>2 DEF Passed
  <2>2. CASE k \in R /\ j # q
    BY <1>11, <1>12, <1>13, <2>2
  <2>3. CASE k \in R /\ j = q
    <3>1. q - 1 \in k + 1 .. q - 1 /\ p \in k + 1 .. q - 1
      BY <1>1, <1>2, <1>10, <2>3
    <3>2. NoElse(line, k + 1, p)
      <4>1. \A e \in k + 1 .. p - 1 : e \in k + 1 .. j - 1
        BY <1>1, <1>2, <1>10, <2>3
      <4> QED
        BY <1>13, <4>1 DEF NoElse
    <3>3. k < p /\ p =< n
      BY <1>1, <1>10, <2>3
    <3> QED
      BY <1>11, <1>12, <2>3, <3>2, <3>3
  <2> QED
    BY <1>13, <2>1, <2>2, <2>3
<1>14. ASSUME NEW k \in R \union {p}, k < n, line[k].sep = "else"
       PROVE  k + 1 \notin R \union {p, q}
  <2>1. CASE k = p
    BY <1>1, <1>2, <1>10, <1>14, <2>1
  <2>2. CASE k \in R
    <3>1. k + 1 \notin R \union {p}
      BY <1>11, <1>14, <2>2
    <3>2. k + 1 # q
      BY <1>1, <1>2, <1>10, <2>2
    <3> QED
      BY <3>1, <3>2
  <2> QED
    BY <1>14, <2>1, <2>2
<1>15. RanOK(g)
  <2>1. q =< Len(g.line) + 1
    BY <1>2, <1>3 DEF n
  <2>2. \A k \in R \union {p} : k < q
    BY <1>1, <1>2, <1>10
  <2>3. RanAt(g) \union {g.at} = R \union {p, q}
    BY <1>3, <1>8
  <2>4. Len(g.line) = n
    BY <1>3 DEF n
  <2> QED
    BY <1>3, <1>8, <1>13, <1>14, <2>1, <2>2, <2>3, <2>4 DEF RanOK
<1>16. AlternativeOK(g, fl # "none" /\ g.at > Len(g.line))
  <2>1. ASSUME NEW k \in R \union {p}, line[k].sep \in {"and", "or"},
               k + 1 < n, line[k + 1].sep = "else"
        PROVE  (fl # "none" /\ q > n) \/ {k + 1, k + 2} \cap (R \union {p, q}) # {}
    <3>1. CASE k \in R
      BY <1>11, <2>1, <3>1
    <3>2. CASE k = p /\ fl = "none"
      BY <1>2, <2>1, <3>2
    <3>3. CASE k = p /\ fl # "none"
      BY <1>1, <1>2, <3>3
    <3> QED
      BY <2>1, <3>1, <3>2, <3>3
  <2>2. Len(g.line) = n
    BY <1>3 DEF n
  <2>3. RanAt(g) \union {g.at} = R \union {p, q}
    BY <1>3, <1>8
  <2> QED
    BY <1>3, <1>8, <2>1, <2>2, <2>3 DEF AlternativeOK
<1>17. fl # "none" => g.at > n
  BY <1>1, <1>2, <1>3
<1>18. CallOK(g, FALSE, fl)
  BY <1>3, <1>15, <1>16 DEF CallOK
<1> QED
  BY <1>3, <1>6, <1>17, <1>18 DEF g, n, line

-----------------------------------------------------------------------------
(***************************************************************************)
(* The stack after a call, a return and a step of the last call.           *)
(***************************************************************************)

\* The two kinds of calls.
LEMMA CallKinds ==
    ASSUME NEW f \in Calls
    PROVE  /\ f.kind = "line" => f \in LineCalls /\ f.at \in Nat /\ Len(f.line) \in Nat
           /\ f.kind # "line" => /\ f \in LoopCalls /\ f.kind = "loop"
                                 /\ f.left \in Nat /\ f.cut \in Nat
<1>1. CASE f \in LineCalls
  BY <1>1, LineCallFields, LineItems
<1>2. CASE f \in LoopCalls
  <2>1. f.kind = "loop"
    BY <1>2 DEF LoopCalls
  <2>2. f.left \in Nat /\ f.cut \in Nat
    BY <1>2, LinesAssumption DEF LoopCalls
  <2> QED
    BY <1>2, <2>1, <2>2
<1> QED
  BY <1>1, <1>2 DEF Calls

\* A call that waits does not depend on wenv_flags.
LEMMA Waiting ==
    ASSUME NEW f \in Calls, NEW fl, CallOK(f, TRUE, fl)
    PROVE  \A w, g : CallOK(f, w, g)
<1>1. CASE f.kind = "line"
  <2>1. f.at =< Len(f.line) /\ ~(f.at > Len(f.line))
    BY <1>1, CallKinds DEF CallOK
  <2>2. RanOK(f) /\ AlternativeOK(f, FALSE)
    BY <1>1, <2>1 DEF CallOK, AlternativeOK
  <2> QED
    BY <1>1, <2>1, <2>2 DEF CallOK, AlternativeOK
<1>2. CASE f.kind # "line"
  BY <1>2 DEF CallOK
<1> QED
  BY <1>1, <1>2

\* The calls on the stack: those below the last one wait.
LEMMA StackCalls ==
    ASSUME StateOK, CallsOK, stack # <<>>
    PROVE  /\ Len(stack) \in Nat \ {0} /\ DOMAIN stack = 1 .. Len(stack)
           /\ Top = stack[Len(stack)] /\ Top \in Calls
           /\ CallOK(Top, phase = "returned", flags)
           /\ Below \in Seq(Calls) /\ Len(Below) = Len(stack) - 1
           /\ DOMAIN Below = 1 .. Len(stack) - 1
           /\ \A i \in 1 .. Len(stack) - 1 :
                 Below[i] = stack[i] /\ stack[i] \in Calls /\ \A w, g : CallOK(stack[i], w, g)
<1>1. /\ Len(stack) \in Nat \ {0} /\ DOMAIN stack = 1 .. Len(stack)
      /\ Top = stack[Len(stack)] /\ Top \in Calls
      /\ Below \in Seq(Calls) /\ Len(Below) = Len(stack) - 1
      /\ DOMAIN Below = 1 .. Len(stack) - 1
      /\ \A i \in 1 .. Len(stack) - 1 : Below[i] = stack[i]
  BY StackParts DEF StateOK, Top, Below
<1>2. CallOK(Top, phase = "returned", flags)
  <2>1. Len(stack) \in DOMAIN stack /\ ~(Len(stack) < Len(stack))
    BY <1>1
  <2>2. CallOK(stack[Len(stack)], Len(stack) < Len(stack) \/ phase = "returned", flags)
    BY <2>1 DEF CallsOK
  <2>3. (Len(stack) < Len(stack) \/ phase = "returned") = (phase = "returned")
    BY <2>1
  <2> QED
    BY <1>1, <2>2, <2>3
<1>3. ASSUME NEW i \in 1 .. Len(stack) - 1
      PROVE  stack[i] \in Calls /\ \A w, g : CallOK(stack[i], w, g)
  <2>1. i \in DOMAIN stack /\ i < Len(stack)
    BY <1>1
  <2>2. stack[i] \in Calls
    BY <2>1, LenProperties, ElementOfSeq DEF StateOK
  <2>3. CallOK(stack[i], i < Len(stack) \/ phase = "returned", flags)
    BY <2>1 DEF CallsOK
  <2>4. (i < Len(stack) \/ phase = "returned") = TRUE
    BY <2>1
  <2>5. CallOK(stack[i], TRUE, flags)
    BY <2>3, <2>4
  <2> QED
    BY <2>2, <2>5, Waiting
<1> QED
  BY <1>1, <1>2, <1>3

\* The last call goes on.
LEMMA Replaced ==
    ASSUME StateOK, CallsOK, stack # <<>>, NEW g \in Calls, stack' = Append(Below, g),
           CallOK(g, phase' = "returned", flags')
    PROVE  /\ CallsOK' /\ stack' \in Seq(Calls) /\ stack' # <<>> /\ Top' = g
           /\ Len(stack') = Len(stack) /\ stack'[Len(stack)] = g
           /\ g.kind = Top.kind => LoopsOf(stack') = LoopsOf(stack)
<1>. DEFINE n == Len(stack)
<1>1. /\ n \in Nat \ {0} /\ DOMAIN stack = 1 .. n /\ Top = stack[n]
      /\ Below \in Seq(Calls) /\ Len(Below) = n - 1
      /\ \A i \in 1 .. n - 1 :
            Below[i] = stack[i] /\ stack[i] \in Calls /\ \A w, h : CallOK(stack[i], w, h)
  BY StackCalls
<1>2. /\ stack' \in Seq(Calls) /\ stack' # <<>> /\ Len(stack') = n - 1 + 1
      /\ DOMAIN stack' = 1 .. n - 1 + 1
      /\ \A i \in 1 .. n - 1 : stack'[i] = Below[i]
      /\ stack'[n - 1 + 1] = g /\ Top' = g
  <2>1. Below \in Seq(Calls) /\ Len(Below) = n - 1
    BY <1>1
  <2>. HIDE DEF n
  <2>2. /\ Append(Below, g) \in Seq(Calls) /\ Append(Below, g) # <<>>
        /\ Len(Append(Below, g)) = Len(Below) + 1
        /\ DOMAIN Append(Below, g) = 1 .. Len(Below) + 1
        /\ \A i \in 1 .. Len(Below) : Append(Below, g)[i] = Below[i]
        /\ Append(Below, g)[Len(Below) + 1] = g
        /\ Last(Append(Below, g)) = g
    BY <2>1, Appended
  <2>3. Top' = Last(Append(Below, g))
    BY DEF Top
  <2> QED
    BY <2>1, <2>2, <2>3
<1>. HIDE DEF n
<1>3. n - 1 + 1 = n
  BY <1>1
<1>4. \A i \in DOMAIN stack' : i = n \/ (i \in 1 .. n - 1 /\ stack'[i] = stack[i])
  BY <1>1, <1>2, <1>3
<1>5. ASSUME NEW i \in DOMAIN stack'
      PROVE  CallOK(stack'[i], i < Len(stack') \/ phase' = "returned", flags')
  <2>1. CASE i = n
    <3>1. (i < Len(stack') \/ phase' = "returned") = (phase' = "returned")
      BY <1>1, <1>2, <1>3, <2>1
    <3> QED
      BY <1>2, <1>3, <2>1, <3>1
  <2>2. CASE i # n
    BY <1>1, <1>4, <2>2
  <2> QED
    BY <2>1, <2>2
<1>6. CallsOK'
  BY <1>5 DEF CallsOK
<1>7. ASSUME g.kind = Top.kind PROVE LoopsOf(stack') = LoopsOf(stack)
  <2>1. \A i \in 1 .. n : stack'[i].kind = stack[i].kind
    BY <1>1, <1>2, <1>3, <1>4, <1>7
  <2> QED
    BY <1>1, <1>2, <1>3, <2>1 DEF LoopsOf
<1> QED
  BY <1>2, <1>3, <1>6, <1>7 DEF n

\* A call is made by the last one, which waits for it.
LEMMA Pushed ==
    ASSUME StateOK, CallsOK, stack # <<>>, CallOK(Top, TRUE, flags),
           NEW g \in Calls, stack' = Append(stack, g), CallOK(g, phase' = "returned", flags')
    PROVE  /\ CallsOK' /\ stack' \in Seq(Calls) /\ stack' # <<>> /\ Top' = g
           /\ Len(stack') = Len(stack) + 1
<1>. DEFINE n == Len(stack)
<1>1. /\ n \in Nat \ {0} /\ DOMAIN stack = 1 .. n /\ Top = stack[n]
      /\ \A i \in 1 .. n - 1 : \A w, h : CallOK(stack[i], w, h)
      /\ \A w, h : CallOK(stack[n], w, h)
  BY StackCalls, Waiting
<1>2. /\ stack' \in Seq(Calls) /\ stack' # <<>> /\ Len(stack') = n + 1
      /\ DOMAIN stack' = 1 .. n + 1
      /\ \A i \in 1 .. n : stack'[i] = stack[i]
      /\ stack'[n + 1] = g /\ Top' = g
  BY Appended DEF StateOK, Top
<1>. HIDE DEF n
<1>3. ASSUME NEW i \in DOMAIN stack'
      PROVE  CallOK(stack'[i], i < Len(stack') \/ phase' = "returned", flags')
  <2>1. CASE i = n + 1
    <3>1. (i < Len(stack') \/ phase' = "returned") = (phase' = "returned")
      BY <1>1, <1>2, <2>1
    <3> QED
      BY <1>2, <2>1, <3>1
  <2>2. CASE i # n + 1
    <3>1. i \in 1 .. n /\ (i = n \/ i \in 1 .. n - 1)
      BY <1>1, <1>2, <2>2
    <3> QED
      BY <1>1, <1>2, <3>1
  <2> QED
    BY <2>1, <2>2
<1> QED
  BY <1>2, <1>3 DEF CallsOK, n

\* The last call returns.
LEMMA Popped ==
    ASSUME StateOK, CallsOK, stack # <<>>, stack' = Below
    PROVE  /\ CallsOK' /\ stack' \in Seq(Calls) /\ Len(stack') = Len(stack) - 1
           /\ Top.kind # "loop" => LoopsOf(stack') = LoopsOf(stack)
<1>. DEFINE n == Len(stack)
<1>1. /\ n \in Nat \ {0} /\ DOMAIN stack = 1 .. n /\ Top = stack[n]
      /\ stack' \in Seq(Calls) /\ Len(stack') = n - 1 /\ DOMAIN stack' = 1 .. n - 1
      /\ \A i \in 1 .. n - 1 : stack'[i] = stack[i] /\ \A w, h : CallOK(stack[i], w, h)
  BY StackCalls
<1>. HIDE DEF n
<1>2. CallsOK'
  BY <1>1 DEF CallsOK
<1>3. ASSUME Top.kind # "loop" PROVE LoopsOf(stack') = LoopsOf(stack)
  <2>1. \A i \in 1 .. n : i \in 1 .. n - 1 \/ i = n
    BY <1>1
  <2>2. \A i \in 1 .. n - 1 : i \in 1 .. n
    BY <1>1
  <2> QED
    BY <1>1, <1>3, <2>1, <2>2 DEF LoopsOf
<1> QED
  BY <1>1, <1>2, <1>3 DEF n

-----------------------------------------------------------------------------
(***************************************************************************)
(* The actions.                                                            *)
(***************************************************************************)

\* The number of loops on the stack.
LEMMA LoopsType ==
    ASSUME StateOK PROVE Loops \in Nat
<1>1. Len(stack) \in Nat /\ DOMAIN stack = 1 .. Len(stack)
  BY LenProperties DEF StateOK
<1>2. IsFiniteSet(1 .. Len(stack))
  BY <1>1, FS_Interval
<1>3. LoopsOf(stack) \subseteq 1 .. Len(stack)
  BY <1>1 DEF LoopsOf
<1>4. IsFiniteSet(LoopsOf(stack))
  BY <1>2, <1>3, FS_Subset
<1> QED
  BY <1>4, FS_CardinalityType DEF Loops

\* Whatever begins, begins without break or continue on its way.
LEMMA Started ==
    ASSUME LineIInv, HasItem, phase = "run"
    PROVE  flags = "none"
  BY DEF LineIInv, OnlyLeaving, HasItem, InLine, InLoop

\* An item of the line on top.
LEMMA ItemTypes ==
    ASSUME StateOK, CallsOK, InLine, Top.at =< Len(Top.line)
    PROVE  /\ stack # <<>> /\ Top \in LineCalls /\ Top.kind = "line"
           /\ Top.at \in 1 .. Len(Top.line)
           /\ Item.op \in {"command", "break", "continue", "group", "for", "check", "read"}
           /\ Item.body \in Lines
           /\ RanOK(Top) /\ AlternativeOK(Top, FALSE)
           /\ CallOK(Top, TRUE, flags)
<1>1. stack # <<>> /\ Top.kind = "line" /\ Top \in Calls /\ CallOK(Top, phase = "returned", flags)
  BY StackCalls DEF InLine
<1>2. Top \in LineCalls /\ Top.line \in Lines /\ Top.at \in Nat \ {0} /\ Len(Top.line) \in Nat
  BY <1>1, CallKinds, LineCallFields, LineItems
<1>3. Top.at \in 1 .. Len(Top.line)
  BY <1>2
<1>4. Item.op \in {"command", "break", "continue", "group", "for", "check", "read"} /\ Item.body \in Lines
  BY <1>2, <1>3, LineItems DEF Item
<1>5. ~(Top.at > Len(Top.line))
  BY <1>2, <1>3
<1>6. RanOK(Top) /\ AlternativeOK(Top, FALSE)
  BY <1>1, <1>5 DEF CallOK, AlternativeOK
<1> QED
  BY <1>1, <1>2, <1>3, <1>4, <1>6 DEF CallOK

\* The line on top after an item returned r, with the error e and wenv_flags fl.
LEMMA ProceedKeeps ==
    ASSUME StateOK, CallsOK, InLine, Top.at =< Len(Top.line),
           NEW r \in BOOLEAN, NEW e \in BOOLEAN, NEW fl \in Flags, Proceed(stack, r, e, fl),
           program' = program, loose' \in BOOLEAN, level' \in Nat
    PROVE  /\ StateOK' /\ CallsOK' /\ OnlyLeaving' /\ flags' = fl /\ ret' = r
           /\ errnum' = ErrorAfter(Item.sep, e, fl)
           /\ Loops' = Loops /\ Len(stack') = Len(stack)
           /\ fl # "none" => stack'[Len(stack)].at > Len(Top.line)
<1>. DEFINE g == After(Top, r, fl)
<1>1. /\ stack # <<>> /\ Top \in LineCalls /\ Top.kind = "line"
      /\ RanOK(Top) /\ AlternativeOK(Top, FALSE)
  BY ItemTypes
<1>2. /\ g \in LineCalls /\ CallOK(g, FALSE, fl) /\ g.kind = "line" /\ g.line = Top.line
      /\ fl # "none" => g.at > Len(Top.line)
  BY <1>1, ItemDone
<1>3. stack' = Append(Below, g)
  BY DEF Proceed, After, Top, Below
<1>4. /\ errnum' = ErrorAfter(Item.sep, e, fl)
      /\ ret' = r /\ flags' = fl /\ phase' = "run"
  BY DEF Proceed, Item, Top
<1>. HIDE DEF g
<1>5. g \in Calls /\ CallOK(g, phase' = "returned", flags')
  BY <1>2, <1>4 DEF Calls
<1>6. /\ CallsOK' /\ stack' \in Seq(Calls) /\ stack' # <<>> /\ Top' = g
      /\ Len(stack') = Len(stack) /\ stack'[Len(stack)] = g
      /\ LoopsOf(stack') = LoopsOf(stack)
  BY <1>1, <1>2, <1>3, <1>5, Replaced
<1>7. errnum' \in BOOLEAN
  BY <1>4 DEF ErrorAfter
<1>8. StateOK'
  BY <1>4, <1>6, <1>7 DEF StateOK
<1>9. OnlyLeaving'
  <2>1. fl # "none" => ~(g.at <= Len(g.line))
    <3>1. g.at \in Nat /\ Len(g.line) \in Nat
      BY <1>2, LineCallFields, LineItems
    <3> QED
      BY <1>2, <3>1
  <2>2. fl # "none" => ~HasItem'
    BY <1>6, <2>1 DEF HasItem
  <2> QED
    BY <1>4, <2>2 DEF OnlyLeaving
<1>10. Loops' = Loops
  BY <1>6 DEF Loops
<1> QED
  BY <1>2, <1>4, <1>6, <1>8, <1>9, <1>10

LEMMA RunCommandKeeps == LineIInv /\ RunCommand => LineIInv' /\ OnlyLeaves
<1> SUFFICES ASSUME LineIInv, RunCommand PROVE LineIInv' /\ OnlyLeaves
  OBVIOUS
<1>1. PICK r \in BOOLEAN, e \in BOOLEAN :
         /\ Proceed(stack, r, e, flags)
         /\ loose' = (loose \/ Unhandled(e, flags))
  BY DEF RunCommand
<1>2. HasItem /\ phase = "run" /\ program' = program /\ level' = level
  BY DEF RunCommand
<1>3. flags = "none" /\ StateOK /\ CallsOK /\ (errnum => loose)
  BY <1>2, Started DEF LineIInv
<1>4. InLine /\ Top.at =< Len(Top.line) /\ e \in BOOLEAN /\ flags \in Flags /\ level' \in Nat
      /\ loose' \in BOOLEAN
  BY <1>1, <1>2, <1>3 DEF HasItem, StateOK, Unhandled
<1>5. /\ StateOK' /\ CallsOK' /\ OnlyLeaving' /\ flags' = flags
      /\ errnum' = ErrorAfter(Item.sep, e, flags)
  BY <1>1, <1>2, <1>3, <1>4, ProceedKeeps
<1>6. errnum' => loose'
  BY <1>1, <1>5 DEF ErrorAfter, Unhandled
<1>7. LoopContained'
  BY <1>3, <1>5 DEF LoopContained
<1> QED
  BY <1>3, <1>5, <1>6, <1>7 DEF LineIInv, OnlyLeaves

LEMMA FailCommandKeeps == LineIInv /\ FailCommand => LineIInv' /\ OnlyLeaves
<1> SUFFICES ASSUME LineIInv, FailCommand PROVE LineIInv' /\ OnlyLeaves
  OBVIOUS
<1>1. PICK e \in BOOLEAN :
         /\ Proceed(stack, FALSE, e, flags)
         /\ loose' = (loose \/ Unhandled(e, flags))
  BY DEF FailCommand
<1>2. HasItem /\ phase = "run" /\ program' = program /\ level' = level
  BY DEF FailCommand
<1>3. flags = "none" /\ StateOK /\ CallsOK
  BY <1>2, Started DEF LineIInv
<1>4. InLine /\ Top.at =< Len(Top.line) /\ e \in BOOLEAN /\ flags \in Flags /\ level' \in Nat
      /\ loose' \in BOOLEAN /\ FALSE \in BOOLEAN
  BY <1>1, <1>2, <1>3 DEF HasItem, StateOK, Unhandled
<1>5. /\ StateOK' /\ CallsOK' /\ OnlyLeaving' /\ flags' = flags
      /\ errnum' = ErrorAfter(Item.sep, e, flags)
  BY <1>1, <1>2, <1>3, <1>4, ProceedKeeps
<1>6. errnum' => loose'
  BY <1>1, <1>5 DEF ErrorAfter, Unhandled
<1>7. LoopContained'
  BY <1>3, <1>5 DEF LoopContained
<1> QED
  BY <1>3, <1>5, <1>6, <1>7 DEF LineIInv, OnlyLeaves

LEMMA ReadCommandsKeeps == LineIInv /\ ReadCommands => LineIInv' /\ OnlyLeaves
<1> SUFFICES ASSUME LineIInv, ReadCommands PROVE LineIInv' /\ OnlyLeaves
  OBVIOUS
<1>1. PICK r \in BOOLEAN, e \in BOOLEAN, f \in Flags :
         /\ Proceed(stack, r, e, f)
         /\ level' = IF f = "none" THEN level ELSE Loops
         /\ loose' = (loose \/ Unhandled(e, f))
  BY DEF ReadCommands, Flags
<1>2. HasItem /\ phase = "run" /\ program' = program
  BY DEF ReadCommands
<1>3. flags = "none" /\ StateOK /\ CallsOK
  BY <1>2, Started DEF LineIInv
<1>4. InLine /\ Top.at =< Len(Top.line) /\ level' \in Nat /\ loose' \in BOOLEAN
  BY <1>1, <1>2, <1>3, LoopsType DEF HasItem, StateOK, Unhandled
<1>5. /\ StateOK' /\ CallsOK' /\ OnlyLeaving' /\ flags' = f /\ Loops' = Loops
      /\ errnum' = ErrorAfter(Item.sep, e, f)
  BY <1>1, <1>2, <1>3, <1>4, ProceedKeeps
<1>6. errnum' => loose'
  BY <1>1, <1>5 DEF ErrorAfter, Unhandled
<1>7. LoopContained'
  BY <1>1, <1>5 DEF LoopContained
<1> QED
  BY <1>3, <1>5, <1>6, <1>7 DEF LineIInv, OnlyLeaves

LEMMA LeaveRoundKeeps == LineIInv /\ LeaveRound => LineIInv' /\ OnlyLeaves
<1> SUFFICES ASSUME LineIInv, LeaveRound PROVE LineIInv' /\ OnlyLeaves
  OBVIOUS
<1>1. /\ HasItem /\ phase = "run" /\ program' = program /\ level' = Loops /\ loose' = loose
      /\ Proceed(stack, TRUE, errnum, Item.op) /\ Item.op \in {"break", "continue"}
  BY DEF LeaveRound
<1>2. flags = "none" /\ StateOK /\ CallsOK /\ (errnum => loose)
  BY <1>1, Started DEF LineIInv
<1>3. InLine /\ Top.at =< Len(Top.line) /\ errnum \in BOOLEAN /\ Item.op \in Flags
      /\ level' \in Nat /\ loose' \in BOOLEAN /\ TRUE \in BOOLEAN
  BY <1>1, <1>2, LoopsType DEF HasItem, StateOK, Flags
<1>4. /\ StateOK' /\ CallsOK' /\ OnlyLeaving' /\ Loops' = Loops
      /\ errnum' = ErrorAfter(Item.sep, errnum, Item.op)
  BY <1>1, <1>2, <1>3, ProceedKeeps
<1>5. errnum' => loose'
  BY <1>1, <1>2, <1>4 DEF ErrorAfter
<1>6. LoopContained'
  BY <1>1, <1>4 DEF LoopContained
<1> QED
  BY <1>2, <1>4, <1>5, <1>6 DEF LineIInv, OnlyLeaves

LEMMA ResumeKeeps == LineIInv /\ Resume => LineIInv' /\ OnlyLeaves
<1> SUFFICES ASSUME LineIInv, Resume PROVE LineIInv' /\ OnlyLeaves
  OBVIOUS
<1>1. /\ InLine /\ phase = "returned" /\ program' = program /\ level' = level /\ loose' = loose
      /\ Proceed(stack, ret, errnum, flags)
  BY DEF Resume
<1>2. StateOK /\ CallsOK /\ (errnum => loose) /\ LoopContained
  BY DEF LineIInv
<1>3. Top.at =< Len(Top.line)
  BY <1>1, <1>2, StackCalls DEF InLine, CallOK
<1>4. errnum \in BOOLEAN /\ flags \in Flags /\ ret \in BOOLEAN /\ level' \in Nat /\ loose' \in BOOLEAN
  BY <1>1, <1>2 DEF StateOK
<1>5. /\ StateOK' /\ CallsOK' /\ OnlyLeaving' /\ Loops' = Loops /\ flags' = flags
      /\ errnum' = ErrorAfter(Item.sep, errnum, flags)
      /\ flags # "none" => stack'[Len(stack)].at > Len(Top.line)
  BY <1>1, <1>2, <1>3, <1>4, ProceedKeeps
<1>6. errnum' => loose'
  BY <1>1, <1>2, <1>5 DEF ErrorAfter
<1>7. flags # "none" => errnum' = errnum
  BY <1>4, <1>5 DEF ErrorAfter
<1>8. LoopContained'
  BY <1>1, <1>2, <1>5, <1>7 DEF LoopContained
<1>9. OnlyLeaves
  BY <1>1, <1>5 DEF OnlyLeaves
<1> QED
  BY <1>5, <1>6, <1>8, <1>9 DEF LineIInv

\* A call that has just been made.
LEMMA NewLine ==
    ASSUME NEW line \in Lines, NEW fl
    PROVE  /\ LineFrame(line) \in Calls /\ LineFrame(line).kind = "line"
           /\ CallOK(LineFrame(line), FALSE, fl)
<1>. DEFINE f == LineFrame(line)
<1>1. /\ f.kind = "line" /\ f.line = line /\ f.at = 1 /\ f.ran = <<>>
  BY DEF LineFrame
<1>2. <<>> \in Seq(Outcomes)
  BY EmptySeq
<1>3. f \in LineCalls
  BY <1>2 DEF LineFrame, LineCalls
<1>4. RanAt(f) = {}
  <2>1. DOMAIN f.ran = {}
    BY <1>1, <1>2, LenProperties, EmptySeq
  <2>2. ToSet(f.ran) = {}
    BY <2>1 DEF ToSet
  <2> QED
    BY <2>2 DEF RanAt
<1>5. Len(line) \in Nat
  BY LineItems
<1>6. f.at =< Len(f.line) + 1
  BY <1>1, <1>5
<1>. HIDE DEF f
<1>7. RanOK(f) /\ AlternativeOK(f, fl # "none" /\ f.at > Len(f.line))
  BY <1>4, <1>6 DEF RanOK, AlternativeOK
<1>8. CallOK(f, FALSE, fl)
  BY <1>1, <1>7 DEF CallOK
<1> QED
  BY <1>1, <1>3, <1>8 DEF Calls, f

LEMMA NewLoop ==
    ASSUME NEW line \in Lines, NEW rounds \in 0 .. MaxRounds, NEW cut \in 0 .. rounds, NEW fl
    PROVE  /\ LoopFrame(line, rounds, cut) \in Calls
           /\ CallOK(LoopFrame(line, rounds, cut), FALSE, fl)
<1>. DEFINE f == LoopFrame(line, rounds, cut)
<1>1. cut \in 0 .. MaxRounds /\ cut =< rounds
  BY LinesAssumption
<1>2. f \in LoopCalls /\ f.kind = "loop" /\ f.left = rounds /\ f.cut = cut
  BY <1>1 DEF LoopFrame, LoopCalls
<1>. HIDE DEF f
<1>3. f \in Calls /\ CallOK(f, FALSE, fl)
  BY <1>1, <1>2 DEF CallOK, Calls
<1> QED
  BY <1>3 DEF f

LEMMA RefuseCommandKeeps == LineIInv /\ RefuseCommand => LineIInv' /\ OnlyLeaves
<1> SUFFICES ASSUME LineIInv, RefuseCommand PROVE LineIInv' /\ OnlyLeaves
  OBVIOUS
<1>1. /\ HasItem /\ phase = "run" /\ stack' = Below /\ phase' = "returned" /\ ret' = FALSE
      /\ errnum' \in {errnum, TRUE} /\ loose' = (loose \/ errnum')
      /\ program' = program /\ flags' = flags /\ level' = level
  BY DEF RefuseCommand
<1>2. flags = "none" /\ StateOK /\ CallsOK
  BY <1>1, Started DEF LineIInv
<1>3. stack # <<>>
  BY <1>1 DEF HasItem, InLine
<1>4. CallsOK' /\ stack' \in Seq(Calls)
  BY <1>1, <1>2, <1>3, Popped
<1>5. StateOK'
  BY <1>1, <1>2, <1>4 DEF StateOK
<1>6. OnlyLeaving' /\ LoopContained' /\ (errnum' => loose')
  BY <1>1, <1>2 DEF OnlyLeaving, LoopContained
<1> QED
  BY <1>2, <1>4, <1>5, <1>6 DEF LineIInv, OnlyLeaves

LEMMA EnterGroupKeeps == LineIInv /\ EnterGroup => LineIInv' /\ OnlyLeaves
<1> SUFFICES ASSUME LineIInv, EnterGroup PROVE LineIInv' /\ OnlyLeaves
  OBVIOUS
<1>1. /\ HasItem /\ phase = "run" /\ stack' = Append(stack, LineFrame(Item.body))
      /\ flags' = "none" /\ program' = program /\ phase' = phase /\ ret' = ret
      /\ errnum' = errnum /\ level' = level /\ loose' = loose
  BY DEF EnterGroup
<1>2. flags = "none" /\ StateOK /\ CallsOK /\ (errnum => loose)
  BY <1>1, Started DEF LineIInv
<1>3. stack # <<>> /\ Item.body \in Lines /\ CallOK(Top, TRUE, flags)
  BY <1>1, <1>2, ItemTypes DEF HasItem
<1>4. /\ LineFrame(Item.body) \in Calls
      /\ CallOK(LineFrame(Item.body), phase' = "returned", flags')
  BY <1>1, <1>3, NewLine
<1>5. CallsOK' /\ stack' \in Seq(Calls)
  BY <1>1, <1>2, <1>3, <1>4, Pushed
<1>6. StateOK'
  BY <1>1, <1>2, <1>5 DEF StateOK, Flags
<1>7. OnlyLeaving' /\ LoopContained'
  BY <1>1 DEF OnlyLeaving, LoopContained
<1> QED
  BY <1>1, <1>2, <1>5, <1>6, <1>7 DEF LineIInv, OnlyLeaves

LEMMA EnterCheckKeeps == LineIInv /\ EnterCheck => LineIInv' /\ OnlyLeaves
<1> SUFFICES ASSUME LineIInv, EnterCheck PROVE LineIInv' /\ OnlyLeaves
  OBVIOUS
<1>1. /\ HasItem /\ phase = "run" /\ stack' = Append(stack, LineFrame(Item.body))
      /\ flags' = "none" /\ program' = program /\ phase' = phase /\ ret' = ret
      /\ errnum' = FALSE /\ level' = level /\ loose' = loose
  BY DEF EnterCheck
<1>2. flags = "none" /\ StateOK /\ CallsOK /\ (errnum => loose)
  BY <1>1, Started DEF LineIInv
<1>3. stack # <<>> /\ Item.body \in Lines /\ CallOK(Top, TRUE, flags)
  BY <1>1, <1>2, ItemTypes DEF HasItem
<1>4. /\ LineFrame(Item.body) \in Calls
      /\ CallOK(LineFrame(Item.body), phase' = "returned", flags')
  BY <1>1, <1>3, NewLine
<1>5. CallsOK' /\ stack' \in Seq(Calls)
  BY <1>1, <1>2, <1>3, <1>4, Pushed
<1>6. StateOK'
  BY <1>1, <1>2, <1>5 DEF StateOK, Flags
<1>7. OnlyLeaving' /\ LoopContained'
  BY <1>1 DEF OnlyLeaving, LoopContained
<1> QED
  BY <1>1, <1>2, <1>5, <1>6, <1>7 DEF LineIInv, OnlyLeaves

LEMMA EnterLoopKeeps == LineIInv /\ EnterLoop => LineIInv' /\ OnlyLeaves
<1> SUFFICES ASSUME LineIInv, EnterLoop PROVE LineIInv' /\ OnlyLeaves
  OBVIOUS
<1>1. /\ HasItem /\ phase = "run" /\ ret' = FALSE /\ errnum' \in {errnum, FALSE}
      /\ program' = program /\ phase' = phase /\ flags' = flags
      /\ level' = level /\ loose' = loose
  BY DEF EnterLoop
<1>10. PICK rounds \in 0 .. MaxRounds :
          \E cut \in 0 .. rounds : stack' = Append(stack, LoopFrame(Item.body, rounds, cut))
  BY DEF EnterLoop
<1>2. PICK cut \in 0 .. rounds : stack' = Append(stack, LoopFrame(Item.body, rounds, cut))
  BY <1>10
<1>3. flags = "none" /\ StateOK /\ CallsOK /\ (errnum => loose)
  BY <1>1, Started DEF LineIInv
<1>4. stack # <<>> /\ Item.body \in Lines /\ CallOK(Top, TRUE, flags)
  BY <1>1, <1>3, ItemTypes DEF HasItem
<1>5. /\ LoopFrame(Item.body, rounds, cut) \in Calls
      /\ CallOK(LoopFrame(Item.body, rounds, cut), phase' = "returned", flags')
  BY <1>1, <1>4, NewLoop
<1>6. CallsOK' /\ stack' \in Seq(Calls)
  BY <1>2, <1>3, <1>4, <1>5, Pushed
<1>7. StateOK'
  BY <1>1, <1>3, <1>6 DEF StateOK
<1>8. OnlyLeaving' /\ LoopContained'
  BY <1>1, <1>3 DEF OnlyLeaving, LoopContained
<1>9. errnum' => loose'
  <2>1. CASE errnum' = errnum
    BY <1>1, <1>3, <2>1
  <2>2. CASE errnum' = FALSE
    BY <2>2
  <2> QED
    BY <1>1, <2>1, <2>2
<1> QED
  BY <1>3, <1>6, <1>7, <1>8, <1>9 DEF LineIInv, OnlyLeaves

LEMMA LineEndsKeeps == LineIInv /\ LineEnds => LineIInv' /\ OnlyLeaves
<1> SUFFICES ASSUME LineIInv, LineEnds PROVE LineIInv' /\ OnlyLeaves
  OBVIOUS
<1>1. /\ InLine /\ stack' = Below /\ phase' = "returned"
      /\ program' = program /\ ret' = ret /\ errnum' = errnum
      /\ flags' = flags /\ level' = level /\ loose' = loose
  BY DEF LineEnds
<1>2. StateOK /\ CallsOK /\ (errnum => loose) /\ LoopContained
  BY DEF LineIInv
<1>3. stack # <<>> /\ Top.kind # "loop"
  BY <1>1 DEF InLine
<1>4. CallsOK' /\ stack' \in Seq(Calls) /\ Len(stack') = Len(stack) - 1
      /\ LoopsOf(stack') = LoopsOf(stack)
  BY <1>1, <1>2, <1>3, Popped
<1>5. StateOK'
  BY <1>1, <1>2, <1>4 DEF StateOK
<1>6. OnlyLeaving' /\ LoopContained'
  BY <1>1, <1>2, <1>4 DEF OnlyLeaving, LoopContained, Loops
<1>7. OnlyLeaves
  <2>1. Len(stack) \in Nat
    BY <1>2, <1>3, StackCalls
  <2> QED
    BY <1>4, <2>1 DEF OnlyLeaves
<1> QED
  BY <1>1, <1>2, <1>4, <1>5, <1>6, <1>7 DEF LineIInv

LEMMA StartRoundKeeps == LineIInv /\ StartRound => LineIInv' /\ OnlyLeaves
<1> SUFFICES ASSUME LineIInv, StartRound PROVE LineIInv' /\ OnlyLeaves
  OBVIOUS
<1>1. /\ InLoop /\ Top.left > Top.cut /\ phase = "run" /\ stack' = Append(stack, LineFrame(Top.body))
      /\ flags' = "none" /\ program' = program /\ phase' = phase /\ ret' = ret
      /\ errnum' = errnum /\ level' = level /\ loose' = loose
  BY DEF StartRound
<1>2. StateOK /\ CallsOK /\ (errnum => loose)
  BY DEF LineIInv
<1>3. stack # <<>> /\ Top.body \in Lines /\ CallOK(Top, TRUE, flags)
  <2>1. stack # <<>> /\ Top.kind = "loop"
    BY <1>1 DEF InLoop
  <2>2. Top \in LoopCalls
    BY <1>2, <2>1, StackCalls, CallKinds
  <2>3. CallOK(Top, FALSE, flags)
    BY <1>1, <1>2, <2>1, StackCalls
  <2> QED
    BY <1>1, <2>1, <2>2, <2>3 DEF LoopCalls, CallOK
<1>4. /\ LineFrame(Top.body) \in Calls
      /\ CallOK(LineFrame(Top.body), phase' = "returned", flags')
  BY <1>1, <1>3, NewLine
<1>5. CallsOK' /\ stack' \in Seq(Calls)
  BY <1>1, <1>2, <1>3, <1>4, Pushed
<1>6. StateOK'
  BY <1>1, <1>2, <1>5 DEF StateOK, Flags
<1>7. OnlyLeaving' /\ LoopContained'
  BY <1>1 DEF OnlyLeaving, LoopContained
<1>8. OnlyLeaves
  BY <1>1 DEF OnlyLeaves
<1> QED
  BY <1>1, <1>2, <1>5, <1>6, <1>7, <1>8 DEF LineIInv

\* The loop on top is one of the loops that are counted.
LEMMA LoopOnTop ==
    ASSUME StateOK, InLoop, stack' = Below
    PROVE  Loops \in Nat /\ Loops' \in Nat /\ Loops = Loops' + 1
<1>. DEFINE n == Len(stack)
            L == LoopsOf(stack)
            M == LoopsOf(stack')
<1>1. stack \in Seq(Calls) /\ stack # <<>> /\ Top.kind = "loop"
  BY DEF StateOK, InLoop
<1>2. /\ n \in Nat \ {0} /\ DOMAIN stack = 1 .. n /\ stack[n].kind = "loop"
      /\ DOMAIN stack' = 1 .. n - 1 /\ \A i \in 1 .. n - 1 : stack'[i] = stack[i]
  BY <1>1, StackParts DEF Top, Below
<1>. HIDE DEF n
<1>3. M \subseteq 1 .. n - 1 /\ L = M \union {n} /\ n \notin M
  <2>1. \A i \in 1 .. n : i \in 1 .. n - 1 \/ i = n
    BY <1>2
  <2>2. n \in 1 .. n /\ n \notin 1 .. n - 1 /\ \A i \in 1 .. n - 1 : i \in 1 .. n
    BY <1>2
  <2> QED
    BY <1>2, <2>1, <2>2 DEF LoopsOf
<1>4. IsFiniteSet(M)
  <2>1. IsFiniteSet(1 .. n - 1)
    BY <1>2, FS_Interval
  <2> QED
    BY <1>3, <2>1, FS_Subset
<1>. HIDE DEF L, M
<1>5. Cardinality(L) = Cardinality(M) + 1 /\ Cardinality(M) \in Nat
  BY <1>3, <1>4, FS_AddElement, FS_CardinalityType
<1> QED
  BY <1>5 DEF Loops, L, M

LEMMA RefuseRoundKeeps == LineIInv /\ RefuseRound => LineIInv' /\ OnlyLeaves
<1> SUFFICES ASSUME LineIInv, RefuseRound PROVE LineIInv' /\ OnlyLeaves
  OBVIOUS
<1>1. /\ InLoop /\ stack' = Below /\ phase' = "returned" /\ ret' = FALSE
      /\ level' = (IF flags = "none" THEN level ELSE Loops - 1)
      /\ program' = program /\ errnum' = errnum /\ flags' = flags /\ loose' = loose
  BY DEF RefuseRound
<1>2. StateOK /\ CallsOK /\ (errnum => loose)
  BY DEF LineIInv
<1>3. Loops' \in Nat /\ Loops - 1 = Loops'
  BY <1>1, <1>2, LoopOnTop
<1>4. CallsOK' /\ stack' \in Seq(Calls)
  BY <1>1, <1>2, Popped DEF InLoop
<1>5. level' \in Nat
  BY <1>1, <1>2, <1>3 DEF StateOK
<1>6. StateOK'
  BY <1>1, <1>2, <1>4, <1>5 DEF StateOK
<1>7. LoopContained'
  BY <1>1, <1>3 DEF LoopContained
<1>8. OnlyLeaving' /\ OnlyLeaves
  BY <1>1 DEF OnlyLeaving, OnlyLeaves
<1> QED
  BY <1>1, <1>2, <1>4, <1>6, <1>7, <1>8 DEF LineIInv

LEMMA RangeEndsKeeps == LineIInv /\ RangeEnds => LineIInv' /\ OnlyLeaves
<1> SUFFICES ASSUME LineIInv, RangeEnds PROVE LineIInv' /\ OnlyLeaves
  OBVIOUS
<1>1. /\ InLoop /\ stack' = Below /\ phase' = "returned" /\ flags' = "none"
      /\ program' = program /\ ret' = ret /\ errnum' = errnum
      /\ level' = level /\ loose' = loose
  BY DEF RangeEnds, Cleared
<1>2. StateOK /\ CallsOK /\ (errnum => loose)
  BY DEF LineIInv
<1>3. CallsOK' /\ stack' \in Seq(Calls)
  BY <1>1, <1>2, Popped DEF InLoop
<1>4. StateOK'
  BY <1>1, <1>2, <1>3 DEF StateOK, Flags
<1>5. OnlyLeaving' /\ LoopContained' /\ OnlyLeaves
  BY <1>1 DEF OnlyLeaving, LoopContained, OnlyLeaves
<1> QED
  BY <1>1, <1>2, <1>3, <1>4, <1>5 DEF LineIInv

LEMMA RoundOverKeeps == LineIInv /\ RoundOver => LineIInv' /\ OnlyLeaves
<1> SUFFICES ASSUME LineIInv, RoundOver PROVE LineIInv' /\ OnlyLeaves
  OBVIOUS
<1>1. /\ InLoop /\ phase = "returned" /\ (LeaveLoop \/ NextRound)
      /\ program' = program /\ errnum' = errnum /\ level' = level /\ loose' = loose
  BY DEF RoundOver
<1>2. StateOK /\ CallsOK /\ (errnum => loose) /\ LoopContained
  BY DEF LineIInv
<1>3. stack # <<>> /\ Top.kind = "loop" /\ OnlyLeaves
  BY <1>1 DEF InLoop, OnlyLeaves
<1>4. CASE LeaveLoop
  <2>1. /\ stack' = Below /\ phase' = "returned" /\ flags' \in Flags /\ ret' \in BOOLEAN
        /\ flags' # "none" => errnum
    BY <1>1, <1>2, <1>4 DEF LeaveLoop, EndsLoop, Cleared, StateOK, Flags
  <2>2. CallsOK' /\ stack' \in Seq(Calls)
    BY <1>2, <1>3, <2>1, Popped
  <2>3. StateOK'
    BY <1>1, <1>2, <2>1, <2>2 DEF StateOK
  <2>4. OnlyLeaving' /\ LoopContained'
    BY <1>1, <2>1 DEF OnlyLeaving, LoopContained
  <2> QED
    BY <1>1, <1>2, <1>3, <2>2, <2>3, <2>4 DEF LineIInv
<1>5. CASE NextRound
  <2>. DEFINE g == [Top EXCEPT !.left = @ - 1]
  <2>1. stack' = Append(Below, g) /\ phase' = "run" /\ ret' = ret /\ flags' = flags
    BY <1>5 DEF NextRound
  <2>2. Top \in LoopCalls /\ Top.left > Top.cut
    <3>1. Top \in LoopCalls /\ CallOK(Top, TRUE, flags)
      BY <1>1, <1>2, <1>3, StackCalls, CallKinds
    <3> QED
      BY <1>3, <3>1 DEF CallOK
  <2>3. g \in LoopCalls /\ g.kind = "loop" /\ g.cut =< g.left
    <3>1. Top.left - 1 \in 0 .. MaxRounds /\ Top.cut =< Top.left - 1
      BY <2>2, LinesAssumption DEF LoopCalls
    <3> QED
      BY <2>2, <3>1 DEF LoopCalls
  <2>4. g \in Calls /\ CallOK(g, phase' = "returned", flags')
    BY <2>1, <2>3 DEF Calls, CallOK
  <2>. HIDE DEF g
  <2>5. /\ CallsOK' /\ stack' \in Seq(Calls) /\ stack' # <<>> /\ Top' = g
        /\ LoopsOf(stack') = LoopsOf(stack)
    BY <1>2, <1>3, <2>1, <2>3, <2>4, Replaced
  <2>6. StateOK'
    BY <1>1, <1>2, <2>1, <2>5 DEF StateOK
  <2>7. OnlyLeaving'
    BY <2>3, <2>5 DEF OnlyLeaving, InLoop
  <2>8. LoopContained'
    BY <1>1, <1>2, <2>1, <2>5 DEF LoopContained, Loops
  <2> QED
    BY <1>1, <1>2, <1>3, <2>5, <2>6, <2>7, <2>8 DEF LineIInv
<1> QED
  BY <1>1, <1>4, <1>5

\* A line that is alone on the stack.
LEMMA OneCall ==
    ASSUME NEW line \in Lines
    PROVE  /\ <<LineFrame(line)>> \in Seq(Calls)
           /\ \A i \in DOMAIN <<LineFrame(line)>> :
                 CallOK(<<LineFrame(line)>>[i], i < Len(<<LineFrame(line)>>) \/ FALSE, "none")
<1>. DEFINE f == LineFrame(line)
<1>1. f \in Calls /\ CallOK(f, FALSE, "none")
  BY NewLine
<1>. HIDE DEF f
<1>2. <<f>> \in Seq(Calls) /\ DOMAIN <<f>> = {1} /\ <<f>>[1] = f /\ Len(<<f>>) = 1
  BY <1>1
<1>3. (1 < 1 \/ FALSE) = FALSE
  OBVIOUS
<1>4. \A i \in DOMAIN <<f>> : CallOK(<<f>>[i], i < Len(<<f>>) \/ FALSE, "none")
  BY <1>1, <1>2, <1>3
<1> QED
  BY <1>2, <1>4 DEF f

LEMMA InitLine == Init => LineIInv
<1> SUFFICES ASSUME Init PROVE LineIInv
  OBVIOUS
<1>1. /\ program \in Lines /\ stack = <<LineFrame(program)>> /\ phase = "run" /\ ret = FALSE
      /\ errnum \in BOOLEAN /\ flags = "none" /\ level = 0 /\ loose = errnum
  BY LinesAssumption DEF Init
<1>2. StateOK
  BY <1>1, OneCall DEF StateOK, Flags
<1>3. CallsOK
  BY <1>1, OneCall DEF CallsOK
<1> QED
  BY <1>1, <1>2, <1>3 DEF LineIInv, OnlyLeaving, LoopContained

LEMMA AgainKeeps == LineIInv /\ Again => LineIInv' /\ OnlyLeaves
<1> SUFFICES ASSUME LineIInv, Again PROVE LineIInv' /\ OnlyLeaves
  OBVIOUS
<1>1. /\ program' = program /\ stack' = <<LineFrame(program)>> /\ phase' = "run" /\ ret' = FALSE
      /\ errnum' \in BOOLEAN /\ flags' = "none" /\ level' = 0 /\ loose' = errnum'
      /\ stack = <<>>
  BY DEF Again
<1>2. program \in Lines
  BY DEF LineIInv, StateOK
<1>3. StateOK'
  BY <1>1, <1>2, OneCall DEF StateOK, Flags
<1>4. CallsOK'
  BY <1>1, <1>2, OneCall DEF CallsOK
<1> QED
  BY <1>1, <1>3, <1>4 DEF LineIInv, OnlyLeaving, LoopContained, OnlyLeaves

-----------------------------------------------------------------------------
(***************************************************************************)
(* The theorems.                                                           *)
(***************************************************************************)

LEMMA StepKeeps == LineIInv /\ Next => LineIInv' /\ OnlyLeaves
  BY RunCommandKeeps, RefuseCommandKeeps, FailCommandKeeps, ReadCommandsKeeps, LeaveRoundKeeps,
     EnterGroupKeeps, EnterCheckKeeps, EnterLoopKeeps, ResumeKeeps, LineEndsKeeps,
     StartRoundKeeps, RefuseRoundKeeps, RangeEndsKeeps, RoundOverKeeps, AgainKeeps
     DEF Next, Evaluate

LEMMA StutterKeeps == LineIInv /\ UNCHANGED vars => LineIInv'
  BY DEF vars, LineIInv, StateOK, CallsOK, OnlyLeaving, LoopContained, Loops, InLoop, HasItem,
         InLine, Top

LEMMA LineInduction == Spec => []LineIInv
<1>1. LineIInv /\ [Next]_vars => LineIInv'
  BY StepKeeps, StutterKeeps
<1> QED
  BY InitLine, <1>1, PTL DEF Spec

\* The types of the state, and that what ran in a line is what its operators ask for.
LEMMA LineFollows == LineIInv => LineInv
<1> SUFFICES ASSUME LineIInv PROVE TypeOK /\ OneBranch /\ RunsAsAsked
  BY DEF LineInv
<1>1. StateOK /\ CallsOK
  BY DEF LineIInv
<1>2. DOMAIN stack = 1 .. Len(stack) /\ Len(stack) \in Nat
      /\ \A i \in DOMAIN stack : stack[i] \in Calls
  BY <1>1, LenProperties, ElementOfSeq DEF StateOK
<1>3. ASSUME NEW i \in DOMAIN stack, stack[i].kind = "line"
      PROVE  /\ stack[i] \in LineCalls /\ stack[i].line \in Lines /\ stack[i].at \in Nat \ {0}
             /\ Len(stack[i].line) \in Nat /\ RanOK(stack[i])
             /\ AlternativeOK(stack[i], flags # "none" /\ stack[i].at > Len(stack[i].line))
             /\ RanAt(stack[i]) \subseteq Nat
  <2>1. CallOK(stack[i], i < Len(stack) \/ phase = "returned", flags)
    BY <1>1 DEF CallsOK
  <2>2. stack[i] \in LineCalls
    BY <1>2, <1>3, CallKinds
  <2>3. RanAt(stack[i]) \subseteq Nat
    <3>1. stack[i].ran \in Seq(Outcomes)
      BY <2>2, LineCallFields
    <3>2. \A k \in DOMAIN stack[i].ran : stack[i].ran[k] \in Outcomes
      BY <3>1, LenProperties, ElementOfSeq
    <3>3. \A o \in Outcomes : o.at \in Nat
      BY DEF Outcomes
    <3> QED
      BY <3>2, <3>3 DEF RanAt, ToSet
  <2> QED
    BY <1>3, <2>1, <2>2, <2>3, LineCallFields, LineItems DEF CallOK
<1>4. TypeOK
  <2>1. ASSUME NEW i \in DOMAIN stack
        PROVE  \/ stack[i].kind = "line" /\ stack[i].at \in 1 .. Len(stack[i].line) + 1
               \/ stack[i].kind = "loop" /\ stack[i].left \in stack[i].cut .. MaxRounds
    <3>1. CASE stack[i].kind = "line"
      BY <1>3, <3>1 DEF RanOK
    <3>2. CASE stack[i].kind # "line"
      <4>1. stack[i] \in LoopCalls /\ stack[i].kind = "loop"
        BY <1>2, <3>2, CallKinds
      <4>2. CallOK(stack[i], i < Len(stack) \/ phase = "returned", flags)
        BY <1>1 DEF CallsOK
      <4>3. stack[i].cut \in Nat /\ stack[i].left \in 0 .. MaxRounds
        BY <4>1, LinesAssumption DEF LoopCalls
      <4> QED
        BY <3>2, <4>1, <4>2, <4>3, LinesAssumption DEF CallOK
    <3> QED
      BY <3>1, <3>2
  <2> QED
    BY <1>1, <2>1 DEF TypeOK, StateOK, Flags
<1>5. ASSUME NEW i \in DOMAIN stack, stack[i].kind = "line", NEW f, f = stack[i],
             NEW k \in 1 .. Len(f.line) - 1, f.line[k].sep = "else"
      PROVE  /\ ~({k, k + 1} \subseteq RanAt(f))
             /\ k > 1 /\ f.line[k - 1].sep \in {"and", "or"} /\ k - 1 \in RanAt(f)
                   /\ f.at > Len(f.line) /\ flags = "none"
                => {k, k + 1} \cap RanAt(f) # {}
  <2>1. /\ Len(f.line) \in Nat /\ f.at \in Nat /\ RanOK(f) /\ k \in Nat /\ k < Len(f.line)
        /\ AlternativeOK(f, flags # "none" /\ f.at > Len(f.line))
    BY <1>3, <1>5
  <2>2. ~({k, k + 1} \subseteq RanAt(f))
    BY <1>5, <2>1 DEF RanOK
  <2>3. ASSUME k > 1, f.line[k - 1].sep \in {"and", "or"}, k - 1 \in RanAt(f),
               f.at > Len(f.line), flags = "none"
        PROVE  {k, k + 1} \cap RanAt(f) # {}
    <3>1. k - 1 + 1 = k /\ k - 1 + 2 = k + 1 /\ f.at # k /\ f.at # k + 1
      BY <2>1, <2>3
    <3>2. {k - 1 + 1, k - 1 + 2} \cap (RanAt(f) \union {f.at}) # {}
      BY <1>5, <2>1, <2>3, <3>1 DEF AlternativeOK
    <3> QED
      BY <3>1, <3>2
  <2> QED
    BY <2>2, <2>3
<1>6. OneBranch
  BY <1>5 DEF OneBranch, LineFrames
<1>7. ASSUME NEW i \in DOMAIN stack, stack[i].kind = "line", NEW f, f = stack[i],
             NEW k \in RanAt(f), NEW j \in RanAt(f), k < j,
             \A e \in k + 1 .. j - 1 : f.line[e].sep # "else"
      PROVE  \E r \in BOOLEAN : Returned(f, k, r) /\ Passes(f.line[k].sep, r)
  <2>1. /\ RanOK(f) /\ Len(f.line) \in Nat /\ f.at \in Nat /\ j \in Nat /\ j < f.at
        /\ f.at =< Len(f.line) + 1
    BY <1>3, <1>7 DEF RanOK
  <2>2. j =< Len(f.line)
    BY <2>1
  <2>3. NoElse(f.line, k + 1, j)
    BY <1>7 DEF NoElse
  <2>4. Passed(f, k)
    BY <1>7, <2>1, <2>2, <2>3 DEF RanOK
  <2> QED
    BY <2>4 DEF Passed
<1>8. RunsAsAsked
  BY <1>7 DEF RunsAsAsked, LineFrames
<1> QED
  BY <1>4, <1>6, <1>8

(* Which statements of a line run, for every line (wenv_func): nothing runs
   past its end, never both sides of a ]]!, always one of them behind a
   condition that ran, and nothing behind an operator that was not satisfied. *)
THEOREM StatementsRun == Spec => []LineInv
  BY LineInduction, LineFollows, PTL

(* break and continue leave the loop they are in and no other, and until
   then nothing is started (wenv_flags in wenv_func and for_func); a continue
   before a round whose text cannot be made leaves the round of one loop more. *)
THEOREM BreakLeavesOneLoop == Spec => BreakContained
<1>1. LineIInv /\ [Next]_vars => LineIInv'
  BY StepKeeps, StutterKeeps
<1>2. LineIInv /\ LineIInv' /\ [Next]_vars => [LoopContained' /\ OnlyLeaves]_vars
  BY StepKeeps DEF LineIInv
<1> QED
  BY LineInduction, <1>2, PTL DEF Spec, BreakContained

\* What takes a frame off the stack while a loop is on top.
LEMMA RoundsStep ==
    LineIInv /\ [Next]_vars =>
        [InLoop /\ Len(stack') < Len(stack) /\ flags # "break" /\ ~loose => Top.left = Top.cut]_vars
<1> SUFFICES ASSUME LineIInv, Next, InLoop, Len(stack') < Len(stack), flags # "break", ~loose
             PROVE  Top.left = Top.cut
  OBVIOUS
<1>1. StateOK /\ CallsOK /\ ~errnum /\ stack # <<>> /\ Top.kind = "loop" /\ ~InLine
  BY DEF LineIInv, InLoop, InLine
<1>2. Len(stack) \in Nat
  BY <1>1, StackCalls
<1>3. StartRound \/ RefuseRound \/ RangeEnds \/ RoundOver
  BY <1>1 DEF Next, Evaluate, RunCommand, RefuseCommand, FailCommand, ReadCommands, LeaveRound,
             EnterGroup, EnterCheck, EnterLoop, Resume, LineEnds, Again, HasItem
<1>4. CASE StartRound
  <2>1. stack' = Append(stack, LineFrame(Top.body))
    BY <1>4 DEF StartRound
  <2>2. Len(stack') = Len(stack) + 1
    BY <1>1, <2>1, AppendProperties, StackCalls, CallKinds, NewLine DEF LoopCalls, StateOK
  <2> QED
    BY <1>2, <2>2
<1>5. CASE RangeEnds
  <2>1. Top \in LoopCalls /\ CallOK(Top, FALSE, flags) /\ Top.left = 0
    BY <1>1, <1>5, StackCalls, CallKinds DEF RangeEnds
  <2>2. Top.cut \in Nat /\ Top.cut =< Top.left
    BY <1>1, <2>1, CallKinds DEF CallOK, LoopCalls
  <2> QED
    BY <2>1, <2>2
<1>6. CASE RoundOver
  <2>1. NextRound
    BY <1>1, <1>6 DEF RoundOver, LeaveLoop, EndsLoop
  <2>2. stack' = Append(Below, [Top EXCEPT !.left = @ - 1])
    BY <2>1 DEF NextRound
  <2>3. Top \in LoopCalls /\ Top.left > Top.cut
    <3>1. Top \in LoopCalls /\ CallOK(Top, TRUE, flags)
      BY <1>1, <1>6, StackCalls, CallKinds DEF RoundOver
    <3> QED
      BY <1>1, <3>1 DEF CallOK
  <2>. DEFINE g == [Top EXCEPT !.left = @ - 1]
  <2>4. Top.left - 1 \in 0 .. MaxRounds
    BY <2>3, LinesAssumption DEF LoopCalls
  <2>5. g \in Calls
    <3>1. g \in LoopCalls
      BY <2>3, <2>4 DEF LoopCalls
    <3>. HIDE DEF g
    <3> QED
      BY <3>1 DEF Calls
  <2>. HIDE DEF g
  <2>6. stack' = Append(Below, g)
    BY <2>2 DEF g
  <2>7. Len(stack') = Len(Below) + 1 /\ Len(Below) = Len(stack) - 1
    <3>1. Below \in Seq(Calls) /\ Len(Below) = Len(stack) - 1
      BY <1>1, StackCalls
    <3> QED
      BY <2>5, <2>6, <3>1, AppendProperties
  <2> QED
    BY <1>2, <2>7
<1>7. CASE RefuseRound
  BY <1>7 DEF RefuseRound
<1> QED
  BY <1>3, <1>4, <1>5, <1>6, <1>7

(* A loop runs through its whole range, or up to the first round whose text
   cannot be made, unless break leaves it, where every command that fails is
   followed by an operator that handles it (for_func). *)
THEOREM LoopsRunThrough == Spec => RoundsRun
<1> QED
  BY LineInduction, RoundsStep, PTL DEF Spec, RoundsRun
=============================================================================
