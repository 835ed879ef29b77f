--------------------------- MODULE Parser_proofs ---------------------------
(***************************************************************************)
(* Proofs about Parser, for any grammar whose rules and closures end the   *)
(* nodes they begin, any source and any fuel.                              *)
(***************************************************************************)
EXTENDS Parser, SequenceTheorems, FiniteSetTheorems, WellFoundedInduction, TLAPS

-----------------------------------------------------------------------------
(* Sequences whose elements have no common type                            *)

IsSeq(s) == \E S : s \in Seq(S)

LEMMA SeqIs ==
  ASSUME NEW s, IsSeq(s)
  PROVE  Len(s) \in Nat /\ DOMAIN s = 1..Len(s) /\ (s = <<>> <=> Len(s) = 0)
<1>1. PICK S : s \in Seq(S)
  BY DEF IsSeq
<1> QED
  BY <1>1, EmptySeq

LEMMA EmptyIs == IsSeq(<<>>) /\ Len(<<>>) = 0
<1>1. <<>> \in Seq({})
  OBVIOUS
<1> QED
  BY <1>1 DEF IsSeq

LEMMA OneIs ==
  ASSUME NEW e
  PROVE  IsSeq(<<e>>) /\ Len(<<e>>) = 1 /\ <<e>>[1] = e
<1>1. <<e>> \in Seq({e})
  OBVIOUS
<1> QED
  BY <1>1 DEF IsSeq

LEMMA ConcatIs ==
  ASSUME NEW s, IsSeq(s), NEW t, IsSeq(t)
  PROVE  /\ IsSeq(s \o t) /\ Len(s \o t) = Len(s) + Len(t)
         /\ \A i \in 1..Len(s) : (s \o t)[i] = s[i]
         /\ \A i \in 1..Len(t) : (s \o t)[Len(s) + i] = t[i]
         /\ \A i \in (Len(s) + 1)..(Len(s) + Len(t)) : (s \o t)[i] = t[i - Len(s)]
<1>1. PICK S : s \in Seq(S)
  BY DEF IsSeq
<1>2. PICK T : t \in Seq(T)
  BY DEF IsSeq
<1>3. s \in Seq(S \cup T) /\ t \in Seq(S \cup T)
  BY <1>1, <1>2
<1>4. s \o t \in Seq(S \cup T)
  BY <1>3
<1>5. IsSeq(s \o t)
  BY <1>4 DEF IsSeq
<1>6. Len(s \o t) = Len(s) + Len(t) /\ Len(s) \in Nat /\ Len(t) \in Nat
  BY <1>3
<1>7. \A i \in 1..Len(s) : (s \o t)[i] = s[i]
  BY <1>3
<1>8. \A i \in 1..Len(t) : (s \o t)[Len(s) + i] = t[i]
  BY <1>3
<1>9. \A i \in (Len(s) + 1)..(Len(s) + Len(t)) : (s \o t)[i] = t[i - Len(s)]
  BY <1>3
<1> QED
  BY <1>5, <1>6, <1>7, <1>8, <1>9

\* Concatenation as an operator that no prover expands.
Cat(s, t) == s \o t

LEMMA CatIs ==
  ASSUME NEW s, IsSeq(s), NEW t, IsSeq(t)
  PROVE  /\ IsSeq(Cat(s, t)) /\ Len(Cat(s, t)) = Len(s) + Len(t)
         /\ \A i \in 1..Len(s) : Cat(s, t)[i] = s[i]
         /\ \A i \in 1..Len(t) : Cat(s, t)[Len(s) + i] = t[i]
         /\ \A i \in (Len(s) + 1)..(Len(s) + Len(t)) : Cat(s, t)[i] = t[i - Len(s)]
BY ConcatIs, Zenon DEF Cat

LEMMA CatRight ==
  ASSUME NEW s, IsSeq(s), NEW t, IsSeq(t), NEW i \in 1..Len(t)
  PROVE  Cat(s, t)[Len(s) + i] = t[i]
<1>1. \A k \in 1..Len(t) : Cat(s, t)[Len(s) + k] = t[k]
  BY CatIs
<1> QED
  BY <1>1

LEMMA AppendIs ==
  ASSUME NEW s, IsSeq(s), NEW e
  PROVE  /\ IsSeq(Append(s, e)) /\ Len(Append(s, e)) = Len(s) + 1
         /\ \A i \in 1..Len(s) : Append(s, e)[i] = s[i]
         /\ Append(s, e)[Len(s) + 1] = e
<1>1. PICK S : s \in Seq(S)
  BY DEF IsSeq
<1>2. s \in Seq(S \cup {e})
  BY <1>1
<1>3. Append(s, e) \in Seq(S \cup {e})
  BY <1>2, AppendProperties
<1>4. IsSeq(Append(s, e))
  BY <1>3 DEF IsSeq
<1>5. Len(Append(s, e)) = Len(s) + 1 /\ Len(s) \in Nat /\ Append(s, e)[Len(s) + 1] = e
  BY <1>2
<1>6. \A i \in 1..Len(s) : Append(s, e)[i] = s[i]
  BY <1>2
<1> QED
  BY <1>4, <1>5, <1>6

LEMMA SubSeqIs ==
  ASSUME NEW s, IsSeq(s), NEW m \in Nat \ {0}, NEW n \in Nat, n <= Len(s), m <= n + 1
  PROVE  /\ IsSeq(SubSeq(s, m, n)) /\ Len(SubSeq(s, m, n)) = n - m + 1
         /\ \A i \in 1..(n - m + 1) : SubSeq(s, m, n)[i] = s[m + i - 1]
<1>1. PICK S : s \in Seq(S)
  BY DEF IsSeq
<1>2. \A i \in m..n : s[i] \in S
  BY <1>1
<1>3. /\ SubSeq(s, m, n) \in Seq(S)
      /\ Len(SubSeq(s, m, n)) = IF m <= n THEN n - m + 1 ELSE 0
      /\ \A i \in 1..(n - m + 1) : SubSeq(s, m, n)[i] = s[m + i - 1]
  BY <1>2, SubSeqProperties
<1>4. Len(SubSeq(s, m, n)) = n - m + 1
  BY <1>3
<1> QED
  BY <1>3, <1>4 DEF IsSeq

LEMMA FrontIs ==
  ASSUME NEW s, IsSeq(s), s # <<>>
  PROVE  /\ IsSeq(Front(s)) /\ Len(Front(s)) = Len(s) - 1
         /\ \A i \in 1..(Len(s) - 1) : Front(s)[i] = s[i]
<1>1. Len(s) \in Nat /\ Len(s) # 0
  BY SeqIs
<1>2. Len(s) - 1 \in Nat /\ Len(s) - 1 <= Len(s) /\ 1 \in Nat \ {0} /\ 1 <= Len(s) - 1 + 1
  BY <1>1
<1>3. /\ IsSeq(Front(s)) /\ Len(Front(s)) = Len(s) - 1 - 1 + 1
      /\ \A i \in 1..(Len(s) - 1 - 1 + 1) : Front(s)[i] = s[1 + i - 1]
  BY <1>2, SubSeqIs DEF Front
<1>4. Len(s) - 1 - 1 + 1 = Len(s) - 1
  BY <1>1
<1>5. \A i \in 1..(Len(s) - 1) : 1 + i - 1 = i
  BY <1>1
<1> QED
  BY <1>3, <1>4, <1>5

LEMMA TailIs ==
  ASSUME NEW s, IsSeq(s), s # <<>>
  PROVE  /\ IsSeq(Tail(s)) /\ Len(Tail(s)) = Len(s) - 1 /\ Len(s) # 0
         /\ \A i \in 1..(Len(s) - 1) : Tail(s)[i] = s[i + 1]
         /\ Head(s) = s[1]
<1>1. PICK S : s \in Seq(S)
  BY DEF IsSeq
<1>2. Tail(s) \in Seq(S) /\ Len(Tail(s)) = Len(s) - 1
      /\ \A i \in 1..(Len(s) - 1) : Tail(s)[i] = s[i + 1]
  BY <1>1, HeadTailProperties
<1> QED
  BY <1>1, <1>2, SeqIs DEF IsSeq

LEMMA ExceptIs ==
  ASSUME NEW s, IsSeq(s), NEW i \in 1..Len(s), NEW e
  PROVE  /\ IsSeq([s EXCEPT ![i] = e]) /\ Len([s EXCEPT ![i] = e]) = Len(s)
         /\ [s EXCEPT ![i] = e][i] = e
         /\ \A j \in 1..Len(s) : j # i => [s EXCEPT ![i] = e][j] = s[j]
<1>1. PICK S : s \in Seq(S)
  BY DEF IsSeq
<1>2. s \in Seq(S \cup {e})
  BY <1>1
<1>3. [s EXCEPT ![i] = e] \in Seq(S \cup {e}) /\ Len([s EXCEPT ![i] = e]) = Len(s)
  BY <1>2
<1> QED
  BY <1>1, <1>3 DEF IsSeq

\* A non-empty set of naturals has a minimum, and a maximum if it is bounded.
LEMMA LeastIs ==
  ASSUME NEW T, T \subseteq Nat, T # {}
  PROVE  \E i \in T : \A y \in T : i <= y
<1> DEFINE R == {ss \in Nat \X Nat : ss[1] < ss[2]}
<1>1. IsWellFoundedOn(R, Nat)
  BY NatLessThanWellFounded, Zenon DEF OpToRel
<1> HIDE DEF R
<1>2. PICK i \in T : \A k \in T : ~(<<k, i>> \in R)
  BY <1>1, WFMin, Zenon
<1>3. ASSUME NEW y \in T PROVE i <= y
  <2>1. i \in Nat /\ y \in Nat /\ ~(y < i)
    BY <1>2 DEF R
  <2> QED
    BY <2>1
<1> QED
  BY <1>3

LEMMA MinIs ==
  ASSUME NEW T, T \subseteq Nat, T # {}
  PROVE  Min(T) \in T /\ \A y \in T : Min(T) <= y
BY LeastIs DEF Min

LEMMA MaxIs ==
  ASSUME NEW T, NEW n \in Nat, T \subseteq 0..n, T # {}
  PROVE  Max(T) \in T /\ \A y \in T : Max(T) >= y
<1> DEFINE U == {n - t : t \in T}
<1>0. \A t \in T : t \in Nat /\ n - t \in Nat
  OBVIOUS
<1>1. U \subseteq Nat /\ U # {}
  BY <1>0, Zenon
<1>2. PICK u \in U : \A y \in U : u <= y
  BY <1>1, LeastIs
<1>3. PICK t \in T : u = n - t
  BY <1>2, Zenon
<1>4. ASSUME NEW y \in T PROVE t >= y
  <2>1. n - y \in U
    OBVIOUS
  <2>2. n - t <= n - y /\ t \in Nat /\ y \in Nat
    BY <1>0, <1>2, <1>3, <2>1
  <2> QED
    BY <2>2
<1> QED
  BY <1>4 DEF Max

-----------------------------------------------------------------------------
(* Counting                                                                *)

\* How many elements of B are less than k.
Count(B, k) == Cardinality({j \in B : j < k})

LEMMA CountType ==
  ASSUME NEW B, B \subseteq Nat, NEW k \in Nat
  PROVE  IsFiniteSet({j \in B : j < k}) /\ Count(B, k) \in Nat
<1>0. \A j \in B : j < k => j \in 0..k
  OBVIOUS
<1>1. {j \in B : j < k} \in SUBSET (0..k)
  BY <1>0, Zenon
<1>2. IsFiniteSet(0..k)
  BY FS_Interval
<1>3. IsFiniteSet({j \in B : j < k})
  BY <1>1, <1>2, FS_Subset
<1> QED
  BY <1>3, FS_CardinalityType DEF Count

LEMMA CountFirst ==
  ASSUME NEW B, B \subseteq Nat \ {0}
  PROVE  Count(B, 1) = 0
<1>0. \A j \in B : ~(j < 1)
  OBVIOUS
<1>1. {j \in B : j < 1} = {}
  BY <1>0, Zenon
<1> QED
  BY <1>1, FS_EmptySet DEF Count

LEMMA CountSame ==
  ASSUME NEW B, NEW C, NEW k, \A j : j < k => (j \in B <=> j \in C)
  PROVE  Count(B, k) = Count(C, k)
<1>1. {j \in B : j < k} = {j \in C : j < k}
  OBVIOUS
<1> QED
  BY <1>1 DEF Count

LEMMA CountStep ==
  ASSUME NEW B, B \subseteq Nat, NEW k \in Nat
  PROVE  Count(B, k + 1) = IF k \in B THEN Count(B, k) + 1 ELSE Count(B, k)
<1> DEFINE S == {j \in B : j < k}
<1>1. IsFiniteSet(S) /\ k \notin S
  <2>1. IsFiniteSet(S)
    BY CountType
  <2>2. ~(k < k)
    OBVIOUS
  <2> QED
    BY <2>1, <2>2, Zenon
<1>2. CASE k \in B
  <2>0. \A j \in B : j < k + 1 <=> (j < k \/ j = k)
    OBVIOUS
  <2>1. {j \in B : j < k + 1} = S \cup {k}
    BY <1>2, <2>0, Zenon
  <2> QED
    BY <1>1, <1>2, <2>1, FS_AddElement DEF Count
<1>3. CASE k \notin B
  <2>0. \A j \in B : j < k + 1 <=> j < k
    BY <1>3
  <2>1. {j \in B : j < k + 1} = S
    BY <2>0, Zenon
  <2> QED
    BY <1>3, <2>1 DEF Count
<1> QED
  BY <1>2, <1>3

LEMMA CountMonotonic ==
  ASSUME NEW B, B \subseteq Nat, NEW k \in Nat, NEW l \in Nat, k <= l
  PROVE  Count(B, k) <= Count(B, l)
<1>0. \A j \in B : j < k => j < l
  OBVIOUS
<1>1. {j \in B : j < k} \in SUBSET {j \in B : j < l}
  BY <1>0, Zenon
<1> QED
  BY <1>1, CountType, FS_Subset DEF Count

\* A run of elements.
LEMMA CountRun ==
  ASSUME NEW B, B \subseteq Nat, NEW k \in Nat, NEW l \in Nat, k <= l, k..(l - 1) \subseteq B
  PROVE  Count(B, l) = Count(B, k) + (l - k)
<1> DEFINE S == {j \in B : j < k}
<1>0. \A j \in B : j < l <=> (j < k \/ j \in k..(l - 1))
  OBVIOUS
<1>00. \A j \in k..(l - 1) : j < l /\ j \in B
  OBVIOUS
<1>1. {j \in B : j < l} = S \cup (k..(l - 1))
  BY <1>0, <1>00, Zenon
<1>2. S \cap (k..(l - 1)) = {}
  OBVIOUS
<1>3. IsFiniteSet(S) /\ Cardinality(S) \in Nat
  BY CountType DEF Count
<1>4. IsFiniteSet(k..(l - 1)) /\ Cardinality(k..(l - 1)) = IF k > l - 1 THEN 0 ELSE (l - 1) - k + 1
  BY FS_Interval
<1>5. Cardinality(k..(l - 1)) = l - k
  BY <1>4
<1>6. Cardinality(S \cup (k..(l - 1))) = Cardinality(S) + (l - k)
  <2> DEFINE R == k..(l - 1)
  <2>1. IsFiniteSet(R) /\ Cardinality(R) = l - k /\ S \cap R = {}
    BY <1>2, <1>4, <1>5
  <2> HIDE DEF S, R
  <2>2. Cardinality(S \cup R) = Cardinality(S) + Cardinality(R) - Cardinality(S \cap R)
    BY <1>3, <2>1, FS_Union
  <2>3. Cardinality(S \cap R) = 0
    BY <2>1, FS_EmptySet
  <2>4. Cardinality(S \cup R) = Cardinality(S) + (l - k)
    BY <1>3, <2>1, <2>2, <2>3
  <2> QED
    BY <2>4 DEF R
<1> QED
  BY <1>1, <1>6 DEF Count

\* A stretch without elements.
LEMMA CountNone ==
  ASSUME NEW B, B \subseteq Nat, NEW k \in Nat, NEW l \in Nat, k <= l,
         \A j \in k..(l - 1) : j \notin B
  PROVE  Count(B, l) = Count(B, k)
<1>0. \A j \in B : j < l <=> j < k
  OBVIOUS
<1>1. {j \in B : j < l} = {j \in B : j < k}
  BY <1>0, Zenon
<1> QED
  BY <1>1 DEF Count

LEMMA CountAll ==
  ASSUME NEW n \in Nat, NEW B, B \subseteq 1..n
  PROVE  Cardinality(B) = Count(B, n + 1)
<1>0. \A j \in B : j < n + 1
  OBVIOUS
<1>1. {j \in B : j < n + 1} = B
  BY <1>0, Zenon
<1> QED
  BY <1>1 DEF Count

-----------------------------------------------------------------------------
(* Programs: the nodes that they end                                        *)

After(instr, n) ==
    IF instr.op = "begin" THEN n + 1 ELSE IF instr.op = "end" THEN n - 1 ELSE n

\* d tells how many nodes are open before each instruction of program p.
Depths(p, d) ==
  /\ \A i \in 1..(Len(p) + 1) : d[i] \in Nat
  /\ d[Len(p) + 1] = 0
  /\ \A i \in 1..Len(p) : d[i + 1] = After(p[i], d[i])

\* Program p ends the n nodes that are open when it starts.
Closes(p, n) == \E d : Depths(p, d) /\ d[1] = n

GoodInstr(instr) ==
  /\ ClosuresOf(instr) \subseteq Bodies
  /\ instr.op = "call" => instr.name \in DOMAIN Rules
  /\ instr.op = "alt" => instr.alts \in Seq(Bodies) /\ instr.alts # <<>>
  /\ instr.op = "n_or_more" => instr.n \in Nat

GoodCode(p) == IsSeq(p) /\ \A i \in 1..Len(p) : GoodInstr(p[i])

LEMMA ClosesEmpty ==
  ASSUME NEW n, Closes(<<>>, n)
  PROVE  n = 0
<1>1. PICK d : Depths(<<>>, d) /\ d[1] = n
  BY DEF Closes
<1>2. Len(<<>>) = 0
  BY EmptyIs
<1>3. d[0 + 1] = 0
  BY <1>1, <1>2 DEF Depths
<1> QED
  BY <1>1, <1>3

LEMMA EmptyCloses == Closes(<<>>, 0) /\ GoodCode(<<>>)
<1> DEFINE d == [i \in 1..1 |-> 0]
<1>1. Len(<<>>) = 0 /\ IsSeq(<<>>)
  BY EmptyIs
<1>2. Depths(<<>>, d) /\ d[1] = 0
  BY <1>1 DEF Depths
<1>3. Closes(<<>>, 0)
  BY <1>2 DEF Closes
<1> QED
  BY <1>1, <1>3 DEF GoodCode

\* The calls counted by positions.
LEMMA CallsStep ==
  ASSUME NEW p, NEW op, NEW i \in Nat
  PROVE  /\ Calls(p, op, i) \in Nat
         /\ Calls(p, op, 0) = 0
         /\ Calls(p, op, i + 1) = IF p[i + 1].op = op THEN Calls(p, op, i) + 1
                                  ELSE Calls(p, op, i)
<1> DEFINE S(k) == {j \in 1..k : p[j].op = op}
<1>1. IsFiniteSet(1..i)
  BY FS_Interval
<1>2. IsFiniteSet(S(i)) /\ Cardinality(S(i)) \in Nat
  <2>1. S(i) \in SUBSET (1..i)
    OBVIOUS
  <2> QED
    BY <1>1, <2>1, FS_Subset, FS_CardinalityType
<1>3. 1..0 = {}
  OBVIOUS
<1>4. S(0) = {}
  BY <1>3
<1>5. 1..(i + 1) = (1..i) \cup {i + 1} /\ i + 1 \notin 1..i
  OBVIOUS
<1>6. CASE p[i + 1].op = op
  <2>1. S(i + 1) = S(i) \cup {i + 1} /\ i + 1 \notin S(i)
    BY <1>5, <1>6, Zenon
  <2> QED
    BY <1>2, <1>4, <1>6, <2>1, FS_AddElement, FS_EmptySet DEF Calls
<1>7. CASE p[i + 1].op # op
  <2>1. S(i + 1) = S(i)
    BY <1>5, <1>7, Zenon
  <2> QED
    BY <1>2, <1>4, <1>7, <2>1, FS_EmptySet DEF Calls
<1> QED
  BY <1>6, <1>7

\* A rule or a closure ends the nodes that it begins, and no others.
LEMMA BodyCloses ==
  ASSUME NEW p \in Bodies
  PROVE  GoodCode(p) /\ Closes(p, 0)
<1>1. /\ p \in Seq(ToSet(p)) /\ Balanced(p)
      /\ \A i \in DOMAIN p : GoodInstr(p[i])
  BY GrammarAssumption DEF GoodInstr
<1>2. IsSeq(p)
  BY <1>1 DEF IsSeq
<1>3. Len(p) \in Nat /\ DOMAIN p = 1..Len(p)
  BY <1>2, SeqIs
<1>4. GoodCode(p)
  BY <1>1, <1>2, <1>3 DEF GoodCode
<1> DEFINE b(i) == Calls(p, "begin", i)
           e(i) == Calls(p, "end", i)
           d == [i \in 1..(Len(p) + 1) |-> b(i - 1) - e(i - 1)]
<1>5. \A i \in Nat : b(i) \in Nat /\ e(i) \in Nat
  BY CallsStep
<1>6. b(0) = 0 /\ e(0) = 0
  BY CallsStep
<1>7. \A i \in Nat : /\ b(i + 1) = IF p[i + 1].op = "begin" THEN b(i) + 1 ELSE b(i)
                     /\ e(i + 1) = IF p[i + 1].op = "end" THEN e(i) + 1 ELSE e(i)
  BY CallsStep
<1>8. \A i \in 1..Len(p) : e(i) <= b(i)
  BY <1>1, <1>3 DEF Balanced
<1>9. e(Len(p)) = b(Len(p))
  BY <1>1 DEF Balanced
<1> HIDE DEF b, e
<1>10. \A i \in 0..Len(p) : e(i) <= b(i)
  BY <1>3, <1>6, <1>8
<1>11. ASSUME NEW i \in 1..(Len(p) + 1) PROVE d[i] \in Nat
  <2>1. d[i] = b(i - 1) - e(i - 1) /\ i - 1 \in Nat /\ i - 1 \in 0..Len(p)
    BY <1>3
  <2>2. b(i - 1) \in Nat /\ e(i - 1) \in Nat /\ e(i - 1) <= b(i - 1)
    BY <1>5, <1>10, <2>1
  <2> HIDE DEF d
  <2> QED
    BY <2>1, <2>2
<1>12. d[Len(p) + 1] = 0 /\ d[1] = 0
  BY <1>3, <1>5, <1>6, <1>9
<1>13. ASSUME NEW i \in 1..Len(p) PROVE d[i + 1] = After(p[i], d[i])
  <2>1. d[i + 1] = b(i) - e(i) /\ d[i] = b(i - 1) - e(i - 1)
    BY <1>3
  <2>2. i - 1 \in Nat /\ i - 1 + 1 = i
    BY <1>3
  <2>3. /\ b(i) = IF p[i].op = "begin" THEN b(i - 1) + 1 ELSE b(i - 1)
        /\ e(i) = IF p[i].op = "end" THEN e(i - 1) + 1 ELSE e(i - 1)
    BY <1>7, <2>2
  <2>4. b(i - 1) \in Nat /\ e(i - 1) \in Nat
    BY <1>5, <2>2
  <2> QED
    BY <2>1, <2>3, <2>4 DEF After
<1> HIDE DEF d
<1>14. Closes(p, 0)
  BY <1>11, <1>12, <1>13 DEF Closes, Depths
<1> QED
  BY <1>4, <1>14

\* What is left after the first instruction.
LEMMA ClosesTail ==
  ASSUME NEW p, GoodCode(p), p # <<>>, NEW n, Closes(p, n)
  PROVE  /\ n \in Nat /\ After(p[1], n) \in Nat
         /\ GoodCode(Tail(p)) /\ GoodInstr(p[1]) /\ Closes(Tail(p), After(p[1], n))
<1>1. PICK d : Depths(p, d) /\ d[1] = n
  BY DEF Closes
<1>2. /\ IsSeq(p) /\ IsSeq(Tail(p)) /\ Len(Tail(p)) = Len(p) - 1 /\ Len(p) \in Nat /\ Len(p) # 0
      /\ \A i \in 1..(Len(p) - 1) : Tail(p)[i] = p[i + 1]
  BY TailIs, SeqIs DEF GoodCode
<1> DEFINE l == Len(p) - 1
           c == [i \in 1..(l + 1) |-> d[i + 1]]
<1>3. l \in Nat /\ l + 1 = Len(p) /\ Len(Tail(p)) = l /\ 1 \in 1..Len(p)
  BY <1>2
<1>4. \A i \in 1..(l + 1) : i + 1 \in 1..(Len(p) + 1) /\ i \in 1..Len(p)
  BY <1>2
<1>5. \A i \in 1..(l + 1) : c[i] \in Nat
  BY <1>1, <1>4 DEF Depths
<1>6. c[l + 1] = 0
  BY <1>1, <1>3 DEF Depths
<1>7. ASSUME NEW i \in 1..l PROVE c[i + 1] = After(Tail(p)[i], c[i])
  <2>1. i + 1 \in 1..Len(p) /\ i + 1 \in 1..(l + 1) /\ i \in 1..(l + 1)
    BY <1>3
  <2>2. d[i + 1 + 1] = After(p[i + 1], d[i + 1])
    BY <1>1, <2>1 DEF Depths
  <2> QED
    BY <1>2, <2>1, <2>2
<1>8. c[1] = d[2] /\ d[2] = After(p[1], n) /\ d[2] \in Nat /\ n \in Nat
  <2>1. d[1 + 1] = After(p[1], d[1]) /\ d[1] \in Nat /\ d[1 + 1] \in Nat
    BY <1>1, <1>2, <1>3 DEF Depths
  <2> QED
    BY <1>1, <1>3, <2>1
<1>9. Depths(Tail(p), c)
  BY <1>3, <1>5, <1>6, <1>7 DEF Depths
<1>10. Closes(Tail(p), After(p[1], n))
  BY <1>8, <1>9 DEF Closes
<1>11. \A i \in 1..Len(Tail(p)) : GoodInstr(Tail(p)[i])
  <2>1. \A i \in 1..l : i + 1 \in 1..Len(p)
    BY <1>3
  <2> QED
    BY <1>2, <1>3, <2>1 DEF GoodCode
<1> QED
  BY <1>2, <1>3, <1>8, <1>10, <1>11 DEF GoodCode

LEMMA ClosesConcat ==
  ASSUME NEW p, GoodCode(p), NEW m, Closes(p, m), NEW q, GoodCode(q), NEW n, Closes(q, n)
  PROVE  GoodCode(p \o q) /\ Closes(p \o q, m + n)
<1>1. PICK c : Depths(p, c) /\ c[1] = m
  BY DEF Closes
<1>2. PICK d : Depths(q, d) /\ d[1] = n
  BY DEF Closes
<1>3. Len(p) \in Nat /\ Len(q) \in Nat /\ IsSeq(p) /\ IsSeq(q)
  BY SeqIs DEF GoodCode
<1>4. /\ IsSeq(p \o q) /\ Len(p \o q) = Len(p) + Len(q)
      /\ \A i \in 1..Len(p) : (p \o q)[i] = p[i]
      /\ \A i \in (Len(p) + 1)..(Len(p) + Len(q)) : (p \o q)[i] = q[i - Len(p)]
  BY <1>3, ConcatIs
<1> DEFINE l == Len(p) + Len(q)
           a == [i \in 1..(l + 1) |-> IF i <= Len(p) THEN c[i] + n ELSE d[i - Len(p)]]
<1>5. /\ \A i \in 1..(Len(p) + 1) : c[i] \in Nat
      /\ c[Len(p) + 1] = 0
      /\ \A i \in 1..Len(p) : c[i + 1] = After(p[i], c[i])
  BY <1>1 DEF Depths
<1>6. /\ \A i \in 1..(Len(q) + 1) : d[i] \in Nat
      /\ d[Len(q) + 1] = 0
      /\ \A i \in 1..Len(q) : d[i + 1] = After(q[i], d[i])
  BY <1>2 DEF Depths
<1>7. n \in Nat /\ m \in Nat
  BY <1>1, <1>2, <1>3, <1>5, <1>6
<1>8. \A i \in 1..(l + 1) : a[i] \in Nat
  <2> TAKE i \in 1..(l + 1)
  <2>1. CASE i <= Len(p)
    BY <1>3, <1>5, <1>7, <2>1
  <2>2. CASE i > Len(p)
    <3>1. i - Len(p) \in 1..(Len(q) + 1)
      BY <1>3, <2>2
    <3> QED
      BY <1>3, <1>6, <2>2, <3>1
  <2> QED
    BY <1>3, <2>1, <2>2
<1>9. a[l + 1] = 0
  <2>1. l + 1 - Len(p) = Len(q) + 1 /\ ~(l + 1 <= Len(p)) /\ l + 1 \in 1..(l + 1)
    BY <1>3
  <2> QED
    BY <1>6, <2>1
<1>10. \A i \in 1..(Len(p) + 1) : a[i] = c[i] + n
  <2> TAKE i \in 1..(Len(p) + 1)
  <2>1. CASE i <= Len(p)
    BY <1>3, <2>1
  <2>2. CASE i = Len(p) + 1
    <3>1. i - Len(p) = 1 /\ ~(i <= Len(p)) /\ i \in 1..(l + 1)
      BY <1>3, <2>2
    <3> QED
      BY <1>2, <1>5, <1>7, <2>2, <3>1
  <2> QED
    BY <1>3, <2>1, <2>2
<1>10a. \A i \in (Len(p) + 1)..(l + 1) : a[i] = d[i - Len(p)]
  <2> TAKE i \in (Len(p) + 1)..(l + 1)
  <2>1. i \in 1..(l + 1) /\ ~(i <= Len(p))
    BY <1>3
  <2> QED
    BY <2>1
<1> HIDE DEF a
<1>11. a[1] = m + n
  <2>1. 1 \in 1..(Len(p) + 1)
    BY <1>3
  <2> QED
    BY <1>1, <1>10, <2>1
<1>12. ASSUME NEW i \in 1..l PROVE a[i + 1] = After((p \o q)[i], a[i])
  <2>1. CASE i <= Len(p)
    <3>1. i \in 1..Len(p) /\ i \in 1..(Len(p) + 1) /\ i + 1 \in 1..(Len(p) + 1)
      BY <1>3, <2>1
    <3>2. a[i + 1] = c[i + 1] + n /\ a[i] = c[i] + n /\ (p \o q)[i] = p[i]
      BY <1>4, <1>10, <3>1
    <3>3. c[i + 1] = After(p[i], c[i]) /\ c[i] \in Nat /\ c[i + 1] \in Nat
      BY <1>5, <3>1
    <3> QED
      BY <1>7, <3>2, <3>3 DEF After
  <2>2. CASE i > Len(p)
    <3>1. /\ i \in (Len(p) + 1)..(Len(p) + Len(q)) /\ i - Len(p) \in 1..Len(q)
          /\ i + 1 - Len(p) = (i - Len(p)) + 1
          /\ i \in (Len(p) + 1)..(l + 1) /\ i + 1 \in (Len(p) + 1)..(l + 1)
      BY <1>3, <2>2
    <3>2. a[i + 1] = d[(i - Len(p)) + 1] /\ a[i] = d[i - Len(p)]
      BY <1>10a, <3>1
    <3> QED
      BY <1>4, <1>6, <3>1, <3>2
  <2> QED
    BY <1>3, <2>1, <2>2
<1>13. Closes(p \o q, m + n)
  <2>1. Depths(p \o q, a)
    BY <1>4, <1>8, <1>9, <1>12 DEF Depths
  <2> QED
    BY <1>11, <2>1 DEF Closes
<1>14. ASSUME NEW i \in 1..(Len(p) + Len(q)) PROVE GoodInstr((p \o q)[i])
  <2>1. CASE i <= Len(p)
    <3>1. i \in 1..Len(p)
      BY <1>3, <2>1
    <3> QED
      BY <1>4, <3>1 DEF GoodCode
  <2>2. CASE i > Len(p)
    <3>1. i \in (Len(p) + 1)..(Len(p) + Len(q)) /\ i - Len(p) \in 1..Len(q)
      BY <1>3, <2>2
    <3> QED
      BY <1>4, <3>1 DEF GoodCode
  <2> QED
    BY <1>3, <2>1, <2>2
<1> QED
  BY <1>4, <1>13, <1>14 DEF GoodCode

\* The code in which body replaces the first instruction, neither begin nor end.
LEMMA ClosesInstead ==
  ASSUME NEW p, GoodCode(p), p # <<>>, p[1].op \notin {"begin", "end"},
         NEW body, body \in Bodies \/ body = <<>>, NEW n, Closes(p, n)
  PROVE  GoodCode(body \o Tail(p)) /\ Closes(body \o Tail(p), n)
<1>1. GoodCode(body) /\ Closes(body, 0)
  BY BodyCloses, EmptyCloses
<1>2. GoodCode(Tail(p)) /\ Closes(Tail(p), n) /\ n \in Nat
  BY ClosesTail DEF After
<1>3. GoodCode(body \o Tail(p)) /\ Closes(body \o Tail(p), 0 + n)
  BY <1>1, <1>2, ClosesConcat
<1> QED
  BY <1>2, <1>3

-----------------------------------------------------------------------------
(* The stack, its frames counted from the outermost one                     *)

FrameAt(st, k) == st[Len(st) + 1 - k]
Of(st, methods) == {k \in 1..Len(st) : FrameAt(st, k).exit.do \in methods}

GoodExit(exit) ==
  /\ exit.do \in Exits
  /\ exit.do \in Branches => exit.bm.tokens \in Nat /\ exit.bm.output \in Nat
  /\ exit.do \in {"first", "more"} => exit.body \in Bodies
  /\ exit.do = "first" => exit.n \in Nat
  /\ exit.do = "more" => exit = [do |-> "more", body |-> exit.body, bm |-> exit.bm]
  /\ exit.do = "alt" => /\ exit = [do |-> "alt", alts |-> exit.alts, bm |-> exit.bm]
                        /\ exit.alts \in Seq(Bodies)

GoodFrame(f) == f = Frame(f.code, f.exit) /\ GoodCode(f.code) /\ GoodExit(f.exit)

Stack(st) ==
  /\ IsSeq(st)
  /\ \A i \in 1..Len(st) : GoodFrame(st[i]) /\ (st[i].exit.do = "item" => i = Len(st))

\* A frame on top of the stack, and the stack without the top frame.
Push(f, st) == <<f>> \o st
Rest(st) == Tail(st)

LEMMA PushIs ==
  ASSUME NEW st, IsSeq(st), NEW f
  PROVE  /\ IsSeq(Push(f, st)) /\ Len(Push(f, st)) = Len(st) + 1 /\ Push(f, st)[1] = f
         /\ \A i \in 1..Len(st) : Push(f, st)[i + 1] = st[i]
         /\ FrameAt(Push(f, st), Len(st) + 1) = f
         /\ \A k \in 1..Len(st) : FrameAt(Push(f, st), k) = FrameAt(st, k)
<1> DEFINE new == Push(f, st)
<1>1. IsSeq(<<f>>) /\ Len(<<f>>) = 1 /\ <<f>>[1] = f /\ Len(st) \in Nat
  BY OneIs, SeqIs
<1>2. /\ IsSeq(new) /\ Len(new) = 1 + Len(st)
      /\ \A i \in 1..1 : new[i] = <<f>>[i]
      /\ \A i \in 1..Len(st) : new[1 + i] = st[i]
  BY <1>1, ConcatIs DEF Push
<1> HIDE DEF new
<1>3. Len(new) = Len(st) + 1 /\ new[1] = f
  BY <1>1, <1>2
<1>4. \A i \in 1..Len(st) : new[i + 1] = st[i]
  BY <1>1, <1>2
<1>5. FrameAt(new, Len(st) + 1) = f
  BY <1>1, <1>3 DEF FrameAt
<1>6. ASSUME NEW k \in 1..Len(st) PROVE FrameAt(new, k) = FrameAt(st, k)
  <2>1. Len(st) + 1 - k \in 1..Len(st) /\ Len(st) + 1 + 1 - k = (Len(st) + 1 - k) + 1
    BY <1>1
  <2> QED
    BY <1>3, <1>4, <2>1 DEF FrameAt
<1> QED
  BY <1>2, <1>3, <1>4, <1>5, <1>6 DEF new

LEMMA PopIs ==
  ASSUME NEW st, IsSeq(st), st # <<>>
  PROVE  /\ IsSeq(Rest(st)) /\ Len(Rest(st)) = Len(st) - 1 /\ Len(st) \in Nat /\ Len(st) # 0
         /\ Len(st) - 1 \in Nat /\ Len(st) \in 1..Len(st)
         /\ \A i \in 1..(Len(st) - 1) : Rest(st)[i] = st[i + 1]
         /\ FrameAt(st, Len(st)) = st[1]
         /\ \A k \in 1..(Len(st) - 1) : FrameAt(Rest(st), k) = FrameAt(st, k)
<1>1. /\ IsSeq(Rest(st)) /\ Len(Rest(st)) = Len(st) - 1 /\ Len(st) \in Nat /\ Len(st) # 0
      /\ \A i \in 1..(Len(st) - 1) : Rest(st)[i] = st[i + 1]
  BY TailIs, SeqIs DEF Rest
<1>2. FrameAt(st, Len(st)) = st[1]
  BY <1>1 DEF FrameAt
<1>3. ASSUME NEW k \in 1..(Len(st) - 1) PROVE FrameAt(Rest(st), k) = FrameAt(st, k)
  <2>1. Len(st) - 1 + 1 - k \in 1..(Len(st) - 1) /\ (Len(st) - 1 + 1 - k) + 1 = Len(st) + 1 - k
    BY <1>1
  <2> QED
    BY <1>1, <2>1 DEF FrameAt
<1> QED
  BY <1>1, <1>2, <1>3

LEMMA RetopIs ==
  ASSUME NEW st, IsSeq(st), st # <<>>, NEW f
  PROVE  /\ IsSeq(Push(f, Rest(st))) /\ Len(Push(f, Rest(st))) = Len(st)
         /\ Len(st) \in Nat /\ Len(st) \in 1..Len(st)
         /\ Push(f, Rest(st))[1] = f
         /\ \A i \in 2..Len(st) : Push(f, Rest(st))[i] = st[i]
         /\ FrameAt(Push(f, Rest(st)), Len(st)) = f /\ FrameAt(st, Len(st)) = st[1]
         /\ \A k \in 1..(Len(st) - 1) : FrameAt(Push(f, Rest(st)), k) = FrameAt(st, k)
<1> DEFINE t == Rest(st)
           new == Push(f, t)
<1>1. /\ IsSeq(t) /\ Len(t) = Len(st) - 1 /\ Len(st) \in Nat /\ Len(st) # 0
      /\ \A i \in 1..(Len(st) - 1) : t[i] = st[i + 1]
      /\ FrameAt(st, Len(st)) = st[1] /\ Len(st) \in 1..Len(st)
      /\ \A k \in 1..(Len(st) - 1) : FrameAt(t, k) = FrameAt(st, k)
  BY PopIs
<1> HIDE DEF t
<1>2. /\ IsSeq(new) /\ Len(new) = Len(t) + 1 /\ new[1] = f
      /\ \A i \in 1..Len(t) : new[i + 1] = t[i]
      /\ FrameAt(new, Len(t) + 1) = f
      /\ \A k \in 1..Len(t) : FrameAt(new, k) = FrameAt(t, k)
  <2>1. IsSeq(t)
    BY <1>1
  <2> QED
    BY <2>1, PushIs
<1> HIDE DEF new
<1>3. Len(st) - 1 + 1 = Len(st)
  BY <1>1
<1>4. ASSUME NEW i \in 2..Len(st) PROVE new[i] = st[i]
  <2>1. i - 1 \in 1..(Len(st) - 1) /\ (i - 1) + 1 = i
    BY <1>1
  <2> QED
    BY <1>1, <1>2, <2>1
<1>5. \A k \in 1..(Len(st) - 1) : FrameAt(new, k) = FrameAt(st, k)
  BY <1>1, <1>2
<1>6. Len(new) = Len(st) /\ FrameAt(new, Len(st)) = f
  BY <1>1, <1>2, <1>3
<1> QED
  BY <1>1, <1>2, <1>4, <1>5, <1>6 DEF new, t

LEMMA OfIs ==
  ASSUME NEW st, IsSeq(st), NEW M
  PROVE  /\ Of(st, M) \subseteq 1..Len(st) /\ Of(st, M) \subseteq Nat
         /\ IsFiniteSet(Of(st, M)) /\ Cardinality(Of(st, M)) \in Nat
         /\ Cardinality(Of(st, M)) = Count(Of(st, M), Len(st) + 1)
<1>1. Len(st) \in Nat
  BY SeqIs
<1>2. Of(st, M) \in SUBSET (1..Len(st))
  BY DEF Of
<1>3. IsFiniteSet(1..Len(st))
  BY <1>1, FS_Interval
<1>4. IsFiniteSet(Of(st, M)) /\ Cardinality(Of(st, M)) \in Nat
  BY <1>2, <1>3, FS_Subset, FS_CardinalityType
<1>5. 1..Len(st) \subseteq Nat
  BY <1>1
<1> QED
  BY <1>1, <1>2, <1>4, <1>5, CountAll

LEMMA OfPush ==
  ASSUME NEW st, IsSeq(st), NEW f, NEW M
  PROVE  Of(Push(f, st), M) = IF f.exit.do \in M THEN Of(st, M) \cup {Len(st) + 1} ELSE Of(st, M)
<1>1. /\ Len(Push(f, st)) = Len(st) + 1 /\ Len(st) \in Nat
      /\ FrameAt(Push(f, st), Len(st) + 1) = f
      /\ \A k \in 1..Len(st) : FrameAt(Push(f, st), k) = FrameAt(st, k)
  BY PushIs, SeqIs
<1>2. 1..(Len(st) + 1) = (1..Len(st)) \cup {Len(st) + 1}
  BY <1>1
<1> QED
  BY <1>1, <1>2, Zenon DEF Of

LEMMA OfPop ==
  ASSUME NEW st, IsSeq(st), st # <<>>, NEW M
  PROVE  /\ Of(Rest(st), M) = Of(st, M) \ {Len(st)}
         /\ Len(st) \in Of(st, M) <=> st[1].exit.do \in M
<1>1. /\ Len(Rest(st)) = Len(st) - 1 /\ Len(st) \in Nat /\ FrameAt(st, Len(st)) = st[1]
      /\ Len(st) \in 1..Len(st)
      /\ \A k \in 1..(Len(st) - 1) : FrameAt(Rest(st), k) = FrameAt(st, k)
  BY PopIs
<1>2. 1..(Len(st) - 1) = (1..Len(st)) \ {Len(st)}
  BY <1>1
<1> QED
  BY <1>1, <1>2, Zenon DEF Of

LEMMA OfRetop ==
  ASSUME NEW st, IsSeq(st), st # <<>>, NEW f, f.exit.do = st[1].exit.do, NEW M
  PROVE  Of(Push(f, Rest(st)), M) = Of(st, M)
<1>1. /\ Len(Push(f, Rest(st))) = Len(st) /\ Len(st) \in Nat
      /\ FrameAt(Push(f, Rest(st)), Len(st)) = f /\ FrameAt(st, Len(st)) = st[1]
      /\ \A k \in 1..(Len(st) - 1) : FrameAt(Push(f, Rest(st)), k) = FrameAt(st, k)
  BY RetopIs
<1>2. \A n \in Nat : \A k \in 1..n : k = n \/ k \in 1..(n - 1)
  OBVIOUS
<1>3. \A k \in 1..Len(st) : k = Len(st) \/ k \in 1..(Len(st) - 1)
  BY <1>1, <1>2
<1> QED
  BY <1>1, <1>3, Zenon DEF Of

LEMMA StackPush ==
  ASSUME NEW st, Stack(st), NEW f, GoodFrame(f), f.exit.do = "item" => st = <<>>
  PROVE  Stack(Push(f, st))
<1>1. /\ IsSeq(Push(f, st)) /\ Len(Push(f, st)) = Len(st) + 1 /\ Push(f, st)[1] = f
      /\ \A i \in 1..Len(st) : Push(f, st)[i + 1] = st[i]
      /\ Len(st) \in Nat /\ (st = <<>> <=> Len(st) = 0)
  BY PushIs, SeqIs DEF Stack
<1>2. ASSUME NEW i \in 1..(Len(st) + 1)
      PROVE  /\ GoodFrame(Push(f, st)[i])
             /\ Push(f, st)[i].exit.do = "item" => i = Len(st) + 1
  <2>1. CASE i = 1
    BY <1>1, <2>1
  <2>2. CASE i # 1
    <3>1. i - 1 \in 1..Len(st) /\ (i - 1) + 1 = i
      BY <1>1, <2>2
    <3>2. Push(f, st)[i] = st[i - 1]
      BY <1>1, <3>1
    <3>3. GoodFrame(st[i - 1]) /\ (st[i - 1].exit.do = "item" => i - 1 = Len(st))
      BY <3>1 DEF Stack
    <3> QED
      BY <1>1, <3>1, <3>2, <3>3
  <2> QED
    BY <2>1, <2>2
<1> QED
  BY <1>1, <1>2 DEF Stack

LEMMA StackPop ==
  ASSUME NEW st, Stack(st), st # <<>>
  PROVE  /\ Stack(Rest(st)) /\ GoodFrame(st[1])
         /\ st[1].exit.do = "item" => Rest(st) = <<>>
<1> DEFINE t == Rest(st)
<1>1. /\ IsSeq(t) /\ Len(t) = Len(st) - 1 /\ Len(st) \in Nat /\ Len(st) # 0
      /\ \A i \in 1..(Len(st) - 1) : t[i] = st[i + 1]
  BY PopIs DEF Stack
<1> HIDE DEF t
<1>2. ASSUME NEW i \in 1..(Len(st) - 1)
      PROVE  GoodFrame(t[i]) /\ (t[i].exit.do = "item" => i = Len(st) - 1)
  <2>1. i + 1 \in 1..Len(st) /\ t[i] = st[i + 1]
    BY <1>1
  <2>2. GoodFrame(st[i + 1]) /\ (st[i + 1].exit.do = "item" => i + 1 = Len(st))
    BY <2>1 DEF Stack
  <2> QED
    BY <1>1, <2>1, <2>2
<1>3. GoodFrame(st[1]) /\ (st[1].exit.do = "item" => 1 = Len(st))
  <2>1. 1 \in 1..Len(st)
    BY <1>1
  <2> QED
    BY <2>1 DEF Stack
<1>4. st[1].exit.do = "item" => t = <<>>
  <2>1. ASSUME st[1].exit.do = "item" PROVE Len(t) = 0
    <3>1. 1 = Len(st)
      BY <1>3, <2>1
    <3>2. Len(t) = Len(st) - 1
      BY <1>1
    <3> QED
      BY <3>1, <3>2
  <2> QED
    BY <1>1, <2>1, SeqIs
<1>5. Stack(t)
  BY <1>1, <1>2 DEF Stack
<1> QED
  BY <1>3, <1>4, <1>5 DEF t

LEMMA StackRetop ==
  ASSUME NEW st, Stack(st), st # <<>>, NEW f, GoodFrame(f), f.exit.do = st[1].exit.do
  PROVE  Stack(Push(f, Rest(st)))
BY StackPop, StackPush

-----------------------------------------------------------------------------
(* The bookmarks of the branches                                            *)

\* The bookmarks bms in ascending order, none before low nor after cur.
Bookmarked(bms, low, cur) ==
  /\ IsSeq(bms)
  /\ \A i \in 1..Len(bms) : bms[i] \in Nat /\ low <= bms[i] /\ bms[i] <= cur
  /\ \A i \in 1..Len(bms) : \A j \in 1..Len(bms) : i <= j => bms[i] <= bms[j]

\* One bookmark for each branch on the stack, and the depths.
Marks(st, bms, nb, nd, od) ==
  /\ Len(bms) = Cardinality(Of(st, Branches))
  /\ nb = Cardinality(Of(st, Branches))
  /\ nd = Cardinality(Of(st, {"not"}))
  /\ od = Cardinality(Of(st, Branches \ {"not"}))
  /\ \A k \in Of(st, Branches) :
        bms[Count(Of(st, Branches), k + 1)] = FrameAt(st, k).exit.bm.tokens

LEMMA CountOf ==
  ASSUME NEW st, IsSeq(st), NEW M, NEW k \in Of(st, M)
  PROVE  /\ k \in Nat /\ k \in 1..Len(st)
         /\ Count(Of(st, M), k + 1) \in 1..Cardinality(Of(st, M))
<1>1. /\ Of(st, M) \subseteq 1..Len(st) /\ Of(st, M) \subseteq Nat
      /\ Cardinality(Of(st, M)) \in Nat /\ Len(st) \in Nat
      /\ Cardinality(Of(st, M)) = Count(Of(st, M), Len(st) + 1)
  BY OfIs, SeqIs
<1>2. k \in Nat /\ k \in 1..Len(st) /\ k + 1 <= Len(st) + 1
  BY <1>1
<1>3. Count(Of(st, M), k + 1) = Count(Of(st, M), k) + 1 /\ Count(Of(st, M), k) \in Nat
  BY <1>1, <1>2, CountStep, CountType
<1>4. Count(Of(st, M), k + 1) <= Count(Of(st, M), Len(st) + 1)
  BY <1>1, <1>2, CountMonotonic
<1> QED
  BY <1>1, <1>2, <1>3, <1>4

LEMMA MarksRetop ==
  ASSUME NEW st, IsSeq(st), st # <<>>, NEW f, f.exit.do = st[1].exit.do,
         f.exit.do \in Branches => f.exit.bm = st[1].exit.bm,
         NEW bms, NEW nb, NEW nd, NEW od, Marks(st, bms, nb, nd, od)
  PROVE  Marks(Push(f, Rest(st)), bms, nb, nd, od)
<1> DEFINE new == Push(f, Rest(st))
<1>1. \A M : Of(new, M) = Of(st, M)
  BY OfRetop
<1>2. /\ Len(st) \in Nat /\ Len(st) \in 1..Len(st)
      /\ FrameAt(new, Len(st)) = f /\ FrameAt(st, Len(st)) = st[1]
      /\ \A k \in 1..(Len(st) - 1) : FrameAt(new, k) = FrameAt(st, k)
  BY RetopIs
<1> HIDE DEF new
<1>3. ASSUME NEW k \in Of(st, Branches)
      PROVE  FrameAt(new, k).exit.bm.tokens = FrameAt(st, k).exit.bm.tokens
  <2>1. k \in 1..Len(st) /\ FrameAt(st, k).exit.do \in Branches
    BY DEF Of
  <2>2. CASE k = Len(st)
    BY <1>2, <2>1, <2>2
  <2>3. CASE k # Len(st)
    <3>1. k \in 1..(Len(st) - 1)
      BY <1>2, <2>1, <2>3
    <3> QED
      BY <1>2, <3>1
  <2> QED
    BY <2>2, <2>3
<1> QED
  BY <1>1, <1>3 DEF Marks, new

LEMMA MarksPush ==
  ASSUME NEW st, IsSeq(st), NEW f, f.exit.do \notin Branches,
         NEW bms, NEW nb, NEW nd, NEW od, Marks(st, bms, nb, nd, od)
  PROVE  Marks(Push(f, st), bms, nb, nd, od)
<1>1. "not" \in Branches
  BY DEF Branches
<1>2. /\ Of(Push(f, st), Branches) = Of(st, Branches)
      /\ Of(Push(f, st), {"not"}) = Of(st, {"not"})
      /\ Of(Push(f, st), Branches \ {"not"}) = Of(st, Branches \ {"not"})
  BY <1>1, OfPush
<1>3. \A k \in 1..Len(st) : FrameAt(Push(f, st), k) = FrameAt(st, k)
  BY PushIs
<1>4. Of(st, Branches) \subseteq 1..Len(st)
  BY OfIs
<1> QED
  BY <1>2, <1>3, <1>4 DEF Marks

LEMMA MarksPop ==
  ASSUME NEW st, IsSeq(st), st # <<>>, st[1].exit.do \notin Branches,
         NEW bms, NEW nb, NEW nd, NEW od, Marks(st, bms, nb, nd, od)
  PROVE  Marks(Rest(st), bms, nb, nd, od)
<1>1. "not" \in Branches
  BY DEF Branches
<1>2. /\ Of(Rest(st), Branches) = Of(st, Branches)
      /\ Of(Rest(st), {"not"}) = Of(st, {"not"})
      /\ Of(Rest(st), Branches \ {"not"}) = Of(st, Branches \ {"not"})
  <2>1. \A M : Of(Rest(st), M) = Of(st, M) \ {Len(st)}
    BY OfPop
  <2>2. \A M : Len(st) \in Of(st, M) <=> st[1].exit.do \in M
    BY OfPop
  <2>3. \A M : st[1].exit.do \notin M => Of(Rest(st), M) = Of(st, M)
    BY <2>1, <2>2
  <2> QED
    BY <1>1, <2>3
<1>3. \A k \in 1..(Len(st) - 1) : FrameAt(Rest(st), k) = FrameAt(st, k)
  BY PopIs
<1>4. IsSeq(Rest(st)) /\ Len(Rest(st)) = Len(st) - 1
  BY PopIs
<1>5. Of(Rest(st), Branches) \subseteq 1..(Len(st) - 1)
  BY <1>4, OfIs
<1>6. \A k \in Of(st, Branches) : FrameAt(Rest(st), k) = FrameAt(st, k)
  BY <1>2, <1>3, <1>5
<1> QED
  BY <1>2, <1>6 DEF Marks

\* A new branch, whose bookmark is the last one.
LEMMA MarksMark ==
  ASSUME NEW st, IsSeq(st), NEW f, f.exit.do \in Branches, NEW cur, f.exit.bm.tokens = cur,
         NEW bms, IsSeq(bms), NEW nb, NEW nd, NEW od, Marks(st, bms, nb, nd, od)
  PROVE  Marks(Push(f, st), Append(bms, cur), nb + 1,
               IF f.exit.do = "not" THEN nd + 1 ELSE nd,
               IF f.exit.do = "not" THEN od ELSE od + 1)
<1> DEFINE new == Push(f, st)
           B == Of(st, Branches)
           n == Len(st) + 1
<1>1. /\ Len(st) \in Nat /\ n \in Nat /\ IsSeq(new) /\ Len(new) = n /\ FrameAt(new, n) = f
      /\ \A k \in 1..Len(st) : FrameAt(new, k) = FrameAt(st, k)
  BY PushIs, SeqIs
<1>2. ASSUME NEW M
      PROVE  Cardinality(Of(new, M)) = IF f.exit.do \in M THEN Cardinality(Of(st, M)) + 1
                                       ELSE Cardinality(Of(st, M))
  <2>1. IsFiniteSet(Of(st, M)) /\ Of(st, M) \subseteq 1..Len(st)
    BY OfIs
  <2>2. n \notin Of(st, M)
    BY <1>1, <2>1
  <2>3. Of(new, M) = IF f.exit.do \in M THEN Of(st, M) \cup {n} ELSE Of(st, M)
    BY OfPush
  <2> QED
    BY <2>1, <2>2, <2>3, FS_AddElement
<1>3. Of(new, Branches) = B \cup {n}
  BY OfPush
<1>4. /\ IsSeq(Append(bms, cur)) /\ Len(Append(bms, cur)) = Len(bms) + 1
      /\ \A i \in 1..Len(bms) : Append(bms, cur)[i] = bms[i]
      /\ Append(bms, cur)[Len(bms) + 1] = cur
  BY AppendIs
<1>5. Len(bms) = Cardinality(B) /\ B \subseteq 1..Len(st) /\ Cardinality(B) \in Nat
  BY OfIs DEF Marks
<1>6. Cardinality(Of(new, Branches)) = Len(bms) + 1
  BY <1>2, <1>5
<1>7. Count(Of(new, Branches), n + 1) = Len(bms) + 1
  BY <1>1, <1>6, OfIs
<1>8. ASSUME NEW k \in B
      PROVE  /\ Count(Of(new, Branches), k + 1) = Count(B, k + 1)
             /\ Count(B, k + 1) \in 1..Len(bms) /\ k \in 1..Len(st)
  <2>1. Count(B, k + 1) \in 1..Len(bms) /\ k \in 1..Len(st)
    BY <1>5, CountOf
  <2>2. ~(n < k + 1)
    BY <1>1, <2>1
  <2>3. \A j : j < k + 1 => (j \in Of(new, Branches) <=> j \in B)
    BY <1>3, <2>2, Zenon
  <2> QED
    BY <2>1, <2>3, CountSame
<1> HIDE DEF new, B, n
<1>9. ASSUME NEW k \in Of(new, Branches)
      PROVE  Append(bms, cur)[Count(Of(new, Branches), k + 1)] = FrameAt(new, k).exit.bm.tokens
  <2>1. CASE k = n
    BY <1>1, <1>4, <1>7, <2>1
  <2>2. CASE k \in B
    <3>1. bms[Count(B, k + 1)] = FrameAt(st, k).exit.bm.tokens
      BY <2>2 DEF Marks, B
    <3> QED
      BY <1>1, <1>4, <1>8, <2>2, <3>1
  <2> QED
    BY <1>3, <2>1, <2>2
<1>10. /\ Cardinality(Of(new, {"not"})) = IF f.exit.do = "not" THEN nd + 1 ELSE nd
       /\ Cardinality(Of(new, Branches \ {"not"})) = IF f.exit.do = "not" THEN od ELSE od + 1
       /\ Cardinality(Of(new, Branches)) = nb + 1
  BY <1>2 DEF Marks
<1> QED
  BY <1>4, <1>6, <1>9, <1>10 DEF Marks, new

\* A branch goes, and with it the last bookmark.
LEMMA MarksUnmark ==
  ASSUME NEW st, IsSeq(st), st # <<>>, st[1].exit.do \in Branches,
         NEW bms, IsSeq(bms), NEW nb, NEW nd, NEW od, Marks(st, bms, nb, nd, od)
  PROVE  /\ Len(bms) \in Nat /\ Len(bms) # 0 /\ bms[Len(bms)] = st[1].exit.bm.tokens
         /\ \A new : IsSeq(new) /\ Len(new) = Len(bms) - 1
                     /\ (\A i \in 1..(Len(bms) - 1) : new[i] = bms[i])
              => Marks(Rest(st), new, nb - 1, IF st[1].exit.do = "not" THEN nd - 1 ELSE nd,
                       IF st[1].exit.do = "not" THEN od ELSE od - 1)
<1> DEFINE B == Of(st, Branches)
           C == Of(Rest(st), Branches)
           n == Len(st)
<1>1. /\ n \in Nat /\ n # 0 /\ FrameAt(st, n) = st[1] /\ IsSeq(Rest(st)) /\ Len(Rest(st)) = n - 1
      /\ \A k \in 1..(n - 1) : FrameAt(Rest(st), k) = FrameAt(st, k)
  BY PopIs
<1>2. ASSUME NEW M
      PROVE  /\ Cardinality(Of(Rest(st), M)) = IF st[1].exit.do \in M THEN Cardinality(Of(st, M)) - 1
                                               ELSE Cardinality(Of(st, M))
  <2>1. IsFiniteSet(Of(st, M))
    BY OfIs
  <2>2. Of(Rest(st), M) = Of(st, M) \ {n} /\ (n \in Of(st, M) <=> st[1].exit.do \in M)
    BY OfPop
  <2>3. CASE n \in Of(st, M)
    BY <2>1, <2>2, <2>3, FS_RemoveElement
  <2>4. CASE n \notin Of(st, M)
    <3>1. Of(Rest(st), M) = Of(st, M)
      BY <2>2, <2>4
    <3> QED
      BY <2>2, <2>4, <3>1
  <2> QED
    BY <2>3, <2>4
<1>3. n \in B /\ C = B \ {n}
  BY OfPop
<1>4. /\ Len(bms) = Cardinality(B) /\ Cardinality(B) \in Nat /\ Cardinality(B) = Count(B, n + 1)
      /\ Cardinality(C) = Cardinality(B) - 1 /\ C \subseteq 1..(n - 1)
  BY <1>1, <1>2, OfIs DEF Marks
<1>5. Count(B, n + 1) \in 1..Cardinality(B)
  BY <1>3, CountOf
<1>6. Len(bms) \in Nat /\ Len(bms) # 0 /\ bms[Len(bms)] = st[1].exit.bm.tokens
  <2>1. bms[Count(B, n + 1)] = FrameAt(st, n).exit.bm.tokens
    BY <1>3 DEF Marks
  <2> HIDE DEF B, n
  <2> QED
    BY <1>1, <1>4, <1>5, <2>1
<1>7. ASSUME NEW k \in C
      PROVE  /\ Count(C, k + 1) = Count(B, k + 1) /\ Count(C, k + 1) \in 1..(Len(bms) - 1)
             /\ k \in 1..(n - 1) /\ k \in B
  <2>1. Count(C, k + 1) \in 1..(Len(bms) - 1) /\ k \in 1..(n - 1)
    BY <1>1, <1>4, CountOf
  <2>2. ~(n < k + 1)
    BY <1>1, <2>1
  <2>3. \A j : j < k + 1 => (j \in C <=> j \in B)
    BY <1>3, <2>2, Zenon
  <2>4. Count(C, k + 1) = Count(B, k + 1)
    BY <2>3, CountSame
  <2> QED
    BY <1>3, <2>1, <2>4
<1>8. /\ Cardinality(Of(Rest(st), {"not"})) = IF st[1].exit.do = "not" THEN nd - 1 ELSE nd
      /\ Cardinality(Of(Rest(st), Branches \ {"not"})) = IF st[1].exit.do = "not" THEN od ELSE od - 1
      /\ Cardinality(C) = nb - 1
  BY <1>2 DEF Marks
<1>9. ASSUME NEW new, IsSeq(new), Len(new) = Len(bms) - 1,
             \A i \in 1..(Len(bms) - 1) : new[i] = bms[i]
      PROVE  Marks(Rest(st), new, nb - 1, IF st[1].exit.do = "not" THEN nd - 1 ELSE nd,
                   IF st[1].exit.do = "not" THEN od ELSE od - 1)
  <2>1. ASSUME NEW k \in C PROVE new[Count(C, k + 1)] = FrameAt(Rest(st), k).exit.bm.tokens
    <3>1. bms[Count(B, k + 1)] = FrameAt(st, k).exit.bm.tokens
      BY <1>7 DEF Marks
    <3> HIDE DEF B, C, n
    <3> QED
      BY <1>1, <1>7, <1>9, <3>1
  <2>2. Len(new) = Cardinality(C)
    BY <1>4, <1>9
  <2> QED
    BY <1>8, <2>1, <2>2 DEF Marks
<1> QED
  BY <1>6, <1>9

\* The first of the bookmarks that equal the last one goes: the others stay.
LEMMA RemoveFirstIs ==
  ASSUME NEW bms, NEW low, NEW cur, Bookmarked(bms, low, cur), Len(bms) # 0,
         NEW v, v = bms[Len(bms)]
  PROVE  /\ IsSeq(RemoveFirst(bms, v)) /\ Len(RemoveFirst(bms, v)) = Len(bms) - 1
         /\ \A i \in 1..(Len(bms) - 1) : RemoveFirst(bms, v)[i] = bms[i]
<1> DEFINE n == Len(bms)
           I == {i \in 1..n : bms[i] = v}
           m == Min(I)
           a == SubSeq(bms, 1, m - 1)
           b == SubSeq(bms, m + 1, n)
<1>1. IsSeq(bms) /\ n \in Nat /\ n # 0 /\ n \in 1..n
  BY SeqIs DEF Bookmarked
<1>2. I \subseteq Nat /\ I # {}
  <2>1. 1..n \subseteq Nat /\ n \in I
    BY <1>1
  <2> QED
    BY <2>1
<1>3. m \in I /\ \A i \in I : m <= i
  BY <1>2, MinIs
<1>4. m \in 1..n /\ bms[m] = v
  BY <1>3
<1>5. RemoveFirst(bms, v) = Cat(a, b)
  <2>1. n \in 1..n /\ bms[n] = v
    BY <1>1
  <2> QED
    BY <1>2, <2>1 DEF Cat, RemoveFirst, RemoveAt, SelectInSeq
<1>6. bms[n] = v /\ \A i \in 1..n : \A j \in 1..n : i <= j => bms[i] <= bms[j]
  BY DEF Bookmarked
<1>6a. \A i \in 1..n : bms[i] \in Nat
  BY DEF Bookmarked
<1> HIDE DEF n, I, m
<1>7. IsSeq(a) /\ Len(a) = m - 1 /\ \A i \in 1..(m - 1) : a[i] = bms[i]
  <2>1. 1 \in Nat \ {0} /\ m - 1 \in Nat /\ m - 1 <= n /\ 1 <= m - 1 + 1 /\ m - 1 - 1 + 1 = m - 1
    BY <1>1, <1>4
  <2>2. /\ IsSeq(a) /\ Len(a) = m - 1 - 1 + 1
        /\ \A i \in 1..(m - 1 - 1 + 1) : a[i] = bms[1 + i - 1]
    BY <1>1, <2>1, SubSeqIs DEF n
  <2>3. \A i \in 1..(m - 1) : 1 + i - 1 = i
    BY <1>4
  <2> HIDE DEF a
  <2> QED
    BY <2>1, <2>2, <2>3
<1>8. IsSeq(b) /\ Len(b) = n - m /\ \A i \in 1..(n - m) : b[i] = bms[m + i]
  <2>1. /\ m + 1 \in Nat \ {0} /\ n \in Nat /\ n <= n /\ m + 1 <= n + 1
        /\ n - (m + 1) + 1 = n - m
    BY <1>1, <1>4
  <2>2. /\ IsSeq(b) /\ Len(b) = n - (m + 1) + 1
        /\ \A i \in 1..(n - (m + 1) + 1) : b[i] = bms[(m + 1) + i - 1]
    BY <1>1, <2>1, SubSeqIs DEF n
  <2>3. \A i \in 1..(n - m) : (m + 1) + i - 1 = m + i
    BY <1>1, <1>4
  <2> HIDE DEF b
  <2> QED
    BY <2>1, <2>2, <2>3
<1> HIDE DEF a, b
<1>9. /\ IsSeq(Cat(a, b)) /\ Len(Cat(a, b)) = (m - 1) + (n - m)
      /\ \A i \in 1..(m - 1) : Cat(a, b)[i] = a[i]
      /\ \A i \in (m - 1 + 1)..(m - 1 + (n - m)) : Cat(a, b)[i] = b[i - (m - 1)]
  <2>1. IsSeq(a) /\ IsSeq(b)
    BY <1>7, <1>8
  <2>2. /\ IsSeq(Cat(a, b)) /\ Len(Cat(a, b)) = Len(a) + Len(b)
        /\ \A i \in 1..Len(a) : Cat(a, b)[i] = a[i]
        /\ \A i \in (Len(a) + 1)..(Len(a) + Len(b)) : Cat(a, b)[i] = b[i - Len(a)]
    BY <2>1, CatIs
  <2>3. Len(a) = m - 1 /\ Len(b) = n - m
    BY <1>7, <1>8
  <2> QED
    BY <2>2, <2>3
<1>10. Len(Cat(a, b)) = n - 1
  BY <1>1, <1>4, <1>9
<1>11. ASSUME NEW i \in 1..(n - 1) PROVE Cat(a, b)[i] = bms[i]
  <2>1. CASE i < m
    <3>1. i \in 1..(m - 1)
      BY <1>1, <1>4, <2>1
    <3> QED
      BY <1>7, <1>9, <3>1
  <2>2. CASE i >= m
    <3>1. /\ i \in (m - 1 + 1)..(m - 1 + (n - m)) /\ i - (m - 1) \in 1..(n - m)
          /\ m + (i - (m - 1)) = i + 1 /\ i + 1 \in 1..n /\ i \in 1..n /\ m <= i /\ m <= i + 1
          /\ i <= n /\ i + 1 <= n
      BY <1>1, <1>4, <2>2
    <3>2. Cat(a, b)[i] = bms[i + 1]
      BY <1>8, <1>9, <3>1
    <3>3. v <= bms[i] /\ bms[i] <= v /\ v <= bms[i + 1] /\ bms[i + 1] <= v
      BY <1>1, <1>4, <1>6, <3>1
    <3>4. bms[i] \in Nat /\ bms[i + 1] \in Nat /\ v \in Nat
      BY <1>4, <1>6a, <3>1
    <3> QED
      BY <3>2, <3>3, <3>4
  <2> QED
    BY <1>1, <1>4, <2>1, <2>2
<1> QED
  BY <1>5, <1>9, <1>10, <1>11 DEF n

-----------------------------------------------------------------------------
(* The stream of the tokens                                                 *)

\* A stream over len lexemes.
Stream(ts, len) ==
  /\ ts = [mode |-> ts.mode, tokens |-> ts.tokens, bookmarks |-> ts.bookmarks,
           current |-> ts.current, purged |-> ts.purged]
  /\ ts.mode \in Modes /\ IsSeq(ts.tokens) /\ ts.current \in Nat /\ ts.purged \in Nat
  /\ ts.purged <= ts.current /\ ts.current <= ts.purged + Len(ts.tokens)
  /\ ts.purged + Len(ts.tokens) <= len
  /\ Bookmarked(ts.bookmarks, ts.purged, ts.current)

LEMMA StreamMake ==
  ASSUME NEW mode \in Modes, NEW toks, IsSeq(toks), NEW bms, NEW cur \in Nat, NEW low \in Nat,
         NEW len, Bookmarked(bms, low, cur), low <= cur, cur <= low + Len(toks),
         low + Len(toks) <= len
  PROVE  Stream([mode |-> mode, tokens |-> toks, bookmarks |-> bms, current |-> cur,
                 purged |-> low], len)
BY DEF Stream

LEMMA NextNonTriviaIs ==
  ASSUME IsSeq(source), NEW n \in Nat, n <= Len(source)
  PROVE  LET i == NextNonTrivia(n)
         IN  /\ i \in Nat /\ n < i /\ i <= Len(source) + 1
             /\ i <= Len(source) => source[i] \notin Trivia
<1> DEFINE l == Len(source)
           T == {i \in (n + 1)..(l + 1) : i <= l => source[i] \notin Trivia}
           P(i) == /\ i <= Len(source) => source[i] \notin Trivia
                   /\ \A j \in (n + 1)..(i - 1) : source[j] \in Trivia
<1>1. l \in Nat
  BY SeqIs
<1>2. T \subseteq Nat /\ T # {}
  <2>1. (n + 1)..(l + 1) \subseteq Nat /\ l + 1 \in (n + 1)..(l + 1) /\ ~(l + 1 <= l)
    BY <1>1
  <2>2. l + 1 \in T
    BY <2>1, Zenon
  <2> QED
    BY <2>1, <2>2, Zenon
<1>3. PICK i \in T : \A y \in T : i <= y
  BY <1>2, LeastIs
<1>4. i \in (n + 1)..(l + 1) /\ i \in Nat
  BY <1>2
<1>5. ASSUME NEW j \in (n + 1)..(i - 1) PROVE source[j] \in Trivia
  <2>1. j \in (n + 1)..(l + 1) /\ ~(i <= j)
    BY <1>1, <1>4
  <2>2. j \notin T
    BY <1>3, <2>1, Zenon
  <2> QED
    BY <2>1, <2>2, Zenon
<1>6. P(i)
  BY <1>5
<1>7. \E k \in (n + 1)..(l + 1) : P(k)
  BY <1>4, <1>6
<1>8. NextNonTrivia(n) \in (n + 1)..(l + 1) /\ P(NextNonTrivia(n))
  <2>1. NextNonTrivia(n) = CHOOSE k \in (n + 1)..(l + 1) : P(k)
    BY Zenon DEF NextNonTrivia
  <2> HIDE DEF P
  <2> QED
    BY <1>7, <2>1, Zenon
<1>9. \A k \in (n + 1)..(l + 1) : k \in Nat /\ n < k /\ k <= l + 1
  BY <1>1
<1> QED
  BY <1>8, <1>9, Zenon

LEMMA ModesClosed ==
  ASSUME NEW mode \in Modes, NEW from, NEW to
  PROVE  ModeAfter(mode, from, to) \in Modes
<1>1. \A m, l : ModeOf(m, l) \in Modes
  BY DEF ModeOf, Modes
<1>2. "Normal" \in Modes
  BY DEF Modes
<1> QED
  BY <1>1, <1>2 DEF ModeAfter

LEMMA FetchIs ==
  ASSUME IsSeq(source), NEW ts, Stream(ts, Len(source)), NEW i \in Nat
  PROVE  LET new == Fetch(ts, i)
         IN  /\ Stream(new, Len(source))
             /\ new.current = ts.current /\ new.bookmarks = ts.bookmarks
             /\ i <= Len(source) => i <= Lexed(new)
             /\ Len(source) <= i => Lexed(new) = Len(source)
             /\ Lexed(ts) <= Lexed(new) /\ Lexed(new) \in Nat
<1> DEFINE n == Lexed(ts)
           l == Len(source)
           to == Min({i, l})
           more == [k \in 1..(to - n) |-> TokenAt(ts, n + k)]
           new == Fetch(ts, i)
<1>1. l \in Nat /\ n \in Nat /\ n <= l /\ n = ts.purged + Len(ts.tokens) /\ Len(ts.tokens) \in Nat
      /\ ts.purged \in Nat /\ IsSeq(ts.tokens)
  BY SeqIs DEF Stream, Lexed
<1>2. to \in {i, l} /\ to <= i /\ to <= l
  <2>1. {i, l} \subseteq Nat /\ {i, l} # {}
    BY <1>1
  <2> QED
    BY <2>1, MinIs
<1>3. to \in Nat
  BY <1>1, <1>2
<1>4. CASE to <= n
  <2>1. new = ts
    BY <1>4 DEF Fetch
  <2>2. i <= l => i <= n
    BY <1>1, <1>2, <1>4
  <2>3. l <= i => n = l
    BY <1>1, <1>2, <1>4
  <2> HIDE DEF new
  <2>4. n <= n
    BY <1>1
  <2> QED
    BY <1>1, <2>1, <2>2, <2>3, <2>4 DEF new
<1>5. CASE ~(to <= n)
  <2>1. new = [ts EXCEPT !.tokens = Cat(@, more), !.mode = ModeAfter(@, n + 1, to)]
    BY <1>5, Zenon DEF Fetch, Cat
  <2> HIDE DEF new, to, n
  <2>2. to - n \in Nat
    BY <1>1, <1>3, <1>5
  <2>3. more \in Seq({TokenAt(ts, n + k) : k \in 1..(to - n)}) /\ Len(more) = to - n
    BY <2>2
  <2>4. IsSeq(more)
    BY <2>3 DEF IsSeq
  <2> HIDE DEF more
  <2>5. IsSeq(Cat(ts.tokens, more)) /\ Len(Cat(ts.tokens, more)) = Len(ts.tokens) + (to - n)
    <3>1. IsSeq(Cat(ts.tokens, more)) /\ Len(Cat(ts.tokens, more)) = Len(ts.tokens) + Len(more)
      BY <1>1, <2>4, CatIs
    <3> QED
      BY <2>3, <3>1
  <2>6. new = [mode |-> ModeAfter(ts.mode, n + 1, to), tokens |-> Cat(ts.tokens, more),
               bookmarks |-> ts.bookmarks, current |-> ts.current, purged |-> ts.purged]
    <3>1. ts = [mode |-> ts.mode, tokens |-> ts.tokens, bookmarks |-> ts.bookmarks,
                current |-> ts.current, purged |-> ts.purged]
      BY DEF Stream
    <3> QED
      BY <2>1, <3>1
  <2> DEFINE toks == Cat(ts.tokens, more)
  <2> HIDE DEF toks
  <2>7. IsSeq(toks) /\ ts.purged + Len(toks) = to /\ to <= l
    <3>1. IsSeq(toks) /\ Len(toks) = Len(ts.tokens) + (to - n)
      BY <2>5, Zenon DEF toks
    <3>2. n = ts.purged + Len(ts.tokens) /\ ts.purged \in Nat /\ Len(ts.tokens) \in Nat
      BY <1>1
    <3>3. to \in Nat /\ to <= l
      BY <1>1, <1>2, <1>3
    <3> QED
      BY <3>1, <3>2, <3>3
  <2>8. Stream([mode |-> ModeAfter(ts.mode, n + 1, to), tokens |-> toks, bookmarks |-> ts.bookmarks,
                current |-> ts.current, purged |-> ts.purged], l)
    <3>1. ModeAfter(ts.mode, n + 1, to) \in Modes
      BY ModesClosed DEF Stream
    <3>2. /\ ts.current \in Nat /\ ts.purged \in Nat /\ ts.purged <= ts.current /\ ts.current <= n
          /\ Bookmarked(ts.bookmarks, ts.purged, ts.current)
      BY <1>1 DEF Stream
    <3>3. ts.current <= ts.purged + Len(toks)
      BY <1>1, <1>3, <1>5, <2>7, <3>2
    <3> QED
      BY <2>7, <3>1, <3>2, <3>3, StreamMake
  <2>9. Stream(new, l)
    BY <2>6, <2>8 DEF toks
  <2>10. /\ new.current = ts.current /\ new.bookmarks = ts.bookmarks /\ Lexed(new) = to
    BY <2>6, <2>7 DEF Lexed, toks
  <2>11. (i <= l => i <= to) /\ (l <= i => to = l) /\ n <= to
    BY <1>1, <1>2, <1>3, <1>5
  <2> QED
    BY <1>3, <2>9, <2>10, <2>11 DEF new, n
<1> QED
  BY <1>4, <1>5

LEMMA AdvanceToIs ==
  ASSUME IsSeq(source), NEW ts, Stream(ts, Len(source)), NEW i \in Nat,
         ts.current <= i, i <= Lexed(ts)
  PROVE  LET new == AdvanceTo(ts, i)
         IN  Stream(new, Len(source)) /\ new.current = i /\ new.bookmarks = ts.bookmarks
<1> DEFINE new == AdvanceTo(ts, i)
           bms == ts.bookmarks
           l == Len(source)
           left == IF bms = <<>> THEN i ELSE Head(bms)
<1>1. l \in Nat /\ ts.purged \in Nat /\ ts.current \in Nat /\ ts.purged <= ts.current
      /\ IsSeq(ts.tokens) /\ Len(ts.tokens) \in Nat /\ Bookmarked(bms, ts.purged, ts.current)
      /\ ts.purged + Len(ts.tokens) <= l /\ ts.mode \in Modes
      /\ i <= ts.purged + Len(ts.tokens)
  BY SeqIs DEF Stream, Lexed
<1>2. CASE i = ts.current
  BY <1>2 DEF AdvanceTo
<1>3. CASE i # ts.current
  <2>1. new = [ts EXCEPT !.current = i, !.purged = left,
                         !.tokens = SubSeq(@, left - ts.purged + 1, Len(@))]
    BY <1>3, Zenon DEF AdvanceTo
  <2>2. new = [mode |-> ts.mode, tokens |-> SubSeq(ts.tokens, left - ts.purged + 1, Len(ts.tokens)),
               bookmarks |-> bms, current |-> i, purged |-> left]
    <3>1. ts = [mode |-> ts.mode, tokens |-> ts.tokens, bookmarks |-> ts.bookmarks,
                current |-> ts.current, purged |-> ts.purged]
      BY DEF Stream
    <3> HIDE DEF new, left
    <3> QED
      BY <2>1, <3>1
  <2>3. left \in Nat /\ ts.purged <= left /\ left <= i /\ Bookmarked(bms, left, i)
    <3>1. IsSeq(bms) /\ Len(bms) \in Nat /\ (bms = <<>> <=> Len(bms) = 0)
      BY <1>1, SeqIs DEF Bookmarked
    <3>2. CASE bms = <<>>
      <4>1. left = i /\ Len(bms) = 0 /\ 1..0 = {}
        BY <3>1, <3>2
      <4>2. Bookmarked(bms, i, i)
        BY <3>1, <4>1 DEF Bookmarked
      <4> QED
        BY <1>1, <4>1, <4>2
    <3>3. CASE bms # <<>>
      <4>1. left = bms[1] /\ 1 \in 1..Len(bms)
        BY <3>1, <3>3, TailIs
      <4> HIDE DEF left
      <4>2. left \in Nat /\ ts.purged <= left /\ left <= ts.current
        BY <1>1, <4>1 DEF Bookmarked
      <4>3. \A k \in 1..Len(bms) : bms[k] \in Nat /\ left <= bms[k] /\ bms[k] <= ts.current
        BY <1>1, <3>1, <4>1 DEF Bookmarked
      <4>4. \A k \in 1..Len(bms) : bms[k] \in Nat /\ left <= bms[k] /\ bms[k] <= i
        BY <1>1, <4>3
      <4>5. Bookmarked(bms, left, i)
        BY <1>1, <4>4 DEF Bookmarked
      <4> QED
        BY <1>1, <4>2, <4>5
    <3> QED
      BY <3>2, <3>3
  <2> DEFINE toks == SubSeq(ts.tokens, left - ts.purged + 1, Len(ts.tokens))
  <2> HIDE DEF new, left
  <2>4. IsSeq(toks) /\ Len(toks) = Len(ts.tokens) - (left - ts.purged + 1) + 1
    <3>1. /\ left - ts.purged + 1 \in Nat \ {0} /\ Len(ts.tokens) <= Len(ts.tokens)
          /\ left - ts.purged + 1 <= Len(ts.tokens) + 1
      BY <1>1, <2>3
    <3> QED
      BY <1>1, <3>1, SubSeqIs
  <2> HIDE DEF toks
  <2>5. left + Len(toks) = ts.purged + Len(ts.tokens)
    BY <1>1, <2>3, <2>4, SMTT(30)
  <2>6. Stream([mode |-> ts.mode, tokens |-> toks, bookmarks |-> bms, current |-> i,
                purged |-> left], l)
    BY <1>1, <2>3, <2>4, <2>5, StreamMake
  <2>7. new = [mode |-> ts.mode, tokens |-> toks, bookmarks |-> bms, current |-> i, purged |-> left]
    BY <2>2 DEF toks
  <2>8. new.current = i /\ new.bookmarks = bms
    BY <2>7
  <2> QED
    BY <2>6, <2>7, <2>8 DEF new
<1> QED
  BY <1>2, <1>3

LEMMA MarkTokensIs ==
  ASSUME NEW len, NEW ts, Stream(ts, len)
  PROVE  LET new == MarkTokens(ts)
         IN  /\ Stream(new, len) /\ new.current = ts.current
             /\ new.bookmarks = Append(ts.bookmarks, ts.current)
<1> DEFINE bms == ts.bookmarks
           more == Append(bms, ts.current)
           new == MarkTokens(ts)
<1>1. IsSeq(bms) /\ Len(bms) \in Nat /\ (bms = <<>> <=> Len(bms) = 0)
  BY SeqIs DEF Stream, Bookmarked
<1>2. bms = <<>> \/ Last(bms) <= ts.current
  BY <1>1 DEF Stream, Bookmarked, Last
<1>3. new = [ts EXCEPT !.bookmarks = more]
  BY <1>2 DEF MarkTokens
<1>4. ts = [mode |-> ts.mode, tokens |-> ts.tokens, bookmarks |-> ts.bookmarks,
            current |-> ts.current, purged |-> ts.purged]
  BY DEF Stream
<1>5. new = [mode |-> ts.mode, tokens |-> ts.tokens, bookmarks |-> more,
             current |-> ts.current, purged |-> ts.purged]
  <2> HIDE DEF new, more
  <2> QED
    BY <1>3, <1>4
<1>6. Bookmarked(more, ts.purged, ts.current)
  <2>1. /\ IsSeq(more) /\ Len(more) = Len(bms) + 1 /\ more[Len(bms) + 1] = ts.current
        /\ \A i \in 1..Len(bms) : more[i] = bms[i]
    BY <1>1, AppendIs
  <2> HIDE DEF more
  <2>2. ts.current \in Nat /\ ts.purged \in Nat /\ ts.purged <= ts.current
        /\ Bookmarked(bms, ts.purged, ts.current)
    BY DEF Stream
  <2>3. \A i \in 1..(Len(bms) + 1) : i = Len(bms) + 1 \/ i \in 1..Len(bms)
    BY <1>1
  <2>4. ASSUME NEW i \in 1..(Len(bms) + 1)
        PROVE  more[i] \in Nat /\ ts.purged <= more[i] /\ more[i] <= ts.current
    <3>1. CASE i = Len(bms) + 1
      BY <2>1, <2>2, <3>1
    <3>2. CASE i \in 1..Len(bms)
      <4>1. bms[i] \in Nat /\ ts.purged <= bms[i] /\ bms[i] <= ts.current /\ more[i] = bms[i]
        BY <2>1, <2>2, <3>2 DEF Bookmarked
      <4> QED
        BY <4>1
    <3> QED
      BY <2>3, <3>1, <3>2
  <2>5. ASSUME NEW i \in 1..(Len(bms) + 1), NEW j \in 1..(Len(bms) + 1), i <= j
        PROVE  more[i] <= more[j]
    <3>1. CASE j = Len(bms) + 1
      BY <2>1, <2>4, <3>1
    <3>2. CASE j \in 1..Len(bms)
      <4>1. i \in 1..Len(bms)
        BY <1>1, <2>5, <3>2
      <4>2. bms[i] <= bms[j]
        BY <2>2, <2>5, <3>2, <4>1 DEF Bookmarked
      <4> QED
        BY <2>1, <3>2, <4>1, <4>2
    <3> QED
      BY <2>3, <3>1, <3>2
  <2> QED
    BY <2>1, <2>4, <2>5 DEF Bookmarked
<1> HIDE DEF new, more
<1>7. Stream(new, len)
  BY <1>5, <1>6, StreamMake DEF Stream
<1>8. new.current = ts.current /\ new.bookmarks = more
  BY <1>5
<1> QED
  BY <1>7, <1>8 DEF new, more

\* Back to the last bookmark.
LEMMA RestoreTokensIs ==
  ASSUME NEW len, NEW ts, Stream(ts, len), Len(ts.bookmarks) # 0,
         NEW v, v = ts.bookmarks[Len(ts.bookmarks)]
  PROVE  LET new == RestoreTokens(ts, v)
         IN  Stream(new, len) /\ new.current = v /\ new.bookmarks = ts.bookmarks
<1> DEFINE bms == ts.bookmarks
           new == RestoreTokens(ts, v)
<1>1. ts = [mode |-> ts.mode, tokens |-> ts.tokens, bookmarks |-> ts.bookmarks,
            current |-> ts.current, purged |-> ts.purged]
  BY DEF Stream
<1>2. new = [mode |-> ts.mode, tokens |-> ts.tokens, bookmarks |-> bms,
             current |-> v, purged |-> ts.purged]
  BY <1>1 DEF RestoreTokens
<1>3. IsSeq(bms) /\ Len(bms) \in Nat /\ Len(bms) \in 1..Len(bms)
  BY SeqIs DEF Stream, Bookmarked
<1>4. Bookmarked(bms, ts.purged, ts.current)
  BY DEF Stream
<1>5. v \in Nat /\ ts.purged <= v /\ v <= ts.current
  BY <1>3, <1>4 DEF Bookmarked
<1>6. \A i \in 1..Len(bms) : i <= Len(bms)
  BY <1>3
<1>7. Bookmarked(bms, ts.purged, v)
  BY <1>3, <1>4, <1>6 DEF Bookmarked
<1>8. /\ ts.mode \in Modes /\ IsSeq(ts.tokens) /\ Len(ts.tokens) \in Nat /\ ts.purged \in Nat
      /\ ts.current \in Nat /\ ts.current <= ts.purged + Len(ts.tokens)
      /\ ts.purged + Len(ts.tokens) <= len
  BY SeqIs DEF Stream
<1>9. v <= ts.purged + Len(ts.tokens)
  BY <1>5, <1>8
<1> HIDE DEF new
<1>10. Stream(new, len)
  BY <1>2, <1>5, <1>7, <1>8, <1>9, StreamMake
<1>11. new.current = v /\ new.bookmarks = bms
  BY <1>2
<1> QED
  BY <1>10, <1>11 DEF new

LEMMA UnmarkTokensIs ==
  ASSUME NEW len, NEW ts, Stream(ts, len), Len(ts.bookmarks) # 0,
         NEW v, v = ts.bookmarks[Len(ts.bookmarks)]
  PROVE  LET new == UnmarkTokens(ts, v)
         IN  /\ Stream(new, len) /\ new.current = ts.current
             /\ IsSeq(new.bookmarks) /\ Len(new.bookmarks) = Len(ts.bookmarks) - 1
             /\ \A i \in 1..(Len(ts.bookmarks) - 1) : new.bookmarks[i] = ts.bookmarks[i]
<1> DEFINE bms == ts.bookmarks
           less == RemoveFirst(bms, v)
           new == UnmarkTokens(ts, v)
<1>1. ts = [mode |-> ts.mode, tokens |-> ts.tokens, bookmarks |-> ts.bookmarks,
            current |-> ts.current, purged |-> ts.purged]
  BY DEF Stream
<1>2. new = [mode |-> ts.mode, tokens |-> ts.tokens, bookmarks |-> less,
             current |-> ts.current, purged |-> ts.purged]
  <2>1. new = [ts EXCEPT !.bookmarks = less]
    BY Zenon DEF UnmarkTokens
  <2> HIDE DEF new, less
  <2> QED
    BY <1>1, <2>1
<1>3. Bookmarked(bms, ts.purged, ts.current)
  BY DEF Stream
<1>4. IsSeq(bms) /\ Len(bms) \in Nat
  BY <1>3, SeqIs DEF Bookmarked
<1>5. /\ IsSeq(less) /\ Len(less) = Len(bms) - 1
      /\ \A i \in 1..(Len(bms) - 1) : less[i] = bms[i]
  BY <1>3, RemoveFirstIs
<1> HIDE DEF new, less
<1>6. \A i \in 1..(Len(bms) - 1) : i \in 1..Len(bms)
  BY <1>4
<1>7. Bookmarked(less, ts.purged, ts.current)
  <2>1. \A i \in 1..Len(less) : i \in 1..Len(bms) /\ less[i] = bms[i]
    BY <1>5, <1>6
  <2> QED
    BY <1>3, <1>5, <2>1 DEF Bookmarked
<1>8. Stream(new, len)
  BY <1>2, <1>7, StreamMake DEF Stream
<1>9. new.current = ts.current /\ new.bookmarks = less
  BY <1>2
<1> QED
  BY <1>5, <1>8, <1>9 DEF new

-----------------------------------------------------------------------------
(* The tokens among the events                                              *)

\* Events of the same type and, for tokens, with the same end.
Alike(a, b) == a.type = b.type /\ (a.type = "Token" => a.to = b.to)

Agree(e, f, n) == \A i \in 1..n : Alike(e[i], f[i])

Tok(e) == {i \in 1..Len(e) : e[i].type = "Token"}

\* The tokens in e are the first c tokens of the source, in order.
Ledger(e, c) ==
  /\ Count(Tok(e), Len(e) + 1) = c
  /\ \A i \in Tok(e) : e[i].to = Count(Tok(e), i + 1)

LEMMA TokIs ==
  ASSUME NEW e, IsSeq(e)
  PROVE  Tok(e) \subseteq 1..Len(e) /\ Tok(e) \subseteq Nat /\ Len(e) \in Nat
<1>1. Len(e) \in Nat
  BY SeqIs
<1>2. 1..Len(e) \subseteq Nat
  BY <1>1
<1> QED
  BY <1>1, <1>2 DEF Tok

LEMMA TokPrefix ==
  ASSUME NEW e, IsSeq(e), NEW f, IsSeq(f), NEW n \in Nat, n <= Len(e), n <= Len(f), Agree(e, f, n)
  PROVE  /\ \A i \in 1..n : i \in Tok(e) <=> i \in Tok(f)
         /\ \A k \in 0..n : Count(Tok(e), k + 1) = Count(Tok(f), k + 1)
<1>1. /\ Len(e) \in Nat /\ Len(f) \in Nat
      /\ Tok(e) \subseteq 1..Len(e) /\ Tok(f) \subseteq 1..Len(f)
  BY TokIs
<1>2. ASSUME NEW i \in 1..n PROVE i \in Tok(e) <=> i \in Tok(f)
  <2>1. i \in 1..Len(e) /\ i \in 1..Len(f)
    BY <1>1
  <2>2. e[i].type = f[i].type
    BY DEF Agree, Alike
  <2> QED
    BY <2>1, <2>2 DEF Tok
<1>3. ASSUME NEW k \in 0..n PROVE Count(Tok(e), k + 1) = Count(Tok(f), k + 1)
  <2>1. ASSUME NEW j, j < k + 1 PROVE j \in Tok(e) <=> j \in Tok(f)
    <3>1. CASE j \in 1..n
      BY <1>2, <3>1
    <3>2. CASE j \notin 1..n
      <4>1. j \notin 1..Len(e)
        <5> SUFFICES ASSUME j \in 1..Len(e) PROVE FALSE
          OBVIOUS
        <5>1. j \in 1..n
          BY <1>1, <2>1
        <5> QED
          BY <3>2, <5>1
      <4>2. j \notin 1..Len(f)
        <5> SUFFICES ASSUME j \in 1..Len(f) PROVE FALSE
          OBVIOUS
        <5>1. j \in 1..n
          BY <1>1, <2>1
        <5> QED
          BY <3>2, <5>1
      <4> QED
        BY <1>1, <4>1, <4>2
    <3> QED
      BY <3>1, <3>2
  <2> QED
    BY <2>1, CountSame
<1> QED
  BY <1>2, <1>3

\* Up to event Len(f), and what comes then does not matter.
LEMMA LedgerCut ==
  ASSUME NEW e, IsSeq(e), NEW f, IsSeq(f), Len(f) <= Len(e), Agree(e, f, Len(f)),
         NEW c, Ledger(e, c)
  PROVE  Ledger(f, Count(Tok(e), Len(f) + 1))
<1>1. Len(e) \in Nat /\ Len(f) \in Nat /\ Tok(f) \subseteq 1..Len(f)
  BY TokIs
<1>2. Len(f) <= Len(f)
  BY <1>1
<1>3. /\ \A i \in 1..Len(f) : i \in Tok(e) <=> i \in Tok(f)
      /\ \A k \in 0..Len(f) : Count(Tok(e), k + 1) = Count(Tok(f), k + 1)
  BY <1>1, <1>2, TokPrefix
<1>4. Len(f) \in 0..Len(f)
  BY <1>1
<1>5. ASSUME NEW i \in Tok(f) PROVE f[i].to = Count(Tok(f), i + 1)
  <2>1. i \in 1..Len(f) /\ i \in 0..Len(f)
    BY <1>1
  <2>2. i \in Tok(e)
    BY <1>3, <2>1
  <2>3. e[i].type = "Token" /\ e[i].to = Count(Tok(e), i + 1)
    BY <2>2 DEF Tok, Ledger
  <2>4. e[i].to = f[i].to
    BY <2>1, <2>3 DEF Agree, Alike
  <2> QED
    BY <1>3, <2>1, <2>3, <2>4
<1> QED
  BY <1>3, <1>4, <1>5 DEF Ledger

\* Then m more tokens.
LEMMA LedgerTokens ==
  ASSUME NEW e, IsSeq(e), NEW f, IsSeq(f), NEW m \in Nat, Len(f) = Len(e) + m,
         Agree(e, f, Len(e)), NEW c, Ledger(e, c),
         \A j \in 1..m : f[Len(e) + j].type = "Token" /\ f[Len(e) + j].to = c + j
  PROVE  Ledger(f, c + m)
<1> DEFINE n == Len(e)
           F == Tok(f)
<1>1. n \in Nat /\ Len(f) \in Nat /\ F \subseteq 1..Len(f) /\ F \subseteq Nat /\ n <= n /\ n <= Len(f)
  BY TokIs
<1>2. /\ \A i \in 1..n : i \in Tok(e) <=> i \in F
      /\ \A k \in 0..n : Count(Tok(e), k + 1) = Count(F, k + 1)
  BY <1>1, TokPrefix
<1>3. Count(F, n + 1) = c
  BY <1>1, <1>2 DEF Ledger
<1>4. ASSUME NEW j \in 0..m PROVE Count(F, n + j + 1) = c + j
  <2>1. n + 1 \in Nat /\ n + j + 1 \in Nat /\ n + 1 <= n + j + 1
    BY <1>1
  <2>2. (n + 1)..(n + j + 1 - 1) \subseteq F
    <3> SUFFICES ASSUME NEW i \in (n + 1)..(n + j + 1 - 1) PROVE i \in F
      OBVIOUS
    <3>1. i \in 1..Len(f) /\ i - n \in 1..m /\ n + (i - n) = i
      BY <1>1
    <3>2. f[n + (i - n)].type = "Token"
      BY <3>1
    <3> QED
      BY <3>1, <3>2 DEF Tok
  <2>3. Count(F, n + j + 1) = Count(F, n + 1) + (n + j + 1 - (n + 1))
    <3> DEFINE k == n + 1
               l == n + j + 1
    <3>1. k \in Nat /\ l \in Nat /\ k <= l /\ k..(l - 1) \subseteq F /\ F \subseteq Nat
      BY <1>1, <2>1, <2>2
    <3> HIDE DEF F, k, l
    <3>2. Count(F, l) = Count(F, k) + (l - k)
      BY <3>1, CountRun
    <3> QED
      BY <3>2 DEF k, l
  <2>4. Count(F, n + 1) \in Nat
    BY <1>1, <2>1, CountType
  <2> HIDE DEF F, n
  <2> QED
    BY <1>1, <1>3, <2>3, <2>4
<1>5. Count(F, Len(f) + 1) = c + m
  BY <1>1, <1>4
<1>6. ASSUME NEW i \in F PROVE f[i].to = Count(F, i + 1)
  <2>1. i \in 1..Len(f) /\ f[i].type = "Token"
    BY DEF Tok
  <2>2. CASE i <= n
    <3>1. i \in 1..n /\ i \in 0..n
      BY <1>1, <2>1, <2>2
    <3>2. i \in Tok(e)
      BY <1>2, <3>1
    <3>3. e[i].type = "Token" /\ e[i].to = Count(Tok(e), i + 1)
      BY <3>2 DEF Tok, Ledger
    <3>4. e[i].to = f[i].to
      BY <3>1, <3>3 DEF Agree, Alike
    <3> QED
      BY <1>2, <3>1, <3>3, <3>4
  <2>3. CASE i > n
    <3>1. i - n \in 1..m /\ i - n \in 0..m /\ n + (i - n) = i
      BY <1>1, <2>1, <2>3
    <3>2. f[i].to = c + (i - n)
      BY <3>1
    <3> HIDE DEF F, n
    <3> QED
      BY <1>4, <3>1, <3>2
  <2> QED
    BY <1>1, <2>1, <2>2, <2>3
<1> QED
  BY <1>5, <1>6 DEF Ledger

\* Then events that are not tokens.
LEMMA LedgerOthers ==
  ASSUME NEW e, IsSeq(e), NEW f, IsSeq(f), NEW m \in Nat, Len(f) = Len(e) + m,
         Agree(e, f, Len(e)), NEW c, Ledger(e, c),
         \A j \in 1..m : f[Len(e) + j].type # "Token"
  PROVE  Ledger(f, c)
<1> DEFINE n == Len(e)
           F == Tok(f)
<1>1. n \in Nat /\ Len(f) \in Nat /\ F \subseteq 1..Len(f) /\ F \subseteq Nat /\ n <= n /\ n <= Len(f)
  BY TokIs
<1>2. /\ \A i \in 1..n : i \in Tok(e) <=> i \in F
      /\ \A k \in 0..n : Count(Tok(e), k + 1) = Count(F, k + 1)
  BY <1>1, TokPrefix
<1>3. Count(F, n + 1) = c
  BY <1>1, <1>2 DEF Ledger
<1>4. \A i \in (n + 1)..(n + m) : i \notin F
  <2> TAKE i \in (n + 1)..(n + m)
  <2>1. i - n \in 1..m /\ n + (i - n) = i
    BY <1>1
  <2>2. f[n + (i - n)].type # "Token"
    BY <2>1
  <2> QED
    BY <2>1, <2>2 DEF Tok
<1>5. Count(F, Len(f) + 1) = c
  <2>1. n + 1 \in Nat /\ Len(f) + 1 \in Nat /\ n + 1 <= Len(f) + 1 /\ Len(f) + 1 - 1 = n + m
    BY <1>1
  <2>2. Count(F, Len(f) + 1) = Count(F, n + 1)
    BY <1>1, <1>4, <2>1, CountNone
  <2> QED
    BY <1>3, <2>2
<1>6. ASSUME NEW i \in F PROVE f[i].to = Count(F, i + 1)
  <2>1. i \in 1..n /\ i \in 0..n
    <3>1. i \in 1..Len(f) /\ i \notin (n + 1)..(n + m)
      BY <1>1, <1>4
    <3> QED
      BY <1>1, <3>1
  <2>2. i \in Tok(e)
    BY <1>2, <2>1
  <2>3. e[i].type = "Token" /\ e[i].to = Count(Tok(e), i + 1)
    BY <2>2 DEF Tok, Ledger
  <2>4. e[i].to = f[i].to
    BY <2>1, <2>3 DEF Agree, Alike
  <2> QED
    BY <1>2, <2>1, <2>3, <2>4
<1> QED
  BY <1>5, <1>6 DEF Ledger

\* How many tokens are among the events em handed out and the first n of e.
Upto(em, e, n) == Count(Tok(Cat(em, e)), Len(em) + n + 1)

LEMMA CatAgree ==
  ASSUME NEW em, IsSeq(em), NEW e, IsSeq(e), NEW f, IsSeq(f), NEW n \in Nat,
         n <= Len(e), n <= Len(f), Agree(e, f, n)
  PROVE  /\ Agree(Cat(em, e), Cat(em, f), Len(em) + n)
         /\ \A k \in 0..n : Upto(em, e, k) = Upto(em, f, k)
<1>1. Len(em) \in Nat /\ Len(e) \in Nat /\ Len(f) \in Nat
  BY SeqIs
<1>2. /\ IsSeq(Cat(em, e)) /\ Len(Cat(em, e)) = Len(em) + Len(e)
      /\ \A i \in 1..Len(em) : Cat(em, e)[i] = em[i]
      /\ \A i \in (Len(em) + 1)..(Len(em) + Len(e)) : Cat(em, e)[i] = e[i - Len(em)]
  BY CatIs
<1>3. /\ IsSeq(Cat(em, f)) /\ Len(Cat(em, f)) = Len(em) + Len(f)
      /\ \A i \in 1..Len(em) : Cat(em, f)[i] = em[i]
      /\ \A i \in (Len(em) + 1)..(Len(em) + Len(f)) : Cat(em, f)[i] = f[i - Len(em)]
  BY CatIs
<1>4. ASSUME NEW i \in 1..(Len(em) + n) PROVE Alike(Cat(em, e)[i], Cat(em, f)[i])
  <2>1. CASE i <= Len(em)
    <3>1. i \in 1..Len(em)
      BY <1>1, <2>1
    <3>2. Cat(em, e)[i] = Cat(em, f)[i]
      BY <1>2, <1>3, <3>1
    <3> QED
      BY <3>2 DEF Alike
  <2>2. CASE i > Len(em)
    <3>1. /\ i \in (Len(em) + 1)..(Len(em) + Len(e)) /\ i \in (Len(em) + 1)..(Len(em) + Len(f))
          /\ i - Len(em) \in 1..n
      BY <1>1, <2>2
    <3> QED
      BY <1>2, <1>3, <3>1 DEF Agree
  <2> QED
    BY <1>1, <2>1, <2>2
<1>5. Agree(Cat(em, e), Cat(em, f), Len(em) + n)
  BY <1>4 DEF Agree
<1>6. \A k \in 0..(Len(em) + n) : Count(Tok(Cat(em, e)), k + 1) = Count(Tok(Cat(em, f)), k + 1)
  <2>1. Len(em) + n \in Nat /\ Len(em) + n <= Len(em) + Len(e) /\ Len(em) + n <= Len(em) + Len(f)
    BY <1>1
  <2>2. /\ IsSeq(Cat(em, e)) /\ Len(em) + n <= Len(Cat(em, e))
        /\ IsSeq(Cat(em, f)) /\ Len(em) + n <= Len(Cat(em, f))
    BY <1>2, <1>3, <2>1
  <2> DEFINE l == Len(em) + n
  <2>3. l \in Nat /\ l <= Len(Cat(em, e)) /\ l <= Len(Cat(em, f)) /\ Agree(Cat(em, e), Cat(em, f), l)
    BY <1>5, <2>1, <2>2
  <2> HIDE DEF l
  <2>4. \A k \in 0..l : Count(Tok(Cat(em, e)), k + 1) = Count(Tok(Cat(em, f)), k + 1)
    BY <2>2, <2>3, TokPrefix
  <2> QED
    BY <2>4 DEF l
<1>7. ASSUME NEW k \in 0..n PROVE Upto(em, e, k) = Upto(em, f, k)
  <2>1. Len(em) + k \in 0..(Len(em) + n)
    BY <1>1
  <2> QED
    BY <1>6, <2>1 DEF Upto
<1> QED
  BY <1>5, <1>7

\* The same three facts for the events that are still in the buffer.
LEMMA BookCut ==
  ASSUME NEW em, IsSeq(em), NEW e, IsSeq(e), NEW f, IsSeq(f), Len(f) <= Len(e),
         Agree(e, f, Len(f)), NEW c, Ledger(Cat(em, e), c)
  PROVE  Ledger(Cat(em, f), Upto(em, e, Len(f)))
<1>1. Len(em) \in Nat /\ Len(e) \in Nat /\ Len(f) \in Nat /\ Len(f) <= Len(f)
  BY SeqIs
<1>2. /\ IsSeq(Cat(em, e)) /\ Len(Cat(em, e)) = Len(em) + Len(e)
      /\ IsSeq(Cat(em, f)) /\ Len(Cat(em, f)) = Len(em) + Len(f)
  BY CatIs
<1>3. Agree(Cat(em, e), Cat(em, f), Len(em) + Len(f))
  BY <1>1, CatAgree
<1>4. Len(em) + Len(f) <= Len(em) + Len(e)
  BY <1>1
<1> QED
  BY <1>2, <1>3, <1>4, LedgerCut DEF Upto

LEMMA BookAll ==
  ASSUME NEW em, IsSeq(em), NEW e, IsSeq(e), NEW c, Ledger(Cat(em, e), c)
  PROVE  Upto(em, e, Len(e)) = c /\ c \in Nat
<1>1. Len(em) \in Nat /\ Len(e) \in Nat
  BY SeqIs
<1>2. IsSeq(Cat(em, e)) /\ Len(Cat(em, e)) = Len(em) + Len(e)
  BY CatIs
<1>3. Count(Tok(Cat(em, e)), Len(em) + Len(e) + 1) \in Nat
  <2>1. Tok(Cat(em, e)) \subseteq Nat /\ Len(em) + Len(e) + 1 \in Nat
    BY <1>1, <1>2, TokIs
  <2> QED
    BY <2>1, CountType
<1> QED
  BY <1>2, <1>3 DEF Ledger, Upto

LEMMA BookTokens ==
  ASSUME NEW em, IsSeq(em), NEW e, IsSeq(e), NEW f, IsSeq(f), NEW m \in Nat, Len(f) = Len(e) + m,
         Agree(e, f, Len(e)), NEW c, Ledger(Cat(em, e), c),
         \A j \in 1..m : f[Len(e) + j].type = "Token" /\ f[Len(e) + j].to = c + j
  PROVE  Ledger(Cat(em, f), c + m)
<1>1. Len(em) \in Nat /\ Len(e) \in Nat /\ Len(f) \in Nat /\ Len(e) <= Len(e) /\ Len(e) <= Len(f)
  BY SeqIs
<1>2. IsSeq(Cat(em, e)) /\ Len(Cat(em, e)) = Len(em) + Len(e)
  BY CatIs
<1>2a. /\ IsSeq(Cat(em, f)) /\ Len(Cat(em, f)) = Len(em) + Len(f)
       /\ \A i \in 1..Len(f) : Cat(em, f)[Len(em) + i] = f[i]
  <2>1. IsSeq(Cat(em, f)) /\ Len(Cat(em, f)) = Len(em) + Len(f)
    BY CatIs
  <2>2. ASSUME NEW i \in 1..Len(f) PROVE Cat(em, f)[Len(em) + i] = f[i]
    BY CatRight, SMTT(30)
  <2> QED
    BY <2>1, <2>2
<1>3. Agree(Cat(em, e), Cat(em, f), Len(em) + Len(e))
  BY <1>1, CatAgree
<1>4. Len(em) + Len(f) = Len(em) + Len(e) + m
  BY <1>1
<1>5. ASSUME NEW j \in 1..m PROVE Cat(em, f)[Len(em) + Len(e) + j] = f[Len(e) + j]
  <2>1. Len(e) + j \in 1..Len(f) /\ Len(em) + (Len(e) + j) = Len(em) + Len(e) + j
    BY <1>1
  <2> QED
    BY <1>2a, <2>1
<1>6. \A j \in 1..m : /\ Cat(em, f)[Len(Cat(em, e)) + j].type = "Token"
                        /\ Cat(em, f)[Len(Cat(em, e)) + j].to = c + j
  BY <1>2, <1>5
<1>7. Len(Cat(em, f)) = Len(Cat(em, e)) + m /\ Agree(Cat(em, e), Cat(em, f), Len(Cat(em, e)))
  BY <1>2, <1>2a, <1>3, <1>4
<1> QED
  BY <1>2, <1>2a, <1>6, <1>7, LedgerTokens

LEMMA BookOthers ==
  ASSUME NEW em, IsSeq(em), NEW e, IsSeq(e), NEW f, IsSeq(f), NEW m \in Nat, Len(f) = Len(e) + m,
         Agree(e, f, Len(e)), NEW c, Ledger(Cat(em, e), c),
         \A j \in 1..m : f[Len(e) + j].type # "Token"
  PROVE  Ledger(Cat(em, f), c)
<1>1. Len(em) \in Nat /\ Len(e) \in Nat /\ Len(f) \in Nat /\ Len(e) <= Len(e) /\ Len(e) <= Len(f)
  BY SeqIs
<1>2. IsSeq(Cat(em, e)) /\ Len(Cat(em, e)) = Len(em) + Len(e)
  BY CatIs
<1>2a. /\ IsSeq(Cat(em, f)) /\ Len(Cat(em, f)) = Len(em) + Len(f)
       /\ \A i \in 1..Len(f) : Cat(em, f)[Len(em) + i] = f[i]
  <2>1. IsSeq(Cat(em, f)) /\ Len(Cat(em, f)) = Len(em) + Len(f)
    BY CatIs
  <2>2. ASSUME NEW i \in 1..Len(f) PROVE Cat(em, f)[Len(em) + i] = f[i]
    BY CatRight
  <2> QED
    BY <2>1, <2>2
<1>3. Agree(Cat(em, e), Cat(em, f), Len(em) + Len(e))
  BY <1>1, CatAgree
<1>4. Len(em) + Len(f) = Len(em) + Len(e) + m
  BY <1>1
<1>5. ASSUME NEW j \in 1..m PROVE Cat(em, f)[Len(em) + Len(e) + j] = f[Len(e) + j]
  <2>1. Len(e) + j \in 1..Len(f) /\ Len(em) + (Len(e) + j) = Len(em) + Len(e) + j
    BY <1>1
  <2> QED
    BY <1>2a, <2>1
<1>6. \A j \in 1..m : Cat(em, f)[Len(Cat(em, e)) + j].type # "Token"
  BY <1>2, <1>5
<1>7. Len(Cat(em, f)) = Len(Cat(em, e)) + m /\ Agree(Cat(em, e), Cat(em, f), Len(Cat(em, e)))
  BY <1>2, <1>2a, <1>3, <1>4
<1> QED
  BY <1>2, <1>2a, <1>6, <1>7, LedgerOthers

-----------------------------------------------------------------------------
(* The branches and the nodes among the events                              *)

\* Where the events of the branch at level k start, and the tokens.
EventsOf(st, k) == FrameAt(st, k).exit.bm.output
TokensOf(st, k) == FrameAt(st, k).exit.bm.tokens

\* Each branch goes back to a number of events that holds its tokens.
Points(st, em, e) ==
  /\ \A k \in Of(st, Branches) : /\ EventsOf(st, k) \in Nat /\ EventsOf(st, k) <= Len(e)
                                 /\ Upto(em, e, EventsOf(st, k)) = TokensOf(st, k)
  /\ \A k \in Of(st, Branches) : \A l \in Of(st, Branches) :
        k <= l => EventsOf(st, k) <= EventsOf(st, l)

\* o tells how many nodes are open where the frame at each level starts.
Opens(st, ob, o) ==
  /\ o[1] = 0 /\ o[Len(st) + 1] = Len(ob)
  /\ \A k \in 1..(Len(st) + 1) : o[k] \in Nat
  /\ \A k \in 1..(Len(st) + 1) : \A l \in 1..(Len(st) + 1) : k <= l => o[k] <= o[l]
  /\ \A k \in 1..Len(st) : Closes(FrameAt(st, k).code, o[k + 1] - o[k])
  /\ \A k \in Of(st, Branches) : \A i \in 1..Len(ob) : i <= o[k] <=> ob[i] <= EventsOf(st, k)

Begun(e, ob) ==
  /\ IsSeq(ob)
  /\ \A i \in 1..Len(ob) : ob[i] \in 1..Len(e) /\ e[ob[i]].type = "Begin"
  /\ \A i \in 1..Len(ob) : \A j \in 1..Len(ob) : i < j => ob[i] < ob[j]

LEMMA SameLevels ==
  ASSUME NEW st, IsSeq(st), st # <<>>, NEW f, f.exit.do = st[1].exit.do,
         f.exit.do \in Branches => f.exit.bm = st[1].exit.bm
  PROVE  /\ Of(Push(f, Rest(st)), Branches) = Of(st, Branches)
         /\ \A k \in Of(st, Branches) : /\ EventsOf(Push(f, Rest(st)), k) = EventsOf(st, k)
                                        /\ TokensOf(Push(f, Rest(st)), k) = TokensOf(st, k)
<1> DEFINE new == Push(f, Rest(st))
<1>1. Of(new, Branches) = Of(st, Branches)
  BY OfRetop
<1>2. /\ Len(st) \in Nat
      /\ FrameAt(new, Len(st)) = f /\ FrameAt(st, Len(st)) = st[1]
      /\ \A k \in 1..(Len(st) - 1) : FrameAt(new, k) = FrameAt(st, k)
  BY RetopIs
<1> HIDE DEF new
<1>3. ASSUME NEW k \in Of(st, Branches)
      PROVE  EventsOf(new, k) = EventsOf(st, k) /\ TokensOf(new, k) = TokensOf(st, k)
  <2>1. k \in 1..Len(st) /\ FrameAt(st, k).exit.do \in Branches
    BY DEF Of
  <2>2. CASE k = Len(st)
    BY <1>2, <2>1, <2>2 DEF EventsOf, TokensOf
  <2>3. CASE k # Len(st)
    <3>1. k \in 1..(Len(st) - 1)
      BY <1>2, <2>1, <2>3
    <3> QED
      BY <1>2, <3>1 DEF EventsOf, TokensOf
  <2> QED
    BY <2>2, <2>3
<1> QED
  BY <1>1, <1>3 DEF new

LEMMA LevelsPushed ==
  ASSUME NEW st, IsSeq(st), NEW f
  PROVE  \A k \in Of(st, Branches) : /\ k \in Of(Push(f, st), Branches)
                                     /\ EventsOf(Push(f, st), k) = EventsOf(st, k)
                                     /\ TokensOf(Push(f, st), k) = TokensOf(st, k)
<1>1. \A k \in 1..Len(st) : FrameAt(Push(f, st), k) = FrameAt(st, k)
  BY PushIs
<1>2. Of(st, Branches) \subseteq 1..Len(st)
  BY OfIs
<1>3. Of(st, Branches) \subseteq Of(Push(f, st), Branches)
  BY OfPush
<1> QED
  BY <1>1, <1>2, <1>3 DEF EventsOf, TokensOf

LEMMA LevelsPopped ==
  ASSUME NEW st, IsSeq(st), st # <<>>
  PROVE  \A k \in Of(Rest(st), Branches) : /\ k \in Of(st, Branches) /\ k \in 1..(Len(st) - 1)
                                           /\ EventsOf(Rest(st), k) = EventsOf(st, k)
                                           /\ TokensOf(Rest(st), k) = TokensOf(st, k)
<1>1. /\ IsSeq(Rest(st)) /\ Len(Rest(st)) = Len(st) - 1
      /\ \A k \in 1..(Len(st) - 1) : FrameAt(Rest(st), k) = FrameAt(st, k)
  BY PopIs
<1>2. Of(Rest(st), Branches) \subseteq 1..(Len(st) - 1)
  BY <1>1, OfIs
<1>3. Of(Rest(st), Branches) \subseteq Of(st, Branches)
  BY OfPop
<1> QED
  BY <1>1, <1>2, <1>3 DEF EventsOf, TokensOf

LEMMA PointsRetop ==
  ASSUME NEW st, IsSeq(st), st # <<>>, NEW f, f.exit.do = st[1].exit.do,
         f.exit.do \in Branches => f.exit.bm = st[1].exit.bm,
         NEW em, NEW e, Points(st, em, e)
  PROVE  Points(Push(f, Rest(st)), em, e)
BY SameLevels DEF Points

LEMMA PointsPop ==
  ASSUME NEW st, IsSeq(st), st # <<>>, NEW em, NEW e, Points(st, em, e)
  PROVE  Points(Rest(st), em, e)
BY LevelsPopped DEF Points

LEMMA PointsPush ==
  ASSUME NEW st, IsSeq(st), NEW f, NEW em, IsSeq(em), NEW e, IsSeq(e), NEW c, Ledger(Cat(em, e), c),
         f.exit.do \in Branches => f.exit.bm.output = Len(e) /\ f.exit.bm.tokens = c,
         Points(st, em, e)
  PROVE  Points(Push(f, st), em, e)
<1> DEFINE new == Push(f, st)
           n == Len(st) + 1
<1>1. \A k \in Of(st, Branches) : EventsOf(new, k) = EventsOf(st, k) /\ TokensOf(new, k) = TokensOf(st, k)
  BY LevelsPushed
<1>2. Of(new, Branches) = IF f.exit.do \in Branches THEN Of(st, Branches) \cup {n} ELSE Of(st, Branches)
  BY OfPush
<1>3. FrameAt(new, n) = f /\ Len(st) \in Nat /\ n \in Nat /\ Of(st, Branches) \subseteq 1..Len(st)
      /\ Len(e) \in Nat
  BY PushIs, SeqIs, OfIs
<1>4. Upto(em, e, Len(e)) = c
  BY BookAll
<1>5. f.exit.do \in Branches => EventsOf(new, n) = Len(e) /\ TokensOf(new, n) = c
  BY <1>3 DEF EventsOf, TokensOf
<1> HIDE DEF new, n
<1>6. ASSUME NEW k \in Of(new, Branches)
      PROVE  /\ EventsOf(new, k) \in Nat /\ EventsOf(new, k) <= Len(e)
             /\ Upto(em, e, EventsOf(new, k)) = TokensOf(new, k)
  <2>1. CASE k \in Of(st, Branches)
    BY <1>1, <2>1 DEF Points
  <2>2. CASE k \notin Of(st, Branches)
    BY <1>2, <1>3, <1>4, <1>5, <2>2
  <2> QED
    BY <2>1, <2>2
<1>7. ASSUME NEW k \in Of(new, Branches), NEW l \in Of(new, Branches), k <= l
      PROVE  EventsOf(new, k) <= EventsOf(new, l)
  <2>1. CASE l \in Of(st, Branches)
    <3>1. k \in Of(st, Branches)
      <4> SUFFICES ASSUME k = n PROVE FALSE
        BY <1>2
      <4>1. l \in 1..Len(st)
        BY <1>3, <2>1
      <4> QED
        BY <1>3, <1>7, <4>1 DEF n
    <3> QED
      BY <1>1, <1>7, <2>1, <3>1 DEF Points
  <2>2. CASE l \notin Of(st, Branches)
    <3>1. EventsOf(new, l) = Len(e)
      BY <1>2, <1>5, <2>2
    <3> QED
      BY <1>6, <3>1
  <2> QED
    BY <2>1, <2>2
<1> QED
  BY <1>6, <1>7 DEF Points, new

\* Other events, up to a number that no branch goes back beyond.
LEMMA PointsKeep ==
  ASSUME NEW st, IsSeq(st), NEW em, IsSeq(em), NEW e, IsSeq(e), NEW f, IsSeq(f), NEW n \in Nat,
         n <= Len(e), n <= Len(f), Agree(e, f, n),
         \A k \in Of(st, Branches) : EventsOf(st, k) <= n,
         Points(st, em, e)
  PROVE  Points(st, em, f)
<1>1. \A k \in 0..n : Upto(em, e, k) = Upto(em, f, k)
  BY CatAgree
<1>2. Len(f) \in Nat
  BY SeqIs
<1>3. ASSUME NEW k \in Of(st, Branches)
      PROVE  /\ EventsOf(st, k) \in Nat /\ EventsOf(st, k) <= Len(f)
             /\ Upto(em, f, EventsOf(st, k)) = TokensOf(st, k)
  <2>1. EventsOf(st, k) \in Nat /\ EventsOf(st, k) <= n
        /\ Upto(em, e, EventsOf(st, k)) = TokensOf(st, k)
    BY DEF Points
  <2>2. EventsOf(st, k) \in 0..n /\ EventsOf(st, k) <= Len(f)
    BY <1>2, <2>1
  <2> QED
    BY <1>1, <2>1, <2>2
<1> QED
  BY <1>3 DEF Points

LEMMA OpensPop ==
  ASSUME NEW st, IsSeq(st), st # <<>>, st[1].code = <<>>, NEW ob, NEW o, Opens(st, ob, o)
  PROVE  Opens(Rest(st), ob, o) /\ o[Len(st)] = Len(ob)
<1> DEFINE n == Len(st)
           new == Rest(st)
<1>1. /\ IsSeq(new) /\ Len(new) = n - 1 /\ n \in Nat /\ n # 0 /\ FrameAt(st, n) = st[1]
      /\ \A k \in 1..(n - 1) : FrameAt(new, k) = FrameAt(st, k)
  BY PopIs
<1>2. n \in 1..n /\ n \in 1..(n + 1) /\ n + 1 \in 1..(n + 1) /\ n - 1 + 1 = n
  BY <1>1
<1>3. Closes(<<>>, o[n + 1] - o[n])
  BY <1>1, <1>2 DEF Opens
<1>4. o[n + 1] - o[n] = 0
  BY <1>3, ClosesEmpty
<1>5. o[n] = Len(ob)
  <2>1. o[n] \in Nat /\ o[n + 1] \in Nat /\ o[n + 1] = Len(ob)
    BY <1>2 DEF Opens
  <2> QED
    BY <1>4, <2>1
<1>6. \A k \in Of(new, Branches) : k \in Of(st, Branches) /\ EventsOf(new, k) = EventsOf(st, k)
  BY LevelsPopped
<1> HIDE DEF new, n
<1>7. \A k \in 1..n : k \in 1..(n + 1)
  BY <1>1
<1>8. \A k \in 1..(n - 1) : k \in 1..n
  BY <1>1
<1>9. /\ o[1] = 0
      /\ \A k \in 1..(n + 1) : o[k] \in Nat
      /\ \A k \in 1..(n + 1) : \A l \in 1..(n + 1) : k <= l => o[k] <= o[l]
      /\ \A k \in 1..n : Closes(FrameAt(st, k).code, o[k + 1] - o[k])
      /\ \A k \in Of(st, Branches) : \A i \in 1..Len(ob) : i <= o[k] <=> ob[i] <= EventsOf(st, k)
  BY DEF Opens, n
<1>10. \A k \in 1..(n - 1) : Closes(FrameAt(new, k).code, o[k + 1] - o[k])
  BY <1>1, <1>8, <1>9
<1>11. \A k \in Of(new, Branches) : \A i \in 1..Len(ob) : i <= o[k] <=> ob[i] <= EventsOf(new, k)
  BY <1>6, <1>9
<1>12. Len(new) + 1 = n
  BY <1>1, <1>2
<1>13. Opens(new, ob, o)
  BY <1>1, <1>5, <1>7, <1>9, <1>10, <1>11, <1>12 DEF Opens
<1> QED
  BY <1>5, <1>13 DEF new, n

LEMMA OpensPush ==
  ASSUME NEW st, IsSeq(st), NEW f, Closes(f.code, 0), NEW e, NEW ob, Begun(e, ob),
         f.exit.do \in Branches => f.exit.bm.output = Len(e),
         NEW o, Opens(st, ob, o)
  PROVE  \E new : Opens(Push(f, st), ob, new)
<1> DEFINE n == Len(st) + 1
           st2 == Push(f, st)
           new == [k \in 1..(n + 1) |-> IF k <= n THEN o[k] ELSE Len(ob)]
<1>1. /\ Len(st) \in Nat /\ n \in Nat /\ IsSeq(st2) /\ Len(st2) = n /\ FrameAt(st2, n) = f
      /\ \A k \in 1..Len(st) : FrameAt(st2, k) = FrameAt(st, k)
  BY PushIs, SeqIs
<1>2. /\ o[1] = 0 /\ o[n] = Len(ob)
      /\ \A k \in 1..n : o[k] \in Nat
      /\ \A k \in 1..n : \A l \in 1..n : k <= l => o[k] <= o[l]
      /\ \A k \in 1..Len(st) : Closes(FrameAt(st, k).code, o[k + 1] - o[k])
      /\ \A k \in Of(st, Branches) : \A i \in 1..Len(ob) : i <= o[k] <=> ob[i] <= EventsOf(st, k)
  BY DEF Opens
<1>3. \A k \in 1..n : new[k] = o[k]
  BY <1>1
<1>4. new[n + 1] = Len(ob)
  BY <1>1
<1>5. Of(st2, Branches) = IF f.exit.do \in Branches THEN Of(st, Branches) \cup {n} ELSE Of(st, Branches)
  BY OfPush
<1>6. \A k \in Of(st, Branches) : k \in 1..Len(st) /\ EventsOf(st2, k) = EventsOf(st, k)
  BY LevelsPushed, OfIs
<1>7. f.exit.do \in Branches => EventsOf(st2, n) = Len(e)
  BY <1>1 DEF EventsOf
<1>7a. 1..(n + 1) = (1..n) \cup {n + 1} /\ n \in 1..n /\ 1 \in 1..n
  BY <1>1
<1>7b. \A k \in 1..Len(st) : k \in 1..n /\ k + 1 \in 1..n
  BY <1>1
<1>7c. 1..n = (1..Len(st)) \cup {n}
  BY <1>1
<1>8a. Len(ob) \in Nat
  BY SeqIs DEF Begun
<1> HIDE DEF new, n, st2
<1>9. \A k \in 1..(n + 1) : new[k] \in Nat
  BY <1>2, <1>3, <1>4, <1>7a, <1>8a
<1>10. ASSUME NEW k \in 1..(n + 1), NEW l \in 1..(n + 1), k <= l
       PROVE  new[k] <= new[l]
  <2>1. CASE l \in 1..n
    <3>1. k \in 1..n
      BY <1>1, <1>10, <2>1
    <3> QED
      BY <1>2, <1>3, <1>10, <2>1, <3>1
  <2>2. CASE l = n + 1
    <3>1. CASE k \in 1..n
      <4>1. k <= n
        BY <1>1, <3>1
      <4>2. o[k] <= Len(ob)
        BY <1>2, <1>7a, <3>1, <4>1
      <4> QED
        BY <1>3, <1>4, <2>2, <3>1, <4>2
    <3>2. CASE k = n + 1
      BY <1>4, <1>8a, <2>2, <3>2
    <3> QED
      BY <1>7a, <3>1, <3>2
  <2> QED
    BY <1>7a, <2>1, <2>2
<1>11. ASSUME NEW k \in 1..n PROVE Closes(FrameAt(st2, k).code, new[k + 1] - new[k])
  <2>1. CASE k \in 1..Len(st)
    BY <1>1, <1>2, <1>3, <1>7b, <2>1
  <2>2. CASE k = n
    <3>1. new[k + 1] - new[k] = 0
      BY <1>2, <1>3, <1>4, <1>7a, <1>8a, <2>2
    <3> QED
      BY <1>1, <2>2, <3>1
  <2> QED
    BY <1>7c, <2>1, <2>2
<1>12. ASSUME NEW k \in Of(st2, Branches), NEW i \in 1..Len(ob)
       PROVE  i <= new[k] <=> ob[i] <= EventsOf(st2, k)
  <2>1. CASE k \in Of(st, Branches)
    BY <1>2, <1>3, <1>6, <1>7b, <2>1
  <2>2. CASE k \notin Of(st, Branches)
    <3>1. k = n /\ f.exit.do \in Branches
      BY <1>5, <2>2
    <3>2. i <= Len(ob) /\ new[k] = Len(ob)
      BY <1>2, <1>3, <1>7a, <1>8a, <3>1
    <3>3. ob[i] \in 1..Len(e)
      BY DEF Begun
    <3>4. ob[i] <= Len(e)
      BY <3>3
    <3> QED
      BY <1>7, <3>1, <3>2, <3>4
  <2> QED
    BY <2>1, <2>2
<1>13. new[1] = 0
  BY <1>2, <1>3, <1>7a
<1>14. Opens(st2, ob, new)
  BY <1>1, <1>4, <1>9, <1>10, <1>11, <1>12, <1>13 DEF Opens
<1> QED
  BY <1>14 DEF st2

\* The top frame runs on, with the nodes that it has open.
LEMMA OpensRetop ==
  ASSUME NEW st, IsSeq(st), st # <<>>, NEW f, f.exit.do = st[1].exit.do,
         f.exit.do \in Branches => f.exit.bm = st[1].exit.bm,
         NEW ob, IsSeq(ob), NEW o, Opens(st, ob, o),
         NEW n \in Nat, Closes(f.code, n),
         NEW ob2, IsSeq(ob2), Len(ob2) = o[Len(st)] + n,
         \A i \in 1..o[Len(st)] : ob2[i] = ob[i],
         \A k \in Of(st, Branches) : \A i \in 1..Len(ob2) :
            i > o[Len(st)] => ~(ob2[i] <= EventsOf(st, k))
  PROVE  \E new : Opens(Push(f, Rest(st)), ob2, new)
<1> DEFINE l == Len(st)
           st2 == Push(f, Rest(st))
           new == [k \in 1..(l + 1) |-> IF k <= l THEN o[k] ELSE Len(ob2)]
<1>1. /\ l \in Nat /\ l \in 1..l /\ IsSeq(st2) /\ Len(st2) = l /\ FrameAt(st2, l) = f
      /\ \A k \in 1..(l - 1) : FrameAt(st2, k) = FrameAt(st, k)
  BY RetopIs
<1>2. /\ o[1] = 0 /\ o[l + 1] = Len(ob)
      /\ \A k \in 1..(l + 1) : o[k] \in Nat
      /\ \A k \in 1..(l + 1) : \A m \in 1..(l + 1) : k <= m => o[k] <= o[m]
      /\ \A k \in 1..l : Closes(FrameAt(st, k).code, o[k + 1] - o[k])
      /\ \A k \in Of(st, Branches) : \A i \in 1..Len(ob) : i <= o[k] <=> ob[i] <= EventsOf(st, k)
  BY DEF Opens
<1>3. \A k \in 1..l : new[k] = o[k]
  BY <1>1
<1>4. new[l + 1] = Len(ob2)
  BY <1>1
<1>5. /\ Of(st2, Branches) = Of(st, Branches)
      /\ \A k \in Of(st, Branches) : EventsOf(st2, k) = EventsOf(st, k)
  BY SameLevels
<1>6. Of(st, Branches) \subseteq 1..l
  BY OfIs
<1>7. 1..(l + 1) = (1..l) \cup {l + 1} /\ l \in 1..(l + 1) /\ l + 1 \in 1..(l + 1) /\ l <= l + 1
  BY <1>1
<1>8. \A k \in 1..(l - 1) : k \in 1..l /\ k + 1 \in 1..l
  BY <1>1
<1>9. 1..l = (1..(l - 1)) \cup {l}
  BY <1>1
<1>10. o[l] \in Nat /\ Len(ob2) \in Nat /\ o[l] <= Len(ob2) /\ o[l] <= Len(ob) /\ Len(ob) \in Nat
       /\ Len(ob2) - o[l] = n
  <2>1. o[l] \in Nat /\ o[l] <= Len(ob) /\ Len(ob) \in Nat
    BY <1>2, <1>7
  <2>2. Len(ob2) = o[l] + n
    OBVIOUS
  <2> HIDE DEF l
  <2> QED
    BY <2>1, <2>2
<1>11. ASSUME NEW k \in 1..l PROVE o[k] <= o[l]
  BY <1>1, <1>2, <1>7
<1> HIDE DEF new, l, st2
<1>12. \A k \in 1..(l + 1) : new[k] \in Nat
  BY <1>2, <1>3, <1>4, <1>7, <1>10
<1>13. ASSUME NEW k \in 1..(l + 1), NEW m \in 1..(l + 1), k <= m
       PROVE  new[k] <= new[m]
  <2>1. CASE m \in 1..l
    <3>1. k \in 1..l
      BY <1>1, <1>13, <2>1
    <3> QED
      BY <1>2, <1>3, <1>13, <2>1, <3>1
  <2>2. CASE m = l + 1
    <3>1. CASE k \in 1..l
      <4>1. o[k] <= o[l] /\ o[k] \in Nat
        BY <1>2, <1>7, <1>11, <3>1
      <4>2. o[k] <= Len(ob2)
        BY <1>10, <4>1
      <4> QED
        BY <1>3, <1>4, <2>2, <3>1, <4>2
    <3>2. CASE k = l + 1
      BY <1>4, <1>10, <2>2, <3>2
    <3> QED
      BY <1>7, <3>1, <3>2
  <2> QED
    BY <1>7, <2>1, <2>2
<1>14. ASSUME NEW k \in 1..l PROVE Closes(FrameAt(st2, k).code, new[k + 1] - new[k])
  <2>1. CASE k \in 1..(l - 1)
    <3>1. Closes(FrameAt(st, k).code, o[k + 1] - o[k])
      BY <1>2
    <3>2. FrameAt(st2, k) = FrameAt(st, k) /\ new[k + 1] = o[k + 1] /\ new[k] = o[k]
      BY <1>1, <1>3, <1>8, <2>1
    <3> QED
      BY <3>1, <3>2
  <2>2. CASE k = l
    <3>1. new[k + 1] - new[k] = n
      BY <1>1, <1>3, <1>4, <1>10, <2>2
    <3> QED
      BY <1>1, <2>2, <3>1
  <2> QED
    BY <1>9, <2>1, <2>2
<1>15. ASSUME NEW k \in Of(st2, Branches), NEW i \in 1..Len(ob2)
       PROVE  i <= new[k] <=> ob2[i] <= EventsOf(st2, k)
  <2>1. k \in Of(st, Branches) /\ k \in 1..l /\ EventsOf(st2, k) = EventsOf(st, k) /\ new[k] = o[k]
    BY <1>3, <1>5, <1>6
  <2>2. o[k] <= o[l] /\ o[k] \in Nat
    BY <1>2, <1>7, <1>11, <2>1
  <2>3. CASE i <= o[l]
    <3>1. i \in 1..o[l] /\ i \in 1..Len(ob)
      BY <1>10, <2>3
    <3>2. ob2[i] = ob[i]
      BY <3>1 DEF l
    <3>3. i <= o[k] <=> ob[i] <= EventsOf(st, k)
      BY <1>2, <2>1, <3>1
    <3> QED
      BY <2>1, <3>2, <3>3
  <2>4. CASE i > o[l]
    <3>1. ~(i <= o[k])
      BY <1>10, <2>2, <2>4
    <3>2. ~(ob2[i] <= EventsOf(st, k))
      BY <2>1, <2>4 DEF l
    <3> QED
      BY <2>1, <3>1, <3>2
  <2> QED
    BY <1>10, <2>3, <2>4
<1>16. new[1] = 0
  <2>1. 1 \in 1..l
    BY <1>1
  <2> QED
    BY <1>2, <1>3, <2>1
<1>17. Opens(st2, ob2, new)
  BY <1>1, <1>4, <1>12, <1>13, <1>14, <1>15, <1>16 DEF Opens
<1> QED
  BY <1>17 DEF st2

\* The node that is begun last belongs to the top frame if that frame ends one.
LEMMA OpensTop ==
  ASSUME NEW st, IsSeq(st), st # <<>>, NEW ob, IsSeq(ob), NEW o, Opens(st, ob, o)
  PROVE  /\ o[Len(st)] \in Nat /\ o[Len(st)] <= Len(ob) /\ Len(ob) \in Nat
         /\ Closes(st[1].code, Len(ob) - o[Len(st)])
         /\ \A k \in Of(st, Branches) : \A i \in 1..Len(ob) :
               i > o[Len(st)] => ~(ob[i] <= EventsOf(st, k))
<1> DEFINE l == Len(st)
<1>1. l \in Nat /\ l \in 1..l /\ FrameAt(st, l) = st[1] /\ Of(st, Branches) \subseteq 1..l
  BY PopIs, OfIs
<1>2. l \in 1..(l + 1) /\ l + 1 \in 1..(l + 1) /\ l <= l + 1 /\ \A k \in 1..l : k \in 1..(l + 1) /\ k <= l
  BY <1>1
<1>3. /\ o[l + 1] = Len(ob)
      /\ \A k \in 1..(l + 1) : o[k] \in Nat
      /\ \A k \in 1..(l + 1) : \A m \in 1..(l + 1) : k <= m => o[k] <= o[m]
      /\ \A k \in 1..l : Closes(FrameAt(st, k).code, o[k + 1] - o[k])
      /\ \A k \in Of(st, Branches) : \A i \in 1..Len(ob) : i <= o[k] <=> ob[i] <= EventsOf(st, k)
  BY DEF Opens
<1> HIDE DEF l
<1>4. o[l] \in Nat /\ o[l] <= Len(ob) /\ Len(ob) \in Nat
  BY <1>2, <1>3
<1>5. Closes(st[1].code, Len(ob) - o[l])
  BY <1>1, <1>3
<1>6. ASSUME NEW k \in Of(st, Branches), NEW i \in 1..Len(ob), i > o[l]
      PROVE  ~(ob[i] <= EventsOf(st, k))
  <2>1. o[k] <= o[l] /\ o[k] \in Nat
    BY <1>1, <1>2, <1>3
  <2>2. ~(i <= o[k])
    BY <1>4, <1>6, <2>1
  <2> QED
    BY <1>3, <2>2
<1> QED
  BY <1>4, <1>5, <1>6 DEF l

LEMMA BegunKeep ==
  ASSUME NEW e, IsSeq(e), NEW f, IsSeq(f), NEW ob, Begun(e, ob), NEW n \in Nat, n <= Len(e),
         n <= Len(f), Agree(e, f, n), \A i \in 1..Len(ob) : ob[i] <= n
  PROVE  Begun(f, ob)
<1>1. Len(e) \in Nat /\ Len(f) \in Nat
  BY SeqIs
<1>2. ASSUME NEW i \in 1..Len(ob) PROVE ob[i] \in 1..Len(f) /\ f[ob[i]].type = "Begin"
  <2>1. ob[i] \in 1..Len(e) /\ e[ob[i]].type = "Begin" /\ ob[i] <= n
    BY DEF Begun
  <2>2. ob[i] \in 1..n /\ ob[i] \in 1..Len(f)
    BY <1>1, <2>1
  <2> QED
    BY <2>1, <2>2 DEF Agree, Alike
<1> QED
  BY <1>2 DEF Begun

-----------------------------------------------------------------------------
(* The core of the invariant, and the operations on stack and streams       *)

Output(out) ==
  /\ out = [events |-> out.events, open_begins |-> out.open_begins,
            num_bookmarks |-> out.num_bookmarks, last_token_end |-> out.last_token_end]
  /\ IsSeq(out.events)

Core(len, em, st, ts, out, nd, od) ==
  /\ Stack(st) /\ Stream(ts, len) /\ Output(out) /\ IsSeq(em)
  /\ Marks(st, ts.bookmarks, out.num_bookmarks, nd, od)
  /\ Begun(out.events, out.open_begins)
  /\ \E o : Opens(st, out.open_begins, o)
  /\ Ledger(Cat(em, out.events), ts.current)
  /\ Points(st, em, out.events)

\* The top frame runs on.
LEMMA CoreRetop ==
  ASSUME NEW len, NEW em, NEW st, NEW ts, NEW out, NEW nd, NEW od,
         Core(len, em, st, ts, out, nd, od), st # <<>>,
         NEW f, GoodFrame(f), f.exit.do = st[1].exit.do,
         f.exit.do \in Branches => f.exit.bm = st[1].exit.bm,
         \A n : Closes(st[1].code, n) => Closes(f.code, n)
  PROVE  Core(len, em, Push(f, Rest(st)), ts, out, nd, od)
<1> DEFINE ob == out.open_begins
           new == Push(f, Rest(st))
<1>1. /\ Stack(st) /\ IsSeq(st) /\ IsSeq(ob)
      /\ Marks(st, ts.bookmarks, out.num_bookmarks, nd, od) /\ Points(st, em, out.events)
  BY DEF Core, Stack, Begun
<1>2. Stack(new) /\ Marks(new, ts.bookmarks, out.num_bookmarks, nd, od) /\ Points(new, em, out.events)
  BY <1>1, StackRetop, MarksRetop, PointsRetop
<1>3. PICK o : Opens(st, ob, o)
  BY DEF Core
<1>4. /\ o[Len(st)] \in Nat /\ o[Len(st)] <= Len(ob) /\ Len(ob) \in Nat
      /\ Closes(st[1].code, Len(ob) - o[Len(st)])
      /\ \A k \in Of(st, Branches) : \A i \in 1..Len(ob) :
            i > o[Len(st)] => ~(ob[i] <= EventsOf(st, k))
  BY <1>1, <1>3, OpensTop
<1>5. \E p : Opens(new, ob, p)
  <2> DEFINE n == Len(ob) - o[Len(st)]
  <2>1. n \in Nat /\ Len(ob) = o[Len(st)] + n /\ Closes(f.code, n)
    BY <1>4
  <2> HIDE DEF n, ob, new
  <2> QED
    BY <1>1, <1>3, <1>4, <2>1, OpensRetop DEF new
<1> QED
  BY <1>2, <1>5 DEF Core

\* A frame that is not a branch.
LEMMA CorePush ==
  ASSUME NEW len, NEW em, NEW st, NEW ts, NEW out, NEW nd, NEW od,
         Core(len, em, st, ts, out, nd, od),
         NEW f, GoodFrame(f), f.exit.do \notin Branches, f.exit.do = "item" => st = <<>>,
         Closes(f.code, 0)
  PROVE  Core(len, em, Push(f, st), ts, out, nd, od)
<1>1. /\ Stack(st) /\ IsSeq(st) /\ Begun(out.events, out.open_begins) /\ IsSeq(em)
      /\ IsSeq(out.events) /\ Ledger(Cat(em, out.events), ts.current)
      /\ Marks(st, ts.bookmarks, out.num_bookmarks, nd, od) /\ Points(st, em, out.events)
  BY DEF Core, Stack, Output
<1>2. Stack(Push(f, st))
  BY <1>1, StackPush
<1>3. Marks(Push(f, st), ts.bookmarks, out.num_bookmarks, nd, od)
  BY <1>1, MarksPush
<1>4. Points(Push(f, st), em, out.events)
  BY <1>1, PointsPush
<1>5. PICK o : Opens(st, out.open_begins, o)
  BY DEF Core
<1>6. \E p : Opens(Push(f, st), out.open_begins, p)
  BY <1>1, <1>5, OpensPush
<1> QED
  BY <1>2, <1>3, <1>4, <1>6 DEF Core

\* A branch, with a bookmark where both streams are.
LEMMA CoreMark ==
  ASSUME NEW len, NEW em, NEW st, NEW ts, NEW out, NEW nd, NEW od,
         Core(len, em, st, ts, out, nd, od),
         NEW f, GoodFrame(f), f.exit.do \in Branches, f.exit.bm = Bookmark(ts, out),
         Closes(f.code, 0)
  PROVE  Core(len, em, Push(f, st), MarkTokens(ts), MarkOutput(out),
              IF f.exit.do = "not" THEN nd + 1 ELSE nd, IF f.exit.do = "not" THEN od ELSE od + 1)
<1> DEFINE ts2 == MarkTokens(ts)
           out2 == MarkOutput(out)
<1>1. /\ Stack(st) /\ IsSeq(st) /\ Begun(out.events, out.open_begins) /\ IsSeq(em)
      /\ IsSeq(out.events) /\ Ledger(Cat(em, out.events), ts.current)
      /\ Marks(st, ts.bookmarks, out.num_bookmarks, nd, od) /\ Points(st, em, out.events)
      /\ IsSeq(ts.bookmarks) /\ Stream(ts, len) /\ IsSeq(out.open_begins)
  BY DEF Core, Stack, Output, Stream, Bookmarked, Begun
<1>2. Stream(ts2, len) /\ ts2.current = ts.current /\ ts2.bookmarks = Append(ts.bookmarks, ts.current)
  BY <1>1, MarkTokensIs
<1>3. out2 = [events |-> out.events, open_begins |-> out.open_begins,
              num_bookmarks |-> out.num_bookmarks + 1, last_token_end |-> out.last_token_end]
  BY DEF Core, Output, MarkOutput
<1> HIDE DEF ts2, out2
<1>4. /\ Output(out2) /\ out2.events = out.events /\ out2.open_begins = out.open_begins
      /\ out2.num_bookmarks = out.num_bookmarks + 1
  BY <1>1, <1>3 DEF Output
<1>5. f.exit.bm.tokens = ts.current /\ f.exit.bm.output = Len(out.events)
  BY DEF Bookmark
<1>6. Stack(Push(f, st))
  <2>1. f.exit.do # "item"
    BY DEF Branches
  <2> QED
    BY <1>1, <2>1, StackPush
<1>7. Marks(Push(f, st), ts2.bookmarks, out2.num_bookmarks,
            IF f.exit.do = "not" THEN nd + 1 ELSE nd, IF f.exit.do = "not" THEN od ELSE od + 1)
  BY <1>1, <1>2, <1>4, <1>5, MarksMark
<1>8. Points(Push(f, st), em, out.events)
  BY <1>1, <1>5, PointsPush
<1>9. PICK o : Opens(st, out.open_begins, o)
  BY DEF Core
<1>10. \E p : Opens(Push(f, st), out.open_begins, p)
  BY <1>1, <1>5, <1>9, OpensPush
<1> QED
  BY <1>1, <1>2, <1>4, <1>6, <1>7, <1>8, <1>10 DEF Core, ts2, out2

\* A frame that is not a branch is done.
LEMMA CorePop ==
  ASSUME NEW len, NEW em, NEW st, NEW ts, NEW out, NEW nd, NEW od,
         Core(len, em, st, ts, out, nd, od), st # <<>>, st[1].code = <<>>,
         st[1].exit.do \notin Branches
  PROVE  Core(len, em, Rest(st), ts, out, nd, od)
<1>1. /\ Stack(st) /\ IsSeq(st) /\ Marks(st, ts.bookmarks, out.num_bookmarks, nd, od)
      /\ Points(st, em, out.events)
  BY DEF Core, Stack
<1>2. Stack(Rest(st)) /\ Marks(Rest(st), ts.bookmarks, out.num_bookmarks, nd, od)
  BY <1>1, StackPop, MarksPop
<1>3. Points(Rest(st), em, out.events)
  BY <1>1, PointsPop
<1>4. PICK o : Opens(st, out.open_begins, o)
  BY DEF Core
<1>5. Opens(Rest(st), out.open_begins, o)
  BY <1>1, <1>4, OpensPop
<1> QED
  BY <1>2, <1>3, <1>5 DEF Core

\* A branch is done: its bookmark goes.
LEMMA CoreUnmark ==
  ASSUME NEW len, NEW em, NEW st, NEW ts, NEW out, NEW nd, NEW od,
         Core(len, em, st, ts, out, nd, od), st # <<>>, st[1].code = <<>>,
         st[1].exit.do \in Branches
  PROVE  Core(len, em, Rest(st), UnmarkTokens(ts, st[1].exit.bm.tokens), UnmarkOutput(out),
              IF st[1].exit.do = "not" THEN nd - 1 ELSE nd,
              IF st[1].exit.do = "not" THEN od ELSE od - 1)
<1> DEFINE ts2 == UnmarkTokens(ts, st[1].exit.bm.tokens)
           out2 == UnmarkOutput(out)
<1>1. /\ Stack(st) /\ IsSeq(st) /\ Marks(st, ts.bookmarks, out.num_bookmarks, nd, od)
      /\ Points(st, em, out.events) /\ IsSeq(ts.bookmarks) /\ Stream(ts, len) /\ IsSeq(out.events)
  BY DEF Core, Stack, Output, Stream, Bookmarked
<1>2. /\ Len(ts.bookmarks) \in Nat /\ Len(ts.bookmarks) # 0
      /\ ts.bookmarks[Len(ts.bookmarks)] = st[1].exit.bm.tokens
      /\ \A new : /\ IsSeq(new) /\ Len(new) = Len(ts.bookmarks) - 1
                  /\ \A i \in 1..(Len(ts.bookmarks) - 1) : new[i] = ts.bookmarks[i]
           => Marks(Rest(st), new, out.num_bookmarks - 1,
                    IF st[1].exit.do = "not" THEN nd - 1 ELSE nd,
                    IF st[1].exit.do = "not" THEN od ELSE od - 1)
  BY <1>1, MarksUnmark
<1>3. /\ Stream(ts2, len) /\ ts2.current = ts.current
      /\ IsSeq(ts2.bookmarks) /\ Len(ts2.bookmarks) = Len(ts.bookmarks) - 1
      /\ \A i \in 1..(Len(ts.bookmarks) - 1) : ts2.bookmarks[i] = ts.bookmarks[i]
  BY <1>1, <1>2, UnmarkTokensIs
<1>4. out2 = [events |-> out.events, open_begins |-> out.open_begins,
              num_bookmarks |-> out.num_bookmarks - 1, last_token_end |-> out.last_token_end]
  BY DEF Core, Output, UnmarkOutput
<1> HIDE DEF ts2, out2
<1>5. /\ Output(out2) /\ out2.events = out.events /\ out2.open_begins = out.open_begins
      /\ out2.num_bookmarks = out.num_bookmarks - 1
  BY <1>1, <1>4 DEF Output
<1>6. Marks(Rest(st), ts2.bookmarks, out2.num_bookmarks,
            IF st[1].exit.do = "not" THEN nd - 1 ELSE nd,
            IF st[1].exit.do = "not" THEN od ELSE od - 1)
  BY <1>2, <1>3, <1>5
<1>7. Stack(Rest(st))
  BY <1>1, StackPop
<1>8. Points(Rest(st), em, out.events)
  BY <1>1, PointsPop
<1>9. PICK o : Opens(st, out.open_begins, o)
  BY DEF Core
<1>10. Opens(Rest(st), out.open_begins, o)
  BY <1>1, <1>9, OpensPop
<1> QED
  BY <1>3, <1>5, <1>6, <1>7, <1>8, <1>10 DEF Core, ts2, out2

\* Both streams go back to the bookmark of the branch on top.
LEMMA CoreRestore ==
  ASSUME NEW len, NEW em, NEW st, NEW ts, NEW out, NEW nd, NEW od,
         Core(len, em, st, ts, out, nd, od), st # <<>>, st[1].code = <<>>,
         st[1].exit.do \in Branches
  PROVE  Core(len, em, st, RestoreTokens(ts, st[1].exit.bm.tokens),
              Truncate(out, st[1].exit.bm.output), nd, od)
<1> DEFINE bm == st[1].exit.bm
           n == bm.output
           e == out.events
           f == SubSeq(e, 1, n)
           ob == out.open_begins
           ts2 == RestoreTokens(ts, bm.tokens)
           out2 == Truncate(out, n)
<1>1. /\ Stack(st) /\ IsSeq(st) /\ Marks(st, ts.bookmarks, out.num_bookmarks, nd, od)
      /\ Points(st, em, e) /\ IsSeq(ts.bookmarks) /\ Stream(ts, len) /\ IsSeq(e) /\ IsSeq(em)
      /\ Begun(e, ob) /\ Ledger(Cat(em, e), ts.current) /\ IsSeq(ob)
  BY DEF Core, Stack, Output, Stream, Bookmarked, Begun
<1>2. Len(ts.bookmarks) # 0 /\ ts.bookmarks[Len(ts.bookmarks)] = bm.tokens
  BY <1>1, MarksUnmark
<1>3. Stream(ts2, len) /\ ts2.current = bm.tokens /\ ts2.bookmarks = ts.bookmarks
  BY <1>1, <1>2, RestoreTokensIs
<1>4. /\ Len(st) \in Of(st, Branches) /\ Of(st, Branches) \subseteq 1..Len(st) /\ Len(st) \in Nat
      /\ FrameAt(st, Len(st)) = st[1]
  BY <1>1, OfPop, OfIs, PopIs
<1>5. EventsOf(st, Len(st)) = n /\ TokensOf(st, Len(st)) = bm.tokens
  BY <1>4 DEF EventsOf, TokensOf
<1>6. n \in Nat /\ n <= Len(e) /\ Upto(em, e, n) = bm.tokens /\ Len(e) \in Nat
  BY <1>1, <1>4, <1>5, SeqIs DEF Points
<1>7. \A k \in Of(st, Branches) : EventsOf(st, k) <= n
  <2>1. \A k \in Of(st, Branches) : k <= Len(st)
    BY <1>4
  <2> QED
    BY <1>1, <1>4, <1>5, <2>1 DEF Points
<1>8. IsSeq(f) /\ Len(f) = n /\ \A i \in 1..n : f[i] = e[i]
  <2>1. 1 \in Nat \ {0} /\ 1 <= n + 1 /\ n - 1 + 1 = n
    BY <1>6
  <2>2. /\ IsSeq(f) /\ Len(f) = n - 1 + 1
        /\ \A i \in 1..(n - 1 + 1) : f[i] = e[1 + i - 1]
    BY <1>1, <1>6, <2>1, SubSeqIs
  <2>3. \A i \in 1..n : 1 + i - 1 = i
    BY <1>6
  <2> HIDE DEF f, n
  <2> QED
    BY <2>1, <2>2, <2>3
<1>9. Agree(e, f, n)
  BY <1>8 DEF Agree, Alike
<1>10. PICK o : Opens(st, ob, o)
  BY DEF Core
<1>11. o[Len(st)] = Len(ob)
  BY <1>1, <1>10, OpensPop
<1>12. ASSUME NEW i \in 1..Len(ob) PROVE ob[i] <= n
  <2>1. i <= Len(ob)
    BY <1>1, SeqIs
  <2> QED
    BY <1>4, <1>5, <1>10, <1>11, <2>1 DEF Opens
<1> DEFINE last == out2.last_token_end
<1>13. out2 = [events |-> f, open_begins |-> ob, num_bookmarks |-> out.num_bookmarks,
               last_token_end |-> last]
  <2>1. PICK x : out2 = [out EXCEPT !.events = f, !.last_token_end = x]
    BY DEF Truncate
  <2>2. out = [events |-> out.events, open_begins |-> out.open_begins,
               num_bookmarks |-> out.num_bookmarks, last_token_end |-> out.last_token_end]
    BY DEF Core, Output
  <2> HIDE DEF out2, f
  <2> QED
    BY <2>1, <2>2
<1> HIDE DEF out2, f, ts2
<1>14. /\ Output(out2) /\ out2.events = f /\ out2.open_begins = ob
       /\ out2.num_bookmarks = out.num_bookmarks
  BY <1>8, <1>13 DEF Output
<1> HIDE DEF n, bm, e, ob
<1>15. Begun(f, ob)
  <2>1. n <= Len(f)
    BY <1>6, <1>8
  <2> QED
    BY <1>1, <1>6, <1>8, <1>9, <1>12, <2>1, BegunKeep
<1>16. Points(st, em, f)
  <2>1. n <= Len(f)
    BY <1>6, <1>8
  <2> QED
    BY <1>1, <1>6, <1>7, <1>8, <1>9, <2>1, PointsKeep
<1>17. Ledger(Cat(em, f), bm.tokens)
  <2>1. Ledger(Cat(em, f), Upto(em, e, Len(f)))
    BY <1>1, <1>6, <1>8, <1>9, BookCut
  <2> QED
    BY <1>6, <1>8, <2>1
<1> QED
  BY <1>1, <1>3, <1>10, <1>14, <1>15, <1>16, <1>17 DEF Core, ts2, out2, n, bm, ob

\* More events, and tokens in step with them.
LEMMA CoreEvents ==
  ASSUME NEW len, NEW em, NEW st, NEW ts, NEW out, NEW nd, NEW od,
         Core(len, em, st, ts, out, nd, od),
         NEW ts2, Stream(ts2, len), ts2.bookmarks = ts.bookmarks,
         NEW out2, Output(out2), out2.open_begins = out.open_begins,
         out2.num_bookmarks = out.num_bookmarks, Len(out.events) <= Len(out2.events),
         Agree(out.events, out2.events, Len(out.events)),
         Ledger(Cat(em, out2.events), ts2.current)
  PROVE  Core(len, em, st, ts2, out2, nd, od)
<1> DEFINE e == out.events
           f == out2.events
           n == Len(e)
<1>1. /\ IsSeq(st) /\ IsSeq(em) /\ IsSeq(e) /\ IsSeq(f) /\ Begun(e, out.open_begins)
      /\ Points(st, em, e)
  BY DEF Core, Stack, Output
<1>2. n \in Nat /\ n <= n /\ n <= Len(f)
  BY <1>1, SeqIs
<1>3. \A k \in Of(st, Branches) : EventsOf(st, k) <= n
  BY <1>1 DEF Points
<1>4. \A i \in 1..Len(out.open_begins) : out.open_begins[i] <= n
  BY <1>1, <1>2 DEF Begun
<1>5. Points(st, em, f)
  BY <1>1, <1>2, <1>3, PointsKeep
<1>6. Begun(f, out.open_begins)
  BY <1>1, <1>2, <1>4, BegunKeep
<1> QED
  BY <1>5, <1>6 DEF Core

LEMMA CoreStream ==
  ASSUME NEW len, NEW em, NEW st, NEW ts, NEW out, NEW nd, NEW od,
         Core(len, em, st, ts, out, nd, od),
         NEW ts2, Stream(ts2, len), ts2.bookmarks = ts.bookmarks, ts2.current = ts.current
  PROVE  Core(len, em, st, ts2, out, nd, od)
BY DEF Core

\* Events f are those of e, or events alike, and then those of x.
Follows(e, f, x) ==
  /\ IsSeq(e) /\ IsSeq(f) /\ IsSeq(x) /\ Len(f) = Len(e) + Len(x) /\ Agree(e, f, Len(e))
  /\ \A j \in 1..Len(x) : f[Len(e) + j] = x[j]

NoTokens(x) == \A j \in 1..Len(x) : x[j].type # "Token"
TokensFrom(x, c) == \A j \in 1..Len(x) : x[j].type = "Token" /\ x[j].to = c + j

LEMMA CatFollows ==
  ASSUME NEW e, IsSeq(e), NEW x, IsSeq(x)
  PROVE  Follows(e, Cat(e, x), x)
<1>1. Len(e) \in Nat /\ Len(x) \in Nat
  BY SeqIs
<1>2. /\ IsSeq(Cat(e, x)) /\ Len(Cat(e, x)) = Len(e) + Len(x)
      /\ \A i \in 1..Len(e) : Cat(e, x)[i] = e[i]
  BY CatIs
<1>3. ASSUME NEW j \in 1..Len(x) PROVE Cat(e, x)[Len(e) + j] = x[j]
  BY CatRight
<1>4. Agree(e, Cat(e, x), Len(e))
  BY <1>2 DEF Agree, Alike
<1> QED
  BY <1>1, <1>2, <1>3, <1>4 DEF Follows

LEMMA FollowsIs ==
  ASSUME NEW e, NEW f, NEW x, Follows(e, f, x)
  PROVE  /\ IsSeq(f) /\ Len(e) \in Nat /\ Len(f) \in Nat /\ Len(x) \in Nat
         /\ Len(f) = Len(e) + Len(x) /\ Len(e) <= Len(f) /\ Agree(e, f, Len(e))
<1>1. Len(e) \in Nat /\ Len(x) \in Nat
  BY SeqIs DEF Follows
<1> QED
  BY <1>1 DEF Follows

LEMMA AgreeTrans ==
  ASSUME NEW e, NEW f, NEW g, NEW m \in Nat, NEW n \in Nat, m <= n, Agree(e, f, m), Agree(f, g, n)
  PROVE  Agree(e, g, m)
<1>1. \A i \in 1..m : i \in 1..n
  OBVIOUS
<1> QED
  BY <1>1 DEF Agree, Alike

LEMMA FollowTokens ==
  ASSUME NEW em, IsSeq(em), NEW e, NEW f, NEW x, Follows(e, f, x), NEW c, Ledger(Cat(em, e), c),
         TokensFrom(x, c)
  PROVE  Ledger(Cat(em, f), c + Len(x))
<1>1. /\ IsSeq(e) /\ IsSeq(f) /\ Len(x) \in Nat /\ Len(f) = Len(e) + Len(x) /\ Agree(e, f, Len(e))
  BY SeqIs DEF Follows
<1>2. \A j \in 1..Len(x) : f[Len(e) + j].type = "Token" /\ f[Len(e) + j].to = c + j
  BY DEF Follows, TokensFrom
<1> DEFINE m == Len(x)
<1>3. m \in Nat /\ Len(f) = Len(e) + m
  BY <1>1
<1>4. \A j \in 1..m : f[Len(e) + j].type = "Token" /\ f[Len(e) + j].to = c + j
  BY <1>2
<1> HIDE DEF m
<1>5. Ledger(Cat(em, f), c + m)
  BY <1>1, <1>3, <1>4, BookTokens
<1> QED
  BY <1>5 DEF m

LEMMA FollowOthers ==
  ASSUME NEW em, IsSeq(em), NEW e, NEW f, NEW x, Follows(e, f, x), NEW c, Ledger(Cat(em, e), c),
         NoTokens(x)
  PROVE  Ledger(Cat(em, f), c)
<1>1. /\ IsSeq(e) /\ IsSeq(f) /\ Len(x) \in Nat /\ Len(f) = Len(e) + Len(x) /\ Agree(e, f, Len(e))
  BY SeqIs DEF Follows
<1>2. \A j \in 1..Len(x) : f[Len(e) + j].type # "Token"
  BY DEF Follows, NoTokens
<1> DEFINE m == Len(x)
<1>3. m \in Nat /\ Len(f) = Len(e) + m
  BY <1>1
<1>4. \A j \in 1..m : f[Len(e) + j].type # "Token"
  BY <1>2
<1> HIDE DEF m
<1> QED
  BY <1>1, <1>3, <1>4, BookOthers

LEMMA PushTokensIs ==
  ASSUME NEW out, Output(out), NEW evs, IsSeq(evs)
  PROVE  LET new == PushTokens(out, evs)
         IN  /\ Output(new) /\ new.open_begins = out.open_begins
             /\ new.num_bookmarks = out.num_bookmarks
             /\ Follows(out.events, new.events, evs)
<1> DEFINE new == PushTokens(out, evs)
           e == out.events
<1>1. IsSeq(e) /\ Len(e) \in Nat /\ Len(evs) \in Nat /\ (evs = <<>> <=> Len(evs) = 0)
  BY SeqIs DEF Output
<1>2. CASE evs = <<>>
  <2>1. new = out /\ Len(evs) = 0 /\ 1..0 = {}
    BY <1>1, <1>2 DEF PushTokens
  <2>2. Agree(e, e, Len(e))
    BY DEF Agree, Alike
  <2> HIDE DEF new, e
  <2>3. Follows(e, e, evs)
    BY <1>1, <2>1, <2>2 DEF Follows
  <2> QED
    BY <2>1, <2>3 DEF new, e
<1>3. CASE evs # <<>>
  <2> DEFINE x == evs[Len(evs)].to
  <2>1. new = [out EXCEPT !.events = Cat(@, evs), !.last_token_end = x]
    BY <1>3, Zenon DEF PushTokens, Cat
  <2> HIDE DEF x, new
  <2>2. new = [events |-> Cat(e, evs), open_begins |-> out.open_begins,
               num_bookmarks |-> out.num_bookmarks, last_token_end |-> x]
    BY <2>1 DEF Output
  <2>3. IsSeq(Cat(e, evs)) /\ Follows(e, Cat(e, evs), evs)
    BY <1>1, CatFollows, FollowsIs
  <2>4. /\ Output(new) /\ new.open_begins = out.open_begins /\ new.events = Cat(e, evs)
        /\ new.num_bookmarks = out.num_bookmarks
    BY <2>2, <2>3 DEF Output
  <2> QED
    BY <2>3, <2>4 DEF new
<1> QED
  BY <1>2, <1>3

LEMMA PushErrorsIs ==
  ASSUME NEW out, Output(out), NEW spans, IsSeq(spans)
  PROVE  LET new == PushErrors(out, spans)
         IN  /\ Output(new) /\ new.open_begins = out.open_begins
             /\ new.num_bookmarks = out.num_bookmarks
             /\ \E x : Follows(out.events, new.events, x) /\ NoTokens(x)
<1> DEFINE new == PushErrors(out, spans)
           e == out.events
           x == [k \in DOMAIN spans |-> ErrorEvent(spans[k])]
<1>1. IsSeq(e) /\ Len(spans) \in Nat /\ DOMAIN spans = 1..Len(spans)
  BY SeqIs DEF Output
<1>2. IsSeq(x) /\ Len(x) = Len(spans)
  <2>1. x \in Seq({ErrorEvent(spans[k]) : k \in 1..Len(spans)}) /\ Len(x) = Len(spans)
    BY <1>1
  <2> QED
    BY <2>1 DEF IsSeq
<1>3. \A j \in 1..Len(spans) : x[j].type # "Token"
  BY <1>1 DEF ErrorEvent
<1> HIDE DEF x
<1>4. new = [out EXCEPT !.events = Cat(@, x)]
  BY Zenon DEF PushErrors, Cat, x
<1> HIDE DEF new
<1>5. new = [events |-> Cat(e, x), open_begins |-> out.open_begins,
             num_bookmarks |-> out.num_bookmarks, last_token_end |-> out.last_token_end]
  BY <1>4 DEF Output
<1>6. IsSeq(Cat(e, x)) /\ Follows(e, Cat(e, x), x)
  BY <1>1, <1>2, CatFollows, FollowsIs
<1>7. /\ Output(new) /\ new.open_begins = out.open_begins /\ new.events = Cat(e, x)
      /\ new.num_bookmarks = out.num_bookmarks
  BY <1>5, <1>6 DEF Output
<1>8. NoTokens(x)
  BY <1>2, <1>3 DEF NoTokens
<1> QED
  BY <1>6, <1>7, <1>8 DEF new

\* An ERROR node with tokens in it.
LEMMA PushErrorNodeIs ==
  ASSUME NEW out, Output(out), NEW em, IsSeq(em), NEW c, Ledger(Cat(em, out.events), c),
         NEW evs, IsSeq(evs), TokensFrom(evs, c)
  PROVE  LET new == PushErrorNode(out, evs)
             e == out.events
         IN  /\ Output(new) /\ new.open_begins = out.open_begins
             /\ new.num_bookmarks = out.num_bookmarks
             /\ Len(e) <= Len(new.events) /\ Agree(e, new.events, Len(e))
             /\ Ledger(Cat(em, new.events), c + Len(evs))
<1> DEFINE new == PushErrorNode(out, evs)
           e == out.events
           from == out.last_token_end
           to == evs[Len(evs)].to
           b == <<BeginEvent("ERROR", from, to)>>
           d == <<EndEvent("ERROR", from, to)>>
           x == Cat(e, b)
           y == Cat(x, evs)
           z == Cat(y, d)
<1>1. IsSeq(e)
  BY DEF Output
<1>2. IsSeq(b) /\ Len(b) = 1 /\ IsSeq(d) /\ Len(d) = 1
  BY OneIs
<1>3. NoTokens(b) /\ NoTokens(d)
  <2>1. b[1].type # "Token" /\ d[1].type # "Token"
    BY OneIs DEF BeginEvent, EndEvent
  <2> HIDE DEF b, d
  <2> QED
    BY <1>2, <2>1 DEF NoTokens
<1>4. new = [out EXCEPT !.events = z, !.last_token_end = to]
  BY Zenon DEF PushErrorNode, Cat
<1> HIDE DEF new, b, d, from, to
<1>5. Follows(e, x, b) /\ IsSeq(x)
  BY <1>1, <1>2, CatFollows, FollowsIs
<1> HIDE DEF x
<1>6. Follows(x, y, evs) /\ IsSeq(y)
  BY <1>5, CatFollows, FollowsIs
<1> HIDE DEF y
<1>7. Follows(y, z, d) /\ IsSeq(z)
  BY <1>2, <1>6, CatFollows, FollowsIs
<1> HIDE DEF z
<1>8. new = [events |-> z, open_begins |-> out.open_begins,
             num_bookmarks |-> out.num_bookmarks, last_token_end |-> to]
  BY <1>4 DEF Output
<1>9. /\ Output(new) /\ new.open_begins = out.open_begins /\ new.events = z
      /\ new.num_bookmarks = out.num_bookmarks
  BY <1>7, <1>8 DEF Output
<1>10. /\ Len(e) \in Nat /\ Len(x) \in Nat /\ Len(y) \in Nat /\ Len(z) \in Nat
       /\ Len(e) <= Len(x) /\ Len(x) <= Len(y) /\ Len(y) <= Len(z)
       /\ Agree(e, x, Len(e)) /\ Agree(x, y, Len(x)) /\ Agree(y, z, Len(y))
  BY <1>5, <1>6, <1>7, FollowsIs
<1>10a. Len(e) <= Len(y) /\ Len(e) <= Len(z)
  BY <1>10
<1>11. Agree(e, z, Len(e))
  <2>1. Agree(e, y, Len(e))
    BY <1>10, AgreeTrans
  <2> QED
    BY <1>10, <1>10a, <2>1, AgreeTrans
<1>12. Ledger(Cat(em, x), c)
  BY <1>3, <1>5, FollowOthers
<1>13. Ledger(Cat(em, y), c + Len(evs))
  BY <1>6, <1>12, FollowTokens
<1>14. Ledger(Cat(em, z), c + Len(evs))
  BY <1>3, <1>7, <1>13, FollowOthers
<1> QED
  BY <1>9, <1>10a, <1>11, <1>14 DEF new

\* Tokens up to the m-th are consumed, after the stream has looked ahead to the n-th.
LEMMA CoreConsume ==
  ASSUME IsSeq(source), NEW em, NEW st, NEW ts, NEW out, NEW nd, NEW od,
         Core(Len(source), em, st, ts, out, nd, od),
         NEW n \in Nat, NEW m \in Nat, ts.current <= m, m <= n, m <= Len(source),
         NEW evs, IsSeq(evs), Len(evs) = m - ts.current, TokensFrom(evs, ts.current)
  PROVE  Core(Len(source), em, st, AdvanceTo(Fetch(ts, n), m), PushTokens(out, evs), nd, od)
<1> DEFINE ts1 == Fetch(ts, n)
           ts2 == AdvanceTo(ts1, m)
           out2 == PushTokens(out, evs)
           e == out.events
<1>1. Stream(ts, Len(source)) /\ Output(out) /\ IsSeq(em)
      /\ Ledger(Cat(em, e), ts.current) /\ Len(source) \in Nat /\ ts.current \in Nat
  BY SeqIs DEF Core, Stream
<1>2. /\ Stream(ts1, Len(source)) /\ ts1.current = ts.current /\ ts1.bookmarks = ts.bookmarks
      /\ n <= Len(source) => n <= Lexed(ts1)
      /\ Len(source) <= n => Lexed(ts1) = Len(source)
      /\ Lexed(ts1) \in Nat
  BY <1>1, FetchIs
<1> HIDE DEF ts1
<1>3. m <= Lexed(ts1)
  BY <1>1, <1>2
<1>4. Stream(ts2, Len(source)) /\ ts2.current = m /\ ts2.bookmarks = ts.bookmarks
  BY <1>2, <1>3, AdvanceToIs
<1>5. /\ Output(out2) /\ out2.open_begins = out.open_begins
      /\ out2.num_bookmarks = out.num_bookmarks /\ Follows(e, out2.events, evs)
  BY <1>1, PushTokensIs
<1> HIDE DEF ts2, out2
<1>6. Ledger(Cat(em, out2.events), ts.current + Len(evs))
  BY <1>1, <1>5, FollowTokens
<1>7. ts.current + Len(evs) = ts2.current
  BY <1>1, <1>4
<1>8. Len(e) <= Len(out2.events) /\ Agree(e, out2.events, Len(e))
  BY <1>5, FollowsIs
<1> QED
  BY <1>4, <1>5, <1>6, <1>7, <1>8, CoreEvents DEF ts1, ts2, out2

-----------------------------------------------------------------------------
(* begin and end.                                                           *)

\* The innermost frame goes on, with the nodes that it has open changed.
LEMMA CoreNode ==
  ASSUME NEW len, NEW em, NEW st, NEW ts, NEW out, NEW nd, NEW od,
         Core(len, em, st, ts, out, nd, od), st # <<>>,
         NEW f, GoodFrame(f), f.exit = st[1].exit,
         NEW o, Opens(st, out.open_begins, o), NEW n \in Nat, Closes(f.code, n),
         NEW out2, Output(out2), out2.num_bookmarks = out.num_bookmarks,
         Begun(out2.events, out2.open_begins), Len(out2.open_begins) = o[Len(st)] + n,
         \A i \in 1..o[Len(st)] : out2.open_begins[i] = out.open_begins[i],
         \A k \in Of(st, Branches) : \A i \in 1..Len(out2.open_begins) :
            i > o[Len(st)] => ~(out2.open_begins[i] <= EventsOf(st, k)),
         Ledger(Cat(em, out2.events), ts.current),
         NEW m \in Nat, m <= Len(out.events), m <= Len(out2.events),
         Agree(out.events, out2.events, m), \A k \in Of(st, Branches) : EventsOf(st, k) <= m
  PROVE  Core(len, em, Push(f, Rest(st)), ts, out2, nd, od)
<1> DEFINE new == Push(f, Rest(st))
           ob == out.open_begins
           ob2 == out2.open_begins
<1>1. /\ Stack(st) /\ IsSeq(st) /\ IsSeq(ob) /\ IsSeq(ob2) /\ IsSeq(em)
      /\ IsSeq(out.events) /\ IsSeq(out2.events)
      /\ Marks(st, ts.bookmarks, out.num_bookmarks, nd, od) /\ Points(st, em, out.events)
  BY DEF Core, Stack, Begun, Output
<1>2. Stack(new) /\ Marks(new, ts.bookmarks, out2.num_bookmarks, nd, od)
  BY <1>1, StackRetop, MarksRetop
<1>3. Points(st, em, out2.events)
  BY <1>1, PointsKeep
<1>4. Points(new, em, out2.events)
  BY <1>1, <1>3, PointsRetop
<1>5. \E p : Opens(new, ob2, p)
  BY <1>1, OpensRetop
<1> QED
  BY <1>1, <1>2, <1>4, <1>5 DEF Core

LEMMA CoreBegin ==
  ASSUME NEW len, NEW em, NEW st, NEW ts, NEW out, NEW nd, NEW od,
         Core(len, em, st, ts, out, nd, od), st # <<>>,
         st[1].code # <<>>, st[1].code[1].op = "begin", NEW kind
  PROVE  Core(len, em, Push(Frame(Tail(st[1].code), st[1].exit), Rest(st)), ts,
              BeginNode(out, kind), nd, od)
<1> DEFINE p == st[1].code
           f == Frame(Tail(p), st[1].exit)
           e == out.events
           ob == out.open_begins
           x == BeginEvent(kind, out.last_token_end, out.last_token_end)
           e2 == Append(e, x)
           b == Len(e) + 1
           ob2 == Append(ob, b)
           out2 == BeginNode(out, kind)
<1>1. /\ Stack(st) /\ IsSeq(st) /\ IsSeq(ob) /\ IsSeq(e) /\ IsSeq(em) /\ Output(out)
      /\ Begun(e, ob) /\ Points(st, em, e) /\ Ledger(Cat(em, e), ts.current)
  BY DEF Core, Stack, Begun, Output
<1>2. Len(e) \in Nat /\ Len(ob) \in Nat
  BY <1>1, SeqIs
<1>3. PICK o : Opens(st, ob, o)
  BY DEF Core
<1>4. /\ o[Len(st)] \in Nat /\ o[Len(st)] <= Len(ob)
      /\ Closes(p, Len(ob) - o[Len(st)])
      /\ \A k \in Of(st, Branches) : \A i \in 1..Len(ob) :
            i > o[Len(st)] => ~(ob[i] <= EventsOf(st, k))
  BY <1>1, <1>3, OpensTop
<1>5. GoodFrame(st[1])
  BY <1>1, StackPop
<1> DEFINE n == Len(ob) - o[Len(st)]
<1>6. GoodCode(Tail(p)) /\ Closes(Tail(p), n + 1)
  <2>1. GoodCode(p)
    BY <1>5 DEF GoodFrame
  <2>2. GoodCode(Tail(p)) /\ Closes(Tail(p), After(p[1], n))
    BY <1>4, <2>1, ClosesTail
  <2>3. After(p[1], n) = n + 1
    BY DEF After
  <2> QED
    BY <2>2, <2>3
<1>7. f.code = Tail(p) /\ f.exit = st[1].exit /\ GoodFrame(f)
  BY <1>5, <1>6 DEF GoodFrame, Frame
<1> HIDE DEF f
<1>8. /\ IsSeq(e2) /\ Len(e2) = Len(e) + 1 /\ (\A i \in 1..Len(e) : e2[i] = e[i])
      /\ e2[Len(e) + 1] = x
  BY <1>1, AppendIs
<1>9. /\ IsSeq(ob2) /\ Len(ob2) = Len(ob) + 1 /\ (\A i \in 1..Len(ob) : ob2[i] = ob[i])
      /\ ob2[Len(ob) + 1] = b
  BY <1>1, AppendIs
<1>10. x.type = "Begin"
  BY DEF BeginEvent
<1>11. out2 = [events |-> e2, open_begins |-> ob2, num_bookmarks |-> out.num_bookmarks,
               last_token_end |-> out.last_token_end]
  <2>1. out2 = [out EXCEPT !.events = e2, !.open_begins = ob2]
    BY <1>1, Zenon DEF BeginNode
  <2> HIDE DEF out2, e2, ob2
  <2> QED
    BY <1>1, <2>1 DEF Output
<1> HIDE DEF out2, e2, ob2, x
<1>12. Output(out2) /\ out2.events = e2 /\ out2.open_begins = ob2
       /\ out2.num_bookmarks = out.num_bookmarks
  BY <1>8, <1>11 DEF Output
<1>13. Agree(e, e2, Len(e)) /\ Len(e) <= Len(e2)
  BY <1>2, <1>8 DEF Agree, Alike
<1>14. Ledger(Cat(em, e2), ts.current)
  <2>1. \A j \in 1..1 : e2[Len(e) + j].type # "Token"
    BY <1>8, <1>10
  <2> QED
    BY <1>1, <1>8, <1>13, <2>1, BookOthers
<1>15. Begun(e2, ob2)
  <2> HIDE DEF e, ob
  <2>1. ASSUME NEW i \in 1..Len(ob2)
        PROVE  ob2[i] \in 1..Len(e2) /\ e2[ob2[i]].type = "Begin"
    <3>1. CASE i \in 1..Len(ob)
      BY <1>1, <1>2, <1>8, <1>9, <3>1 DEF Begun
    <3>2. CASE i = Len(ob) + 1
      BY <1>2, <1>8, <1>9, <1>10, <3>2
    <3> QED
      BY <1>2, <1>9, <3>1, <3>2
  <2>2. ASSUME NEW i \in 1..Len(ob2), NEW j \in 1..Len(ob2), i < j
        PROVE  ob2[i] < ob2[j]
    <3>1. i \in 1..Len(ob)
      BY <1>2, <1>9, <2>2
    <3>2. CASE j \in 1..Len(ob)
      BY <1>1, <1>9, <2>2, <3>1, <3>2 DEF Begun
    <3>3. CASE j = Len(ob) + 1
      <4>1. ob[i] \in 1..Len(e)
        BY <1>1, <3>1 DEF Begun
      <4> QED
        BY <1>2, <1>9, <3>1, <3>3, <4>1
    <3> QED
      BY <1>2, <1>9, <3>2, <3>3
  <2> QED
    BY <1>9, <2>1, <2>2 DEF Begun
<1>16. \A k \in Of(st, Branches) : EventsOf(st, k) \in Nat /\ EventsOf(st, k) <= Len(e)
  BY <1>1 DEF Points
<1>17. ASSUME NEW k \in Of(st, Branches), NEW i \in 1..Len(ob2), i > o[Len(st)]
       PROVE  ~(ob2[i] <= EventsOf(st, k))
  <2>1. CASE i \in 1..Len(ob)
    BY <1>4, <1>9, <1>17, <2>1
  <2>2. CASE i = Len(ob) + 1
    BY <1>2, <1>9, <1>16, <2>2
  <2> QED
    BY <1>2, <1>9, <2>1, <2>2
<1>18. \A i \in 1..o[Len(st)] : ob2[i] = ob[i]
  BY <1>2, <1>4, <1>9
<1>19. n + 1 \in Nat /\ Len(ob2) = o[Len(st)] + (n + 1)
  BY <1>2, <1>4, <1>9
<1>20. /\ Closes(f.code, n + 1) /\ Begun(out2.events, out2.open_begins)
       /\ Len(out2.open_begins) = o[Len(st)] + (n + 1)
       /\ \A i \in 1..o[Len(st)] : out2.open_begins[i] = out.open_begins[i]
       /\ \A k \in Of(st, Branches) : \A i \in 1..Len(out2.open_begins) :
            i > o[Len(st)] => ~(out2.open_begins[i] <= EventsOf(st, k))
       /\ Ledger(Cat(em, out2.events), ts.current)
       /\ Len(out.events) <= Len(out.events) /\ Len(out.events) <= Len(out2.events)
       /\ Agree(out.events, out2.events, Len(out.events))
  BY <1>2, <1>6, <1>7, <1>12, <1>13, <1>14, <1>15, <1>17, <1>18, <1>19
<1> HIDE DEF n, b
<1>21. Core(len, em, Push(f, Rest(st)), ts, out2, nd, od)
  BY <1>2, <1>3, <1>7, <1>12, <1>16, <1>19, <1>20, CoreNode
<1> QED
  BY <1>21 DEF out2, f

\* The node that is ended was begun in the frame that ends it.
LEMMA TopNode ==
  ASSUME NEW len, NEW em, NEW st, NEW ts, NEW out, NEW nd, NEW od,
         Core(len, em, st, ts, out, nd, od), st # <<>>,
         st[1].code # <<>>, st[1].code[1].op = "end", NEW o, Opens(st, out.open_begins, o)
  PROVE  LET f == Frame(Tail(st[1].code), st[1].exit)
             ob == out.open_begins
         IN  /\ GoodFrame(f) /\ f.exit = st[1].exit /\ o[Len(st)] \in Nat
             /\ Len(ob) \in Nat \ {0} /\ o[Len(st)] <= Len(ob) - 1
             /\ Len(ob) - 1 - o[Len(st)] \in Nat
             /\ Closes(f.code, Len(ob) - 1 - o[Len(st)])
             /\ ob[Len(ob)] \in 1..Len(out.events)
             /\ out.events[ob[Len(ob)]].type = "Begin"
             /\ \A k \in Of(st, Branches) : \A i \in 1..Len(ob) :
                  i > o[Len(st)] => ~(ob[i] <= EventsOf(st, k))
             /\ \A k \in Of(st, Branches) :
                  EventsOf(st, k) \in Nat /\ EventsOf(st, k) <= ob[Len(ob)] - 1
<1> DEFINE p == st[1].code
           f == Frame(Tail(p), st[1].exit)
           e == out.events
           ob == out.open_begins
           n == Len(ob) - o[Len(st)]
<1>1. /\ Stack(st) /\ IsSeq(st) /\ IsSeq(ob) /\ IsSeq(e) /\ Begun(e, ob) /\ Points(st, em, e)
  BY DEF Core, Stack, Begun, Output
<1>2. Len(e) \in Nat /\ Len(ob) \in Nat
  BY <1>1, SeqIs
<1>3. /\ o[Len(st)] \in Nat /\ o[Len(st)] <= Len(ob) /\ Closes(p, n)
      /\ \A k \in Of(st, Branches) : \A i \in 1..Len(ob) :
            i > o[Len(st)] => ~(ob[i] <= EventsOf(st, k))
  BY <1>1, OpensTop
<1>4. GoodFrame(st[1])
  BY <1>1, StackPop
<1>5. GoodCode(Tail(p)) /\ Closes(Tail(p), n - 1) /\ n - 1 \in Nat
  <2>1. GoodCode(p)
    BY <1>4 DEF GoodFrame
  <2>2. GoodCode(Tail(p)) /\ Closes(Tail(p), After(p[1], n)) /\ After(p[1], n) \in Nat
    BY <1>3, <2>1, ClosesTail
  <2>3. After(p[1], n) = n - 1
    BY DEF After
  <2> QED
    BY <2>2, <2>3
<1>6. f.code = Tail(p) /\ f.exit = st[1].exit /\ GoodFrame(f)
  BY <1>4, <1>5 DEF GoodFrame, Frame
<1>7. n \in Int /\ n - 1 = Len(ob) - 1 - o[Len(st)]
  BY <1>2, <1>3
<1>8. Len(ob) \in Nat \ {0} /\ o[Len(st)] <= Len(ob) - 1 /\ Len(ob) \in 1..Len(ob)
  BY <1>2, <1>3, <1>5, <1>7
<1>9. ob[Len(ob)] \in 1..Len(e) /\ e[ob[Len(ob)]].type = "Begin"
  BY <1>1, <1>8 DEF Begun
<1>10. ASSUME NEW k \in Of(st, Branches)
       PROVE  EventsOf(st, k) \in Nat /\ EventsOf(st, k) <= ob[Len(ob)] - 1
  <2>1. EventsOf(st, k) \in Nat
    BY <1>1 DEF Points
  <2>2. Len(ob) > o[Len(st)]
    BY <1>3, <1>8
  <2>3. ~(ob[Len(ob)] <= EventsOf(st, k))
    BY <1>3, <1>8, <2>2
  <2> QED
    BY <1>2, <1>9, <2>1, <2>3
<1> HIDE DEF f
<1> QED
  BY <1>3, <1>5, <1>6, <1>7, <1>8, <1>9, <1>10 DEF f

Replace(s, i, e) == [s EXCEPT ![i] = e]

LEMMA ReplaceIs ==
  ASSUME NEW s, IsSeq(s), NEW i \in 1..Len(s), NEW e
  PROVE  /\ IsSeq(Replace(s, i, e)) /\ Len(Replace(s, i, e)) = Len(s)
         /\ Replace(s, i, e)[i] = e
         /\ \A j \in 1..Len(s) : j # i => Replace(s, i, e)[j] = s[j]
BY ExceptIs DEF Replace

LEMMA CloseIs ==
  ASSUME NEW out, Output(out), IsSeq(out.open_begins), Len(out.open_begins) # 0, NEW kind,
         NEW b, b = out.open_begins[Len(out.open_begins)], b \in 1..Len(out.events),
         out.events[b].type = "Begin"
  PROVE  LET new == Close(out, kind)
             e == out.events
         IN  /\ Output(new) /\ new.open_begins = Front(out.open_begins)
             /\ new.num_bookmarks = out.num_bookmarks
             /\ Len(new.events) = Len(e) + 1 /\ Agree(e, new.events, Len(e))
             /\ new.events[Len(e) + 1].type # "Token"
<1> DEFINE e == out.events
           from == e[b].from
           x == BeginEvent(kind, from, out.last_token_end)
           y == EndEvent(kind, from, out.last_token_end)
           d == Replace(e, b, x)
           e2 == Append(d, y)
           ob2 == Front(out.open_begins)
           new == Close(out, kind)
<1>1. IsSeq(e) /\ Len(e) \in Nat
  BY SeqIs DEF Output
<1>2. x.type = "Begin" /\ y.type = "End"
  BY DEF BeginEvent, EndEvent
<1>3. new = [out EXCEPT !.events = e2, !.open_begins = ob2]
  <2>1. Last(out.open_begins) = b
    BY DEF Last
  <2> QED
    BY <2>1, Zenon DEF Close, Replace
<1> HIDE DEF x, y, from, new, ob2
<1>4. IsSeq(d) /\ Len(d) = Len(e) /\ d[b] = x /\ \A j \in 1..Len(e) : j # b => d[j] = e[j]
  BY <1>1, ReplaceIs
<1> HIDE DEF d
<1>5. /\ IsSeq(e2) /\ Len(e2) = Len(e) + 1 /\ (\A i \in 1..Len(e) : e2[i] = d[i])
      /\ e2[Len(e) + 1] = y
  BY <1>4, AppendIs
<1> HIDE DEF e2
<1>6. Agree(e, e2, Len(e))
  <2> SUFFICES ASSUME NEW i \in 1..Len(e) PROVE Alike(e[i], e2[i])
    BY DEF Agree
  <2>1. CASE i = b
    BY <1>2, <1>4, <1>5, <2>1 DEF Alike
  <2>2. CASE i # b
    BY <1>4, <1>5, <2>2 DEF Alike
  <2> QED
    BY <2>1, <2>2
<1>7. new = [events |-> e2, open_begins |-> ob2, num_bookmarks |-> out.num_bookmarks,
             last_token_end |-> out.last_token_end]
  BY <1>3 DEF Output
<1>8. /\ Output(new) /\ new.events = e2 /\ new.open_begins = ob2
      /\ new.num_bookmarks = out.num_bookmarks
  BY <1>5, <1>7 DEF Output
<1> QED
  BY <1>2, <1>5, <1>6, <1>8 DEF new, ob2

\* end: the innermost node is closed, or removed if nothing is in it.
LEMMA CoreEnd ==
  ASSUME NEW len, NEW em, NEW st, NEW ts, NEW out, NEW nd, NEW od,
         Core(len, em, st, ts, out, nd, od), st # <<>>,
         st[1].code # <<>>, st[1].code[1].op = "end",
         NEW out2, Output(out2), out2.open_begins = Front(out.open_begins),
         out2.num_bookmarks = out.num_bookmarks, NEW n \in Nat, n <= Len(out.events),
         out.open_begins[Len(out.open_begins)] - 1 <= n,
         n <= Len(out2.events), Agree(out.events, out2.events, n),
         Ledger(Cat(em, out2.events), ts.current)
  PROVE  Core(len, em, Push(Frame(Tail(st[1].code), st[1].exit), Rest(st)), ts, out2, nd, od)
<1> DEFINE f == Frame(Tail(st[1].code), st[1].exit)
           e == out.events
           e2 == out2.events
           ob == out.open_begins
           ob2 == out2.open_begins
<1>1. PICK o : Opens(st, ob, o)
  BY DEF Core
<1> DEFINE m == Len(ob) - 1 - o[Len(st)]
<1>2. /\ GoodFrame(f) /\ f.exit = st[1].exit /\ o[Len(st)] \in Nat
      /\ Len(ob) \in Nat \ {0} /\ o[Len(st)] <= Len(ob) - 1
      /\ m \in Nat /\ Closes(f.code, m)
      /\ ob[Len(ob)] \in 1..Len(e)
      /\ \A k \in Of(st, Branches) : \A i \in 1..Len(ob) :
           i > o[Len(st)] => ~(ob[i] <= EventsOf(st, k))
      /\ \A k \in Of(st, Branches) :
           EventsOf(st, k) \in Nat /\ EventsOf(st, k) <= ob[Len(ob)] - 1
  BY <1>1, TopNode
<1>3. IsSeq(ob) /\ IsSeq(e) /\ Begun(e, ob) /\ IsSeq(e2) /\ Len(e) \in Nat /\ Len(e2) \in Nat
  BY SeqIs DEF Core, Begun, Output
<1>4. IsSeq(ob2) /\ Len(ob2) = Len(ob) - 1 /\ \A i \in 1..(Len(ob) - 1) : ob2[i] = ob[i]
  <2>1. ob # <<>>
    BY <1>2, <1>3, SeqIs
  <2> HIDE DEF ob
  <2> QED
    BY <1>3, <2>1, FrontIs DEF ob
<1>30. ob[Len(ob)] - 1 <= n /\ n <= Len(e)
  OBVIOUS
<1> HIDE DEF f, ob, ob2
<1>40. ASSUME NEW i \in 1..Len(ob2)
       PROVE  i \in 1..Len(ob) /\ i < Len(ob) /\ ob2[i] = ob[i] /\ Len(ob) \in 1..Len(ob)
  <2>1. Len(ob) \in Nat \ {0}
    BY <1>2
  <2>2. i \in 1..(Len(ob) - 1)
    BY <1>4
  <2>3. ob2[i] = ob[i]
    BY <1>4, <2>2
  <2> QED
    BY <2>1, <2>2, <2>3
<1>5. ASSUME NEW i \in 1..Len(ob2) PROVE ob2[i] \in 1..n /\ e2[ob2[i]].type = "Begin"
  <2>1. i \in 1..Len(ob) /\ i < Len(ob) /\ ob2[i] = ob[i] /\ Len(ob) \in 1..Len(ob)
    BY <1>40
  <2>2. ob[i] \in 1..Len(e) /\ ob[i] < ob[Len(ob)] /\ e[ob[i]].type = "Begin"
    BY <1>3, <2>1 DEF Begun
  <2>3. ob[i] \in 1..n
    BY <1>2, <1>3, <1>30, <2>2
  <2> QED
    BY <2>1, <2>2, <2>3 DEF Agree, Alike
<1>6. Begun(e2, ob2)
  <2>1. \A i \in 1..Len(ob2) : ob2[i] \in 1..Len(e2)
    BY <1>3, <1>5
  <2>2. ASSUME NEW i \in 1..Len(ob2), NEW j \in 1..Len(ob2), i < j PROVE ob2[i] < ob2[j]
    <3>1. i \in 1..Len(ob) /\ j \in 1..Len(ob) /\ ob2[i] = ob[i] /\ ob2[j] = ob[j]
      BY <1>40
    <3> QED
      BY <1>3, <2>2, <3>1 DEF Begun
  <2> QED
    BY <1>4, <1>5, <2>1, <2>2 DEF Begun
<1>7. \A k \in Of(st, Branches) : EventsOf(st, k) <= n
  BY <1>2, <1>3, <1>30
<1>8. ASSUME NEW k \in Of(st, Branches), NEW i \in 1..Len(ob2), i > o[Len(st)]
      PROVE  ~(ob2[i] <= EventsOf(st, k))
  <2>1. i \in 1..Len(ob) /\ ob2[i] = ob[i]
    BY <1>40
  <2> QED
    BY <1>2, <1>8, <2>1
<1>9. \A i \in 1..o[Len(st)] : ob2[i] = ob[i]
  BY <1>2, <1>4
<1>10. Len(ob2) = o[Len(st)] + m
  BY <1>2, <1>4
<1> HIDE DEF m
<1>11. Core(len, em, Push(f, Rest(st)), ts, out2, nd, od)
  BY <1>1, <1>2, <1>6, <1>7, <1>8, <1>9, <1>10, CoreNode DEF ob, ob2
<1> QED
  BY <1>11 DEF f

LEMMA CoreClose ==
  ASSUME NEW len, NEW em, NEW st, NEW ts, NEW out, NEW nd, NEW od,
         Core(len, em, st, ts, out, nd, od), st # <<>>,
         st[1].code # <<>>, st[1].code[1].op = "end", NEW kind
  PROVE  Core(len, em, Push(Frame(Tail(st[1].code), st[1].exit), Rest(st)), ts,
              Close(out, kind), nd, od)
<1> DEFINE e == out.events
           ob == out.open_begins
           out2 == Close(out, kind)
           e2 == out2.events
<1>1. PICK o : Opens(st, ob, o)
  BY DEF Core
<1>2. Len(ob) \in Nat \ {0} /\ ob[Len(ob)] \in 1..Len(e) /\ e[ob[Len(ob)]].type = "Begin"
  BY <1>1, TopNode
<1>3. /\ IsSeq(ob) /\ IsSeq(e) /\ Output(out) /\ Len(e) \in Nat /\ IsSeq(em)
      /\ Ledger(Cat(em, e), ts.current)
  BY SeqIs DEF Core, Begun, Output
<1>4. /\ Output(out2) /\ out2.open_begins = Front(ob)
      /\ out2.num_bookmarks = out.num_bookmarks
      /\ Len(e2) = Len(e) + 1 /\ Agree(e, e2, Len(e)) /\ e2[Len(e) + 1].type # "Token"
  BY <1>2, <1>3, CloseIs
<1> HIDE DEF out2
<1>5. Ledger(Cat(em, e2), ts.current)
  <2>1. \A j \in 1..1 : e2[Len(e) + j].type # "Token"
    BY <1>4
  <2>2. IsSeq(e2)
    BY <1>4 DEF Output
  <2> QED
    BY <1>3, <1>4, <2>1, <2>2, BookOthers
<1>6. Len(e) <= Len(e) /\ Len(e) <= Len(e2) /\ ob[Len(ob)] - 1 <= Len(e)
  BY <1>2, <1>3, <1>4
<1> QED
  BY <1>3, <1>4, <1>5, <1>6, CoreEnd DEF out2

LEMMA CoreEndNode ==
  ASSUME NEW len, NEW em, NEW st, NEW ts, NEW out, NEW nd, NEW od,
         Core(len, em, st, ts, out, nd, od), st # <<>>,
         st[1].code # <<>>, st[1].code[1].op = "end"
  PROVE  Core(len, em, Push(Frame(Tail(st[1].code), st[1].exit), Rest(st)), ts,
              EndNode(out), nd, od)
BY CoreClose DEF EndNode

LEMMA CoreEndNodeWithError ==
  ASSUME NEW len, NEW em, NEW st, NEW ts, NEW out, NEW nd, NEW od,
         Core(len, em, st, ts, out, nd, od), st # <<>>,
         st[1].code # <<>>, st[1].code[1].op = "end"
  PROVE  Core(len, em, Push(Frame(Tail(st[1].code), st[1].exit), Rest(st)), ts,
              EndNodeWithError(out), nd, od)
<1> DEFINE e == out.events
           ob == out.open_begins
           out2 == EndNodeWithError(out)
           e2 == Front(e)
           ob2 == Front(ob)
           n == Len(e) - 1
<1>1. CASE Last(ob) # Len(e)
  BY <1>1, CoreClose DEF EndNodeWithError
<1>2. CASE Last(ob) = Len(e)
  <2>1. PICK o : Opens(st, ob, o)
    BY DEF Core
  <2>2. Len(ob) \in Nat \ {0} /\ ob[Len(ob)] \in 1..Len(e) /\ e[ob[Len(ob)]].type = "Begin"
    BY <2>1, TopNode
  <2>3. ob[Len(ob)] = Len(e)
    BY <1>2 DEF Last
  <2>4. /\ IsSeq(ob) /\ IsSeq(e) /\ Output(out) /\ Len(e) \in Nat /\ IsSeq(em)
        /\ Ledger(Cat(em, e), ts.current)
    BY SeqIs DEF Core, Begun, Output
  <2>5. n \in Nat /\ n <= Len(e) /\ ob[Len(ob)] - 1 <= n /\ e # <<>> /\ Len(e) = n + 1
    BY <2>2, <2>3, <2>4, SeqIs
  <2>6. IsSeq(e2) /\ Len(e2) = n /\ \A i \in 1..n : e2[i] = e[i]
    BY <2>4, <2>5, FrontIs
  <2>7. out2 = [events |-> e2, open_begins |-> ob2, num_bookmarks |-> out.num_bookmarks,
                last_token_end |-> out.last_token_end]
    <3>1. out2 = [out EXCEPT !.events = e2, !.open_begins = ob2]
      BY <1>2, Zenon DEF EndNodeWithError
    <3> HIDE DEF out2, e2, ob2
    <3> QED
      BY <2>4, <3>1 DEF Output
  <2> HIDE DEF out2, e2
  <2>8. /\ Output(out2) /\ out2.open_begins = ob2 /\ out2.events = e2
        /\ out2.num_bookmarks = out.num_bookmarks
    BY <2>6, <2>7 DEF Output
  <2>9. Agree(e, e2, n)
    BY <2>6 DEF Agree, Alike
  <2>10. Ledger(Cat(em, e2), ts.current)
    <3>1. Ledger(Cat(em, e2), Upto(em, e, n))
      BY <2>4, <2>5, <2>6, <2>9, BookCut
    <3>2. Upto(em, e, Len(e)) = ts.current
      BY <2>4, BookAll
    <3> DEFINE all == Cat(em, e)
               k == Len(em) + Len(e)
    <3>3. Len(em) \in Nat /\ k \in Nat /\ Len(e) \in 1..Len(e)
      BY <2>2, <2>3, <2>4, SeqIs
    <3>4. IsSeq(all) /\ all[k] = e[Len(e)]
      BY <2>4, <3>3, CatIs, CatRight, ZenonT(40)
    <3>5. k \notin Tok(all) /\ Tok(all) \subseteq Nat
      <4>1. all[k].type # "Token"
        BY <2>2, <2>3, <3>4
      <4> HIDE DEF all, k
      <4> QED
        BY <3>4, <4>1, TokIs DEF Tok
    <3> HIDE DEF all
    <3>6. Count(Tok(all), k + 1) = Count(Tok(all), k)
      BY <3>3, <3>5, CountStep
    <3>7. k = Len(em) + n + 1
      BY <2>5, <3>3
    <3>8. Upto(em, e, n) = Count(Tok(all), k) /\ Upto(em, e, Len(e)) = Count(Tok(all), k + 1)
      BY <3>7 DEF Upto, all
    <3> QED
      BY <3>1, <3>2, <3>6, <3>8
  <2>11. n <= Len(e2)
    BY <2>5, <2>6
  <2> HIDE DEF n
  <2> QED
    BY <2>5, <2>8, <2>9, <2>10, <2>11, CoreEnd DEF out2
<1> QED
  BY <1>1, <1>2

-----------------------------------------------------------------------------
(* The tokens that are consumed.                                            *)

LEMMA TriviaEventsAre ==
  ASSUME NEW c \in Nat, NEW m \in Nat, c <= m
  PROVE  LET evs == TriviaEvents(c + 1, m)
         IN  IsSeq(evs) /\ Len(evs) = m - c /\ TokensFrom(evs, c)
<1> DEFINE n == m - c
           ev(k) == TokenEvent(source[c + 1 + k - 1], c + 1 + k - 1)
           evs == [k \in 1..n |-> ev(k)]
<1>1. n \in Nat /\ m - (c + 1) + 1 = n
  OBVIOUS
<1>2. TriviaEvents(c + 1, m) = evs
  BY <1>1 DEF TriviaEvents
<1>3. \A k \in 1..n : ev(k).type = "Token" /\ ev(k).to = c + k
  BY <1>1 DEF TokenEvent
<1> HIDE DEF n, ev
<1>4. evs \in Seq({ev(k) : k \in 1..n}) /\ Len(evs) = n
  BY <1>1
<1>5. IsSeq(evs)
  BY <1>4 DEF IsSeq
<1>6. TokensFrom(evs, c)
  BY <1>3, <1>4 DEF TokensFrom
<1> QED
  BY <1>2, <1>4, <1>5, <1>6 DEF n

LEMMA TokenEventsAre ==
  ASSUME NEW c \in Nat, NEW m \in Nat, c <= m
  PROVE  LET evs == TokenEvents(c + 1, m)
         IN  IsSeq(evs) /\ Len(evs) = m - c /\ TokensFrom(evs, c)
<1> DEFINE n == m - c
           ev(k) == TokenEvent(TokenAt(tokens, c + 1 + k - 1), c + 1 + k - 1)
           evs == [k \in 1..n |-> ev(k)]
<1>1. n \in Nat /\ m - (c + 1) + 1 = n
  OBVIOUS
<1>2. TokenEvents(c + 1, m) = evs
  BY <1>1 DEF TokenEvents
<1>3. \A k \in 1..n : ev(k).type = "Token" /\ ev(k).to = c + k
  BY <1>1 DEF TokenEvent
<1> HIDE DEF n, ev
<1>4. evs \in Seq({ev(k) : k \in 1..n}) /\ Len(evs) = n
  BY <1>1
<1>5. IsSeq(evs)
  BY <1>4 DEF IsSeq
<1>6. TokensFrom(evs, c)
  BY <1>3, <1>4 DEF TokensFrom
<1> QED
  BY <1>2, <1>4, <1>5, <1>6 DEF n

\* The trivia, and one more token.
LEMMA ExpectedEventsAre ==
  ASSUME NEW c \in Nat, NEW i \in Nat, c < i, NEW kind
  PROVE  LET evs == Append(TriviaEvents(c + 1, i - 1), TokenEvent(kind, i))
         IN  IsSeq(evs) /\ Len(evs) = i - c /\ TokensFrom(evs, c)
<1> DEFINE m == i - 1
           s == TriviaEvents(c + 1, m)
           x == TokenEvent(kind, i)
           evs == Append(s, x)
<1>1. m \in Nat /\ c <= m /\ m - c \in Nat /\ i - c = m - c + 1 /\ i = c + (m - c + 1)
  OBVIOUS
<1> HIDE DEF m
<1>2. IsSeq(s) /\ Len(s) = m - c /\ TokensFrom(s, c)
  BY <1>1, TriviaEventsAre
<1>3. x.type = "Token" /\ x.to = i
  BY DEF TokenEvent
<1> HIDE DEF s, x
<1>4. /\ IsSeq(evs) /\ Len(evs) = Len(s) + 1 /\ (\A j \in 1..Len(s) : evs[j] = s[j])
      /\ evs[Len(s) + 1] = x
  BY <1>2, AppendIs
<1> HIDE DEF evs
<1>5. ASSUME NEW j \in 1..Len(evs) PROVE evs[j].type = "Token" /\ evs[j].to = c + j
  <2>1. CASE j \in 1..Len(s)
    BY <1>2, <1>4, <2>1 DEF TokensFrom
  <2>2. CASE j = Len(s) + 1
    BY <1>1, <1>2, <1>3, <1>4, <2>2
  <2> QED
    BY <1>1, <1>2, <1>4, <2>1, <2>2
<1>6. TokensFrom(evs, c)
  BY <1>5 DEF TokensFrom
<1> QED
  BY <1>1, <1>2, <1>4, <1>6 DEF evs, s, x, m

LEMMA CoreSkipTrivia ==
  ASSUME IsSeq(source), NEW em, NEW st, NEW ts, NEW out, NEW nd, NEW od,
         Core(Len(source), em, st, ts, out, nd, od)
  PROVE  LET i == NextNonTrivia(ts.current)
         IN  Core(Len(source), em, st, AdvanceTo(Fetch(ts, i), i - 1),
                  PushTokens(out, TriviaEvents(ts.current + 1, i - 1)), nd, od)
<1> DEFINE i == NextNonTrivia(ts.current)
           c == ts.current
           m == i - 1
           evs == TriviaEvents(c + 1, m)
<1>1. Len(source) \in Nat /\ c \in Nat /\ c <= Len(source)
  <2>1. Len(source) \in Nat /\ Len(ts.tokens) \in Nat
    BY SeqIs DEF Core, Stream
  <2> QED
    BY <2>1 DEF Core, Stream
<1>2. i \in Nat /\ c < i /\ i <= Len(source) + 1
  BY <1>1, NextNonTriviaIs
<1> HIDE DEF i
<1>3. m \in Nat /\ c <= m /\ m <= i /\ m <= Len(source)
  BY <1>1, <1>2
<1> HIDE DEF m
<1>4. IsSeq(evs) /\ Len(evs) = m - c /\ TokensFrom(evs, c)
  BY <1>1, <1>3, TriviaEventsAre
<1> HIDE DEF evs
<1>5. Core(Len(source), em, st, AdvanceTo(Fetch(ts, i), m), PushTokens(out, evs), nd, od)
  BY <1>2, <1>3, <1>4, CoreConsume
<1> QED
  BY <1>5 DEF evs, m, i

\* Looking at the next token.
LEMMA CoreAhead ==
  ASSUME IsSeq(source), NEW em, NEW st, NEW out, NEW nd, NEW od,
         Core(Len(source), em, st, tokens, out, nd, od)
  PROVE  /\ Core(Len(source), em, st, Ahead, out, nd, od)
         /\ NextToken \in Nat /\ tokens.current < NextToken /\ NextToken <= Len(source) + 1
         /\ NextToken <= Len(source) => source[NextToken] \notin Trivia
         /\ tokens.current \in Nat /\ Len(source) \in Nat
<1>1. Len(source) \in Nat /\ tokens.current \in Nat /\ tokens.current <= Len(source)
  <2>1. Len(source) \in Nat /\ Len(tokens.tokens) \in Nat
    BY SeqIs DEF Core, Stream
  <2> QED
    BY <2>1 DEF Core, Stream
<1>2. /\ NextToken \in Nat /\ tokens.current < NextToken /\ NextToken <= Len(source) + 1
      /\ NextToken <= Len(source) => source[NextToken] \notin Trivia
  BY <1>1, NextNonTriviaIs DEF NextToken
<1>3. Stream(tokens, Len(source))
  BY DEF Core
<1>4. Stream(Ahead, Len(source)) /\ Ahead.current = tokens.current /\ Ahead.bookmarks = tokens.bookmarks
  BY <1>2, <1>3, FetchIs DEF Ahead
<1>5. Core(Len(source), em, st, Ahead, out, nd, od)
  BY <1>4, CoreStream
<1> QED
  BY <1>1, <1>2, <1>5

LEMMA CoreExpect ==
  ASSUME IsSeq(source), NEW em, NEW st, NEW out, NEW nd, NEW od,
         Core(Len(source), em, st, tokens, out, nd, od), NextToken <= Len(source), NEW kind
  PROVE  Core(Len(source), em, st, AdvanceTo(Ahead, NextToken),
              PushTokens(out, Append(TriviaEvents(tokens.current + 1, NextToken - 1),
                                     TokenEvent(kind, NextToken))), nd, od)
<1> DEFINE c == tokens.current
           i == NextToken
           evs == Append(TriviaEvents(c + 1, i - 1), TokenEvent(kind, i))
<1>1. i \in Nat /\ c \in Nat /\ c < i /\ c <= i /\ i <= i
  BY CoreAhead
<1>2. IsSeq(evs) /\ Len(evs) = i - c /\ TokensFrom(evs, c)
  BY <1>1, ExpectedEventsAre
<1> HIDE DEF evs
<1>3. Core(Len(source), em, st, AdvanceTo(Fetch(tokens, i), i), PushTokens(out, evs), nd, od)
  BY <1>1, <1>2, CoreConsume
<1> QED
  BY <1>3 DEF Ahead, evs

\* Discard: the trivia, the errors, and an ERROR node with the tokens up to
\* the last one that is not trivia.
LEMMA CoreDiscard ==
  ASSUME IsSeq(source), NEW em, NEW st, NEW nd, NEW od,
         Core(Len(source), em, st, tokens, output, nd, od), NextToken <= Len(source),
         NEW set, TokenAt(tokens, NextToken) \notin Ids(set), NEW spans, IsSeq(spans),
         Discard(set, spans)
  PROVE  Core(Len(source), em, st, tokens', output', nd, od)
<1> DEFINE c == tokens.current
           t == NextToken
           len == Len(source)
           S == {i \in t..len : TokenAt(tokens, i) \in Ids(set)} \cup {len + 1}
           stop == Min(S)
           L == {i \in t..(stop - 1) : source[i] \notin Trivia}
           last == Max(L)
           out1 == PushTokens(output, TriviaEvents(c + 1, t - 1))
           out2 == PushErrors(out1, spans)
           evs == TokenEvents(t, last)
           out3 == PushErrorNode(out2, evs)
           ts1 == Fetch(tokens, stop)
           ts2 == AdvanceTo(ts1, last)
<1>1. tokens' = ts2 /\ output' = out3
  BY Zenon DEF Discard
<1>2. /\ len \in Nat /\ c \in Nat /\ t \in Nat /\ c < t /\ t <= len /\ source[t] \notin Trivia
  BY CoreAhead
<1> HIDE DEF t, len, c
<1>3. stop \in S /\ stop \in Nat /\ t < stop /\ stop <= len + 1
  <2>1. S \subseteq Nat /\ S # {}
    BY <1>2
  <2>2. stop \in S
    BY <2>1, MinIs
  <2>3. stop # t
    <3>1. TokenAt(tokens, t) \notin Ids(set)
      BY DEF t
    <3> HIDE DEF stop
    <3> QED
      BY <1>2, <2>2, <3>1
  <2> HIDE DEF stop
  <2> QED
    BY <1>2, <2>2, <2>3
<1> HIDE DEF stop
<1>4. last \in Nat /\ t <= last /\ last < stop /\ last <= len /\ last <= stop
  <2>1. t \in L
    BY <1>2, <1>3
  <2>2. L \subseteq 0..len
    BY <1>2, <1>3
  <2>3. last \in L
    BY <1>2, <2>1, <2>2, MaxIs
  <2> HIDE DEF last
  <2> QED
    BY <1>2, <1>3, <2>3
<1> HIDE DEF last
<1> DEFINE m == t - 1
<1>5. m \in Nat /\ c <= m /\ m + 1 = t /\ m <= last /\ c + (m - c) = m /\ m + (last - m) = last
  BY <1>2, <1>4
<1> HIDE DEF m
<1>6. /\ Stream(tokens, len) /\ Output(output) /\ IsSeq(em) /\ Ledger(Cat(em, output.events), c)
  BY DEF Core, len, c
<1>7. /\ Stream(ts2, len) /\ ts2.current = last /\ ts2.bookmarks = tokens.bookmarks
  <2>1. /\ Stream(ts1, len) /\ ts1.current = c /\ ts1.bookmarks = tokens.bookmarks
        /\ stop <= len => stop <= Lexed(ts1)
        /\ len <= stop => Lexed(ts1) = len
        /\ Lexed(ts1) \in Nat
    BY <1>3, <1>6, FetchIs DEF len, c
  <2> HIDE DEF ts1
  <2>2. last <= Lexed(ts1) /\ ts1.current <= last
    BY <1>2, <1>3, <1>4, <2>1
  <2> QED
    BY <1>4, <2>1, <2>2, AdvanceToIs DEF len
<1> HIDE DEF ts2, ts1
<1> DEFINE tevs == TriviaEvents(c + 1, m)
<1>8. IsSeq(tevs) /\ Len(tevs) = m - c /\ TokensFrom(tevs, c)
  BY <1>2, <1>5, TriviaEventsAre
<1>9. out1 = PushTokens(output, tevs)
  BY DEF m
<1> HIDE DEF tevs, out1
<1>10. /\ Output(out1) /\ out1.open_begins = output.open_begins
       /\ out1.num_bookmarks = output.num_bookmarks /\ Follows(output.events, out1.events, tevs)
  BY <1>6, <1>8, <1>9, PushTokensIs
<1>11. Ledger(Cat(em, out1.events), m)
  <2>1. Ledger(Cat(em, out1.events), c + Len(tevs))
    BY <1>6, <1>8, <1>10, FollowTokens
  <2> QED
    BY <1>5, <1>8, <2>1
<1>12. /\ Output(out2) /\ out2.open_begins = out1.open_begins
       /\ out2.num_bookmarks = out1.num_bookmarks
       /\ \E x : Follows(out1.events, out2.events, x) /\ NoTokens(x)
  BY <1>10, PushErrorsIs
<1> HIDE DEF out2
<1>13. PICK x : Follows(out1.events, out2.events, x) /\ NoTokens(x)
  BY <1>12
<1>14. Ledger(Cat(em, out2.events), m)
  BY <1>6, <1>11, <1>13, FollowOthers
<1>15. IsSeq(evs) /\ Len(evs) = last - m /\ TokensFrom(evs, m)
  BY <1>4, <1>5, TokenEventsAre
<1> HIDE DEF evs
<1>16. /\ Output(out3) /\ out3.open_begins = out2.open_begins
       /\ out3.num_bookmarks = out2.num_bookmarks
       /\ Len(out2.events) <= Len(out3.events)
       /\ Agree(out2.events, out3.events, Len(out2.events))
       /\ Ledger(Cat(em, out3.events), m + Len(evs))
  BY <1>6, <1>12, <1>14, <1>15, PushErrorNodeIs
<1> HIDE DEF out3
<1>17. Ledger(Cat(em, out3.events), last)
  BY <1>5, <1>15, <1>16
<1> DEFINE e == output.events
           e1 == out1.events
           e2 == out2.events
           e3 == out3.events
<1>18. /\ Len(e) \in Nat /\ Len(e1) \in Nat /\ Len(e2) \in Nat /\ Len(e3) \in Nat
       /\ Len(e) <= Len(e1) /\ Len(e1) <= Len(e2) /\ Len(e2) <= Len(e3)
       /\ Agree(e, e1, Len(e)) /\ Agree(e1, e2, Len(e1)) /\ Agree(e2, e3, Len(e2))
  <2>1. /\ Len(e) \in Nat /\ Len(e1) \in Nat /\ Len(e) <= Len(e1) /\ Agree(e, e1, Len(e))
    BY <1>10, FollowsIs
  <2>2. /\ Len(e2) \in Nat /\ Len(e1) <= Len(e2) /\ Agree(e1, e2, Len(e1))
    BY <1>13, FollowsIs
  <2>3. Len(e3) \in Nat
    BY <1>16, SeqIs DEF Output
  <2> QED
    BY <1>16, <2>1, <2>2, <2>3
<1> HIDE DEF e, e1, e2, e3
<1>19. Len(e) <= Len(e3) /\ Len(e) <= Len(e2)
  BY <1>18
<1>20. Agree(e, e2, Len(e))
  BY <1>18, AgreeTrans
<1>21. Agree(e, e3, Len(e))
  BY <1>18, <1>19, <1>20, AgreeTrans
<1>22. out3.open_begins = output.open_begins /\ out3.num_bookmarks = output.num_bookmarks
  BY <1>10, <1>12, <1>16
<1>23. Core(Len(source), em, st, ts2, out3, nd, od)
  BY <1>7, <1>16, <1>17, <1>19, <1>21, <1>22, CoreEvents DEF e, e3, len
<1> QED
  BY <1>1, <1>23

-----------------------------------------------------------------------------
(* The stack of the machine.                                                *)

LEMMA ConcatEmpty ==
  ASSUME NEW s, IsSeq(s)
  PROVE  <<>> \o s = s /\ s \o <<>> = s
<1>1. PICK S : s \in Seq(S)
  BY DEF IsSeq
<1> QED
  BY <1>1, ConcatEmptySeq

LEMMA ContinueIs ==
  ASSUME Stack(stack), stack # <<>>, NEW body
  PROVE  Continue(body) = Push(Frame(body \o Tail(Code), Exit), Rest(stack))
<1> DEFINE f == stack[1]
           p == body \o Tail(f.code)
<1>1. f = Frame(f.code, f.exit)
  BY StackPop DEF GoodFrame
<1>2. Continue(body) = <<[f EXCEPT !.code = p]>> \o Tail(stack)
  BY Zenon DEF Continue
<1> HIDE DEF p, f
<1>3. [f EXCEPT !.code = p] = Frame(p, f.exit)
  BY <1>1 DEF Frame
<1>4. Continue(body) = Push(Frame(p, f.exit), Rest(stack))
  BY <1>2, <1>3 DEF Push, Rest
<1> QED
  BY <1>4 DEF p, f, Code, Exit

LEMMA ContinueNext ==
  ASSUME Stack(stack), stack # <<>>, Code # <<>>
  PROVE  Continue(<<>>) = Push(Frame(Tail(Code), Exit), Rest(stack))
<1>1. IsSeq(Code)
  BY StackPop DEF GoodFrame, GoodCode, Code
<1>2. IsSeq(Tail(Code))
  BY <1>1, TailIs
<1>3. <<>> \o Tail(Code) = Tail(Code)
  BY <1>2, ConcatEmpty
<1> QED
  BY <1>3, ContinueIs

LEMMA PushNotEmpty ==
  ASSUME NEW st, IsSeq(st), NEW f
  PROVE  Push(f, st) # <<>>
<1>1. IsSeq(Push(f, st)) /\ Len(Push(f, st)) = Len(st) + 1 /\ Len(st) \in Nat
  BY PushIs, SeqIs
<1> QED
  BY <1>1, SeqIs

\* What the instruction that runs may refer to.
LEMMA InstrIs ==
  ASSUME Stack(stack), stack # <<>>, Code # <<>>
  PROVE  /\ GoodInstr(Instr) /\ GoodFrame(stack[1]) /\ GoodExit(Exit) /\ GoodCode(Code)
         /\ Instr.op \in {"opt", "not", "if_next", "n_or_more", "then", "cached"}
              => Instr.body \in Bodies
         /\ Instr.op = "call" => Rules[Instr.name] \in Bodies
         /\ Instr.op = "alt" => Instr.alts[1] \in Bodies /\ Tail(Instr.alts) \in Seq(Bodies)
<1>1. GoodFrame(stack[1])
  BY StackPop
<1>2. GoodCode(Code) /\ GoodExit(Exit)
  BY <1>1 DEF GoodFrame, Code, Exit
<1>3. Len(Code) \in Nat /\ Len(Code) # 0
  BY <1>2, SeqIs DEF GoodCode
<1>4. GoodInstr(Instr)
  BY <1>2, <1>3 DEF GoodCode, Instr
<1>5. ASSUME Instr.op \in {"opt", "not", "if_next", "n_or_more", "then", "cached"}
      PROVE  Instr.body \in Bodies
  <2>1. ClosuresOf(Instr) = {Instr.body}
    BY <1>5 DEF ClosuresOf
  <2> QED
    BY <1>4, <2>1 DEF GoodInstr
<1>6. ASSUME Instr.op = "call" PROVE Rules[Instr.name] \in Bodies
  BY <1>4, <1>6, GrammarAssumption DEF GoodInstr
<1>7. ASSUME Instr.op = "alt" PROVE Instr.alts[1] \in Bodies /\ Tail(Instr.alts) \in Seq(Bodies)
  <2>1. Instr.alts \in Seq(Bodies) /\ Instr.alts # <<>>
    BY <1>4, <1>7 DEF GoodInstr
  <2> DEFINE a == Instr.alts
  <2> HIDE DEF a
  <2>2. a \in Seq(Bodies) /\ a # <<>>
    BY <2>1 DEF a
  <2>3. a[1] \in Bodies /\ Tail(a) \in Seq(Bodies)
    BY <2>2
  <2> QED
    BY <2>3 DEF a
<1> QED
  BY <1>1, <1>2, <1>4, <1>5, <1>6, <1>7

\* The instruction is done, or its program takes its place.
LEMMA CoreContinue ==
  ASSUME NEW len, NEW em, NEW ts, NEW out, NEW nd, NEW od,
         Core(len, em, stack, ts, out, nd, od), stack # <<>>, Code # <<>>,
         Instr.op \notin {"begin", "end"}, NEW body, body \in Bodies \/ body = <<>>
  PROVE  Core(len, em, Continue(body), ts, out, nd, od)
<1> DEFINE p == body \o Tail(Code)
           f == Frame(p, Exit)
<1>1. Stack(stack)
  BY DEF Core
<1>2. GoodCode(Code) /\ GoodExit(Exit)
  BY <1>1, InstrIs
<1>3. \A n : Closes(Code, n) => GoodCode(p) /\ Closes(p, n)
  BY <1>2, ClosesInstead DEF Instr
<1>4. \E n : Closes(Code, n)
  <2>1. PICK o : Opens(stack, out.open_begins, o)
    BY DEF Core
  <2>2. Closes(stack[1].code, Len(out.open_begins) - o[Len(stack)])
    BY <1>1, <2>1, OpensTop DEF Core, Begun, Stack
  <2> QED
    BY <2>2 DEF Code
<1>5. GoodCode(p)
  BY <1>3, <1>4
<1> HIDE DEF p
<1>6. f.code = p /\ f.exit = Exit /\ GoodFrame(f)
  BY <1>2, <1>5 DEF Frame, GoodFrame
<1> HIDE DEF f
<1>7. Core(len, em, Push(f, Rest(stack)), ts, out, nd, od)
  BY <1>3, <1>6, CoreRetop DEF Code, Exit
<1> QED
  BY <1>1, <1>7, ContinueIs DEF f, p

\* A closure runs in a frame of its own, with a bookmark.
LEMMA CoreEnter ==
  ASSUME NEW len, NEW em, NEW st, NEW ts, NEW out, NEW nd, NEW od,
         Core(len, em, st, ts, out, nd, od), NEW body \in Bodies,
         NEW exit, GoodExit(exit), exit.do \in Branches, exit.bm = Bookmark(ts, out)
  PROVE  Core(len, em, Push(Frame(body, exit), st), MarkTokens(ts), MarkOutput(out),
              IF exit.do = "not" THEN nd + 1 ELSE nd, IF exit.do = "not" THEN od ELSE od + 1)
<1> DEFINE f == Frame(body, exit)
<1>1. GoodCode(body) /\ Closes(body, 0)
  BY BodyCloses
<1>2. f.code = body /\ f.exit = exit /\ GoodFrame(f)
  BY <1>1 DEF Frame, GoodFrame
<1> HIDE DEF f
<1>3. Core(len, em, Push(f, st), MarkTokens(ts), MarkOutput(out),
           IF f.exit.do = "not" THEN nd + 1 ELSE nd, IF f.exit.do = "not" THEN od ELSE od + 1)
  BY <1>1, <1>2, CoreMark
<1> QED
  BY <1>2, <1>3 DEF f

LEMMA CoreEnterPlain ==
  ASSUME NEW len, NEW em, NEW st, NEW ts, NEW out, NEW nd, NEW od,
         Core(len, em, st, ts, out, nd, od), NEW body \in Bodies,
         NEW exit, GoodExit(exit), exit.do \notin Branches, exit.do # "item"
  PROVE  Core(len, em, Push(Frame(body, exit), st), ts, out, nd, od)
<1> DEFINE f == Frame(body, exit)
<1>1. GoodCode(body) /\ Closes(body, 0)
  BY BodyCloses
<1>2. f.code = body /\ f.exit = exit /\ GoodFrame(f)
  BY <1>1 DEF Frame, GoodFrame
<1> HIDE DEF f
<1>3. Core(len, em, Push(f, st), ts, out, nd, od)
  BY <1>1, <1>2, CorePush
<1> QED
  BY <1>3 DEF f

\* The branch is over: back to its bookmark if it failed, and no bookmark.
LEMMA CoreLeave ==
  ASSUME NEW len, NEW em, NEW nd, NEW od, NEW restored \in BOOLEAN,
         Core(len, em, stack, tokens, output, nd, od), stack # <<>>, Code = <<>>,
         Exit.do \in Branches
  PROVE  LET p == Leave(Exit.bm, restored)
         IN  Core(len, em, Rest(stack), p.tokens, p.output,
                  IF Exit.do = "not" THEN nd - 1 ELSE nd, IF Exit.do = "not" THEN od ELSE od - 1)
<1> DEFINE bm == Exit.bm
           ts == IF restored THEN RestoreTokens(tokens, bm.tokens) ELSE tokens
           out == IF restored THEN Truncate(output, bm.output) ELSE output
           p == Leave(bm, restored)
<1>1. p = [tokens |-> UnmarkTokens(ts, bm.tokens), output |-> UnmarkOutput(out)]
  <2>1. CASE restored
    BY <2>1 DEF Leave, RestoreBookmark, RemoveBookmark
  <2>2. CASE ~restored
    BY <2>2 DEF Leave, RemoveBookmark
  <2> QED
    BY <2>1, <2>2
<1>2. Core(len, em, stack, ts, out, nd, od)
  <2>1. CASE restored
    BY <2>1, CoreRestore DEF Code, Exit
  <2>2. CASE ~restored
    BY <2>2
  <2> QED
    BY <2>1, <2>2
<1> HIDE DEF ts, out, p
<1>3. p.tokens = UnmarkTokens(ts, bm.tokens) /\ p.output = UnmarkOutput(out)
  BY <1>1
<1>4. Core(len, em, Rest(stack), UnmarkTokens(ts, bm.tokens), UnmarkOutput(out),
           IF Exit.do = "not" THEN nd - 1 ELSE nd, IF Exit.do = "not" THEN od ELSE od - 1)
  BY <1>2, CoreUnmark DEF Code, Exit
<1> QED
  BY <1>3, <1>4 DEF p

LEMMA SkipTriviaCore ==
  ASSUME IsSeq(source), NEW em, NEW st, NEW ts, NEW out, NEW nd, NEW od,
         Core(Len(source), em, st, ts, out, nd, od), SkipTrivia(ts, out)
  PROVE  Core(Len(source), em, st, tokens', output', nd, od)
<1> DEFINE i == NextNonTrivia(ts.current)
<1>1. /\ tokens' = AdvanceTo(Fetch(ts, i), i - 1)
      /\ output' = PushTokens(out, TriviaEvents(ts.current + 1, i - 1))
  BY Zenon DEF SkipTrivia
<1> QED
  BY <1>1, CoreSkipTrivia

-----------------------------------------------------------------------------
(* The inductive invariant: the core, the state of the parser, the errors.  *)
Whole == Core(Len(source), emitted, stack, tokens, output, not_depth, opt_depth)

Running == {"OK", "Failure", "OutOfFuel"}

Control ==
  /\ state \in {"StartOfInput", "OK", "Failure", "OutOfFuel", "EndOfInput"}
  /\ stack # <<>> => state \in Running
  /\ state = "StartOfInput" => /\ stack = <<>> /\ emitted = <<>>
                               /\ tokens = NewStream /\ output = NewOutput
  /\ fuel \in Nat

Spans(len, expected, unexpected, pending) ==
  /\ expected \subseteq 1..(len + 1) /\ unexpected \subseteq 1..(len + 1)
  /\ IsSeq(pending) /\ \A i \in 1..Len(pending) : pending[i] \in 1..(len + 1)

Mistakes == Spans(Len(source), expected_token_errors, unexpected_token_errors, pending_errors)

IInv == IsSeq(source) /\ Whole /\ Control /\ Mistakes

LEMMA SkipWhole ==
  ASSUME IInv, Skip
  PROVE  Whole'
<1>1. /\ stack # <<>> /\ Code # <<>> /\ Instr.op \notin {"begin", "end"} /\ stack' = Continue(<<>>)
      /\ UNCHANGED <<source, tokens, output, opt_depth, not_depth, emitted>>
  BY DEF Skip
<1>2. Core(Len(source), emitted, Continue(<<>>), tokens, output, not_depth, opt_depth)
  BY <1>1, CoreContinue DEF IInv, Whole
<1> QED
  BY <1>1, <1>2 DEF Whole

LEMMA CallWhole ==
  ASSUME IInv, Call
  PROVE  Whole'
<1> DEFINE body == Rules[Instr.name]
<1>1. /\ stack # <<>> /\ Code # <<>> /\ Instr.op = "call" /\ stack' = Continue(body)
      /\ UNCHANGED <<source, tokens, output, opt_depth, not_depth, emitted>>
  BY DEF Call, Runs
<1>2. body \in Bodies
  BY <1>1, InstrIs DEF IInv, Whole, Core
<1> HIDE DEF body
<1>3. Core(Len(source), emitted, Continue(body), tokens, output, not_depth, opt_depth)
  BY <1>1, <1>2, CoreContinue DEF IInv, Whole
<1> QED
  BY <1>1, <1>3 DEF Whole

\* An instruction whose closure takes its place, after the trivia.
LEMMA GoOn ==
  ASSUME IInv, stack # <<>>, Code # <<>>, Instr.op \in {"then", "if_next"},
         stack' = Continue(Instr.body), SkipTrivia(tokens, output),
         UNCHANGED <<source, opt_depth, not_depth, emitted>>
  PROVE  Whole'
<1> DEFINE body == Instr.body
<1>1. body \in Bodies
  BY InstrIs DEF IInv, Whole, Core
<1>2. stack' = Continue(body)
  OBVIOUS
<1> HIDE DEF body
<1>3. Core(Len(source), emitted, Continue(body), tokens, output, not_depth, opt_depth)
  BY <1>1, CoreContinue DEF IInv, Whole
<1>4. Core(Len(source), emitted, Continue(body), tokens', output', not_depth, opt_depth)
  BY <1>3, SkipTriviaCore DEF IInv
<1> QED
  BY <1>2, <1>4 DEF Whole

LEMMA ThenWhole ==
  ASSUME IInv, Then
  PROVE  Whole'
BY GoOn DEF Then, Runs

LEMMA IfNextWhole ==
  ASSUME IInv, IfNext
  PROVE  Whole'
BY GoOn DEF IfNext, Runs

\* An instruction that only looks at the next token.
LEMMA LookAhead ==
  ASSUME IInv, stack # <<>>, Code # <<>>, Instr.op \notin {"begin", "end"},
         stack' = Continue(<<>>), tokens' = Ahead,
         UNCHANGED <<source, output, opt_depth, not_depth, emitted>>
  PROVE  Whole'
<1>1. Core(Len(source), emitted, Continue(<<>>), tokens, output, not_depth, opt_depth)
  BY CoreContinue DEF IInv, Whole
<1>2. Core(Len(source), emitted, Continue(<<>>), Ahead, output, not_depth, opt_depth)
  BY <1>1, CoreAhead DEF IInv
<1> QED
  BY <1>2 DEF Whole

LEMMA LookingWhole ==
  ASSUME IInv, ExpectFails \/ IfNextNot \/ RecoverAtEnd \/ RecoverFound
  PROVE  Whole'
<1>1. CASE ExpectFails
  BY <1>1, LookAhead DEF ExpectFails, Runs
<1>2. CASE IfNextNot
  BY <1>2, LookAhead DEF IfNextNot, Runs
<1>3. CASE RecoverAtEnd
  BY <1>3, LookAhead DEF RecoverAtEnd, Runs
<1>4. CASE RecoverFound
  BY <1>4, LookAhead DEF RecoverFound, Runs
<1> QED
  BY <1>1, <1>2, <1>3, <1>4

LEMMA BeginWhole ==
  ASSUME IInv, Begin
  PROVE  Whole'
<1> DEFINE c == tokens.current
           kind == Instr.kind
           st == Push(Frame(Tail(Code), Exit), Rest(stack))
<1>1. /\ stack # <<>> /\ Code # <<>> /\ Instr.op = "begin" /\ stack' = Continue(<<>>)
      /\ UNCHANGED <<source, opt_depth, not_depth, emitted>>
  BY DEF Begin, Runs
<1>2. stack' = st
  BY <1>1, ContinueNext DEF IInv, Whole, Core
<1>3. CASE Stopped
  <2>1. PICK i : /\ i = c + 1 /\ tokens' = tokens
                 /\ output' = BeginNode(PushTokens(output, TriviaEvents(c + 1, i - 1)), kind)
    BY <1>3 DEF Begin
  <2> DEFINE evs == TriviaEvents(c + 1, i - 1)
  <2>2. c \in Nat
    BY CoreAhead DEF IInv, Whole
  <2>3. PushTokens(output, evs) = output
    <3>1. i - 1 = c /\ c <= c /\ c - c = 0
      BY <2>1, <2>2
    <3>2. IsSeq(evs) /\ Len(evs) = 0
      BY <2>2, <3>1, TriviaEventsAre
    <3> HIDE DEF evs
    <3>3. evs = <<>>
      BY <3>2, SeqIs
    <3> QED
      BY <3>3 DEF PushTokens
  <2>4. Core(Len(source), emitted, st, tokens, BeginNode(output, kind), not_depth, opt_depth)
    BY <1>1, CoreBegin DEF IInv, Whole, Code, Instr, Exit
  <2>5. output' = BeginNode(output, kind)
    BY <2>1, <2>3
  <2> HIDE DEF st
  <2> QED
    BY <1>1, <1>2, <2>1, <2>4, <2>5 DEF Whole
<1>4. CASE ~Stopped
  <2> DEFINE i == NextToken
             out2 == PushTokens(output, TriviaEvents(c + 1, i - 1))
             ts2 == AdvanceTo(Ahead, i - 1)
  <2>1. tokens' = ts2 /\ output' = BeginNode(out2, kind)
    BY <1>4, Zenon DEF Begin
  <2>2. Core(Len(source), emitted, stack, ts2, out2, not_depth, opt_depth)
    BY CoreSkipTrivia DEF IInv, Whole, Ahead, NextToken
  <2> HIDE DEF ts2, out2
  <2>3. Core(Len(source), emitted, st, ts2, BeginNode(out2, kind), not_depth, opt_depth)
    BY <1>1, <2>2, CoreBegin DEF Code, Instr, Exit
  <2> HIDE DEF st
  <2> QED
    BY <1>1, <1>2, <2>1, <2>3 DEF Whole
<1> QED
  BY <1>3, <1>4

LEMMA EndWhole ==
  ASSUME IInv, End
  PROVE  Whole'
<1> DEFINE st == Push(Frame(Tail(Code), Exit), Rest(stack))
<1>1. /\ stack # <<>> /\ Code # <<>> /\ Instr.op = "end" /\ stack' = Continue(<<>>)
      /\ UNCHANGED <<source, tokens, opt_depth, not_depth, emitted>>
      /\ output' = IF Stopped THEN EndNodeWithError(output) ELSE EndNode(output)
  BY DEF End, Runs
<1>2. stack' = st
  BY <1>1, ContinueNext DEF IInv, Whole, Core
<1>3. /\ Core(Len(source), emitted, st, tokens, EndNode(output), not_depth, opt_depth)
      /\ Core(Len(source), emitted, st, tokens, EndNodeWithError(output), not_depth, opt_depth)
  BY <1>1, CoreEndNode, CoreEndNodeWithError DEF IInv, Whole, Code, Instr, Exit
<1> HIDE DEF st
<1>4. Core(Len(source), emitted, st, tokens, output', not_depth, opt_depth)
  BY <1>1, <1>3
<1> QED
  BY <1>1, <1>2, <1>4 DEF Whole

LEMMA EnterHexWhole ==
  ASSUME IInv, NEW op \in {"enter_hex_pattern_mode", "enter_hex_jump_mode"}, EnterHexMode(op)
  PROVE  Whole'
<1>1. /\ stack # <<>> /\ Code # <<>> /\ Instr.op \notin {"begin", "end"} /\ stack' = Continue(<<>>)
      /\ UNCHANGED <<source, output, opt_depth, not_depth, emitted>>
      /\ tokens' = EnterHexJumpMode(tokens) \/ tokens' = EnterHexPatternMode(tokens)
  BY DEF EnterHexMode, Runs
<1>2. PICK mode \in Modes : tokens' = [tokens EXCEPT !.mode = mode]
  BY <1>1 DEF EnterHexJumpMode, EnterHexPatternMode, Modes
<1>3. Stream(tokens, Len(source))
  BY DEF IInv, Whole, Core
<1>4. tokens' = [mode |-> mode, tokens |-> tokens.tokens, bookmarks |-> tokens.bookmarks,
                 current |-> tokens.current, purged |-> tokens.purged]
  BY <1>2, <1>3 DEF Stream
<1>5. Stream([mode |-> mode, tokens |-> tokens.tokens, bookmarks |-> tokens.bookmarks,
              current |-> tokens.current, purged |-> tokens.purged], Len(source))
  BY <1>3, StreamMake DEF Stream
<1>6. Stream(tokens', Len(source)) /\ tokens'.bookmarks = tokens.bookmarks
      /\ tokens'.current = tokens.current
  BY <1>4, <1>5
<1>7. Core(Len(source), emitted, Continue(<<>>), tokens, output, not_depth, opt_depth)
  BY <1>1, CoreContinue DEF IInv, Whole
<1>8. Core(Len(source), emitted, Continue(<<>>), tokens', output, not_depth, opt_depth)
  BY <1>6, <1>7, CoreStream
<1> QED
  BY <1>1, <1>8 DEF Whole

LEMMA ExpectWhole ==
  ASSUME IInv, Expect
  PROVE  Whole'
<1>1. /\ stack # <<>> /\ Code # <<>> /\ Instr.op \notin {"begin", "end"} /\ stack' = Continue(<<>>)
      /\ UNCHANGED <<source, opt_depth, not_depth, emitted>>
      /\ NextToken <= Len(source) /\ tokens' = AdvanceTo(Ahead, NextToken)
  BY DEF Expect, Runs, NextIn
<1>2. PICK kind : output' = PushTokens(output, Append(TriviaEvents(tokens.current + 1, NextToken - 1),
                                                      TokenEvent(kind, NextToken)))
  BY DEF Expect
<1>3. Core(Len(source), emitted, Continue(<<>>), tokens, output, not_depth, opt_depth)
  BY <1>1, CoreContinue DEF IInv, Whole
<1>4. Core(Len(source), emitted, Continue(<<>>), tokens', output', not_depth, opt_depth)
  BY <1>1, <1>2, <1>3, CoreExpect DEF IInv
<1> QED
  BY <1>1, <1>4 DEF Whole

LEMMA RecoverDiscardsWhole ==
  ASSUME IInv, RecoverDiscards
  PROVE  Whole'
<1>1. /\ stack # <<>> /\ Code # <<>> /\ Instr.op \notin {"begin", "end"} /\ stack' = Continue(<<>>)
      /\ UNCHANGED <<source, opt_depth, not_depth, emitted>>
      /\ NextToken <= Len(source) /\ TokenAt(tokens, NextToken) \notin Ids(Instr.set)
      /\ Discard(Instr.set, <<>>)
  BY DEF RecoverDiscards, Runs, NextIn
<1>2. Core(Len(source), emitted, Continue(<<>>), tokens, output, not_depth, opt_depth)
  BY <1>1, CoreContinue DEF IInv, Whole
<1>3. Core(Len(source), emitted, Continue(<<>>), tokens', output', not_depth, opt_depth)
  BY <1>1, <1>2, EmptyIs, CoreDiscard DEF IInv
<1> QED
  BY <1>1, <1>3 DEF Whole

-----------------------------------------------------------------------------
(* The branches.                                                            *)

LEMMA DepthsAre ==
  ASSUME NEW len, NEW em, NEW st, NEW ts, NEW out, NEW nd, NEW od,
         Core(len, em, st, ts, out, nd, od)
  PROVE  nd \in Nat /\ od \in Nat
<1>1. IsSeq(st) /\ nd = Cardinality(Of(st, {"not"})) /\ od = Cardinality(Of(st, Branches \ {"not"}))
  BY DEF Core, Stack, Marks
<1> QED
  BY <1>1, OfIs

LEMMA BookmarkIs ==
  ASSUME NEW len, NEW em, NEW st, NEW ts, NEW out, NEW nd, NEW od,
         Core(len, em, st, ts, out, nd, od)
  PROVE  Bookmark(ts, out).tokens \in Nat /\ Bookmark(ts, out).output \in Nat
BY SeqIs DEF Core, Stream, Output, Bookmark

\* A closure that may fail: the bookmark, the trivia and its frame.
LEMMA EnterBranch ==
  ASSUME IsSeq(source), NEW em, NEW st, NEW ts, NEW out, NEW nd, NEW od,
         Core(Len(source), em, st, ts, out, nd, od), NEW body \in Bodies,
         NEW exit, exit.do \in Branches, exit.bm = Bookmark(ts, out),
         exit.do = "more" => exit = [do |-> "more", body |-> exit.body, bm |-> exit.bm]
                             /\ exit.body \in Bodies,
         exit.do = "alt" => exit = [do |-> "alt", alts |-> exit.alts, bm |-> exit.bm]
                            /\ exit.alts \in Seq(Bodies),
         MarkAndSkipTrivia(ts, out)
  PROVE  Core(Len(source), em, Push(Frame(body, exit), st), tokens', output',
              IF exit.do = "not" THEN nd + 1 ELSE nd, IF exit.do = "not" THEN od ELSE od + 1)
<1> DEFINE new == Push(Frame(body, exit), st)
           n == IF exit.do = "not" THEN nd + 1 ELSE nd
           o == IF exit.do = "not" THEN od ELSE od + 1
<1>1. GoodExit(exit)
  BY BookmarkIs DEF GoodExit, Branches, Exits
<1>2. Core(Len(source), em, new, MarkTokens(ts), MarkOutput(out), n, o)
  BY <1>1, CoreEnter
<1> HIDE DEF new, n, o
<1>3. Core(Len(source), em, new, tokens', output', n, o)
  BY <1>2, SkipTriviaCore DEF MarkAndSkipTrivia
<1> QED
  BY <1>3 DEF new, n, o

LEMMA EnterIs ==
  ASSUME NEW body, NEW exit
  PROVE  /\ Enter(body, exit) = Push(Frame(body, exit), Continue(<<>>))
         /\ Again(body, exit) = Push(Frame(body, exit), Rest(stack))
BY Zenon DEF Enter, Again, Push, Rest

LEMMA OptWhole ==
  ASSUME IInv, Opt
  PROVE  Whole'
<1> DEFINE body == Instr.body
           exit == [do |-> "opt", bm |-> Here]
           st == Continue(<<>>)
<1>1. /\ stack # <<>> /\ Code # <<>> /\ Instr.op = "opt" /\ MarkAndSkipTrivia(tokens, output)
      /\ opt_depth' = opt_depth + 1 /\ UNCHANGED <<source, not_depth, emitted>>
      /\ stack' = Enter(body, exit)
  BY DEF Opt, Runs
<1>2. body \in Bodies
  BY <1>1, InstrIs DEF IInv, Whole, Core
<1>3. Core(Len(source), emitted, st, tokens, output, not_depth, opt_depth)
  BY <1>1, CoreContinue DEF IInv, Whole
<1>4. exit.do = "opt" /\ exit.do \in Branches /\ exit.bm = Bookmark(tokens, output)
  BY DEF Branches, Here
<1>5. stack' = Push(Frame(body, exit), st)
  BY <1>1, EnterIs
<1> HIDE DEF body, exit, st
<1>6. Core(Len(source), emitted, Push(Frame(body, exit), st), tokens', output',
           IF exit.do = "not" THEN not_depth + 1 ELSE not_depth,
           IF exit.do = "not" THEN opt_depth ELSE opt_depth + 1)
  BY <1>1, <1>2, <1>3, <1>4, EnterBranch DEF IInv
<1>7. Core(Len(source), emitted, Push(Frame(body, exit), st), tokens', output', not_depth,
           opt_depth + 1)
  BY <1>4, <1>6
<1> QED
  BY <1>1, <1>5, <1>7 DEF Whole

LEMMA NotWhole ==
  ASSUME IInv, Not
  PROVE  Whole'
<1> DEFINE body == Instr.body
           exit == [do |-> "not", bm |-> Here]
           st == Continue(<<>>)
<1>1. /\ stack # <<>> /\ Code # <<>> /\ Instr.op = "not" /\ MarkAndSkipTrivia(tokens, output)
      /\ not_depth' = not_depth + 1 /\ UNCHANGED <<source, opt_depth, emitted>>
      /\ stack' = Enter(body, exit)
  BY DEF Not, Runs
<1>2. body \in Bodies
  BY <1>1, InstrIs DEF IInv, Whole, Core
<1>3. Core(Len(source), emitted, st, tokens, output, not_depth, opt_depth)
  BY <1>1, CoreContinue DEF IInv, Whole
<1>4. exit.do = "not" /\ exit.do \in Branches /\ exit.bm = Bookmark(tokens, output)
  BY DEF Branches, Here
<1>5. stack' = Push(Frame(body, exit), st)
  BY <1>1, EnterIs
<1> HIDE DEF body, exit, st
<1>6. Core(Len(source), emitted, Push(Frame(body, exit), st), tokens', output',
           IF exit.do = "not" THEN not_depth + 1 ELSE not_depth,
           IF exit.do = "not" THEN opt_depth ELSE opt_depth + 1)
  BY <1>1, <1>2, <1>3, <1>4, EnterBranch DEF IInv
<1>7. Core(Len(source), emitted, Push(Frame(body, exit), st), tokens', output', not_depth + 1,
           opt_depth)
  BY <1>4, <1>6
<1> QED
  BY <1>1, <1>5, <1>7 DEF Whole

LEMMA AltWhole ==
  ASSUME IInv, Alt
  PROVE  Whole'
<1> DEFINE body == Instr.alts[1]
           alts == Tail(Instr.alts)
           exit == [do |-> "alt", alts |-> alts, bm |-> Here]
           st == Continue(<<>>)
<1>1. /\ stack # <<>> /\ Code # <<>> /\ Instr.op = "alt" /\ MarkAndSkipTrivia(tokens, output)
      /\ opt_depth' = opt_depth + 1 /\ UNCHANGED <<source, not_depth, emitted>>
      /\ stack' = Enter(body, exit)
  BY DEF Alt, Runs
<1>2. body \in Bodies /\ alts \in Seq(Bodies)
  BY <1>1, InstrIs DEF IInv, Whole, Core
<1> HIDE DEF alts
<1>3. Core(Len(source), emitted, st, tokens, output, not_depth, opt_depth)
  BY <1>1, CoreContinue DEF IInv, Whole
<1>4. /\ exit.do = "alt" /\ exit.do \in Branches /\ exit.bm = Bookmark(tokens, output)
      /\ exit = [do |-> "alt", alts |-> exit.alts, bm |-> exit.bm] /\ exit.alts \in Seq(Bodies)
  BY <1>2 DEF Branches, Here
<1>5. stack' = Push(Frame(body, exit), st)
  BY <1>1, EnterIs
<1> HIDE DEF body, exit, st
<1>6. Core(Len(source), emitted, Push(Frame(body, exit), st), tokens', output',
           IF exit.do = "not" THEN not_depth + 1 ELSE not_depth,
           IF exit.do = "not" THEN opt_depth ELSE opt_depth + 1)
  BY <1>1, <1>2, <1>3, <1>4, EnterBranch DEF IInv
<1>7. Core(Len(source), emitted, Push(Frame(body, exit), st), tokens', output', not_depth,
           opt_depth + 1)
  BY <1>4, <1>6
<1> QED
  BY <1>1, <1>5, <1>7 DEF Whole

\* The ends of the branches.
LEMMA LeaveBranch ==
  ASSUME IInv, stack # <<>>, Code = <<>>, Exit.do \in Branches, NEW restored \in BOOLEAN,
         tokens' = Leave(Exit.bm, restored).tokens, output' = Leave(Exit.bm, restored).output,
         stack' = Tail(stack), UNCHANGED <<source, emitted>>,
         not_depth' = IF Exit.do = "not" THEN not_depth - 1 ELSE not_depth,
         opt_depth' = IF Exit.do = "not" THEN opt_depth ELSE opt_depth - 1
  PROVE  Whole'
<1> DEFINE p == Leave(Exit.bm, restored)
<1>1. Core(Len(source), emitted, Rest(stack), p.tokens, p.output, not_depth', opt_depth')
  BY CoreLeave DEF IInv, Whole
<1> HIDE DEF p
<1>2. tokens' = p.tokens /\ output' = p.output /\ stack' = Rest(stack)
  BY DEF p, Rest
<1> QED
  BY <1>1, <1>2 DEF Whole

LEMMA LeavingWhole ==
  ASSUME IInv, OptDone \/ NotDone \/ AltDone
  PROVE  Whole'
<1>1. CASE OptDone
  <2>1. Exit.do = "opt" /\ Exit.do \in Branches /\ (state = "Failure") \in BOOLEAN
    BY <1>1 DEF OptDone, Done, Exit, Branches
  <2> QED
    BY <1>1, <2>1, LeaveBranch DEF OptDone, Done
<1>2. CASE NotDone
  <2>1. Exit.do = "not" /\ Exit.do \in Branches /\ TRUE \in BOOLEAN
    BY <1>2 DEF NotDone, Done, Exit, Branches
  <2> QED
    BY <1>2, <2>1, LeaveBranch DEF NotDone, Done
<1>3. CASE AltDone
  <2>1. Exit.do = "alt" /\ Exit.do \in Branches /\ (state = "Failure") \in BOOLEAN
    BY <1>3 DEF AltDone, Done, Exit, Branches
  <2> QED
    BY <1>3, <2>1, LeaveBranch DEF AltDone, Done
<1> QED
  BY <1>1, <1>2, <1>3

LEMMA RepeatWhole ==
  ASSUME IsSeq(source), NEW below, NEW n \in Nat, NEW body \in Bodies,
         Core(Len(source), emitted, below, tokens, output, not_depth, opt_depth),
         Repeat(n, body, below), UNCHANGED <<source, not_depth, emitted>>
  PROVE  Whole'
<1>1. CASE n > 0
  <2> DEFINE exit == [do |-> "first", n |-> n - 1, body |-> body]
             st == Push(Frame(body, exit), below)
  <2>1. SkipTrivia(tokens, output) /\ stack' = st /\ opt_depth' = opt_depth
    BY <1>1, Zenon DEF Repeat, Push
  <2>2. GoodExit(exit) /\ exit.do \notin Branches /\ exit.do # "item"
    <3>1. n - 1 \in Nat
      BY <1>1
    <3> QED
      BY <3>1 DEF GoodExit, Exits, Branches
  <2> HIDE DEF exit
  <2>3. Core(Len(source), emitted, st, tokens, output, not_depth, opt_depth)
    BY <2>2, CoreEnterPlain
  <2> HIDE DEF st
  <2>4. Core(Len(source), emitted, st, tokens', output', not_depth, opt_depth)
    BY <2>1, <2>3, SkipTriviaCore
  <2> QED
    BY <2>1, <2>4 DEF Whole
<1>2. CASE ~(n > 0)
  <2> DEFINE exit == [do |-> "more", body |-> body, bm |-> Here]
             st == Push(Frame(body, exit), below)
  <2>1. MarkAndSkipTrivia(tokens, output) /\ stack' = st /\ opt_depth' = opt_depth + 1
    BY <1>2, Zenon DEF Repeat, Push
  <2>2. /\ exit.do = "more" /\ exit.do \in Branches /\ exit.bm = Bookmark(tokens, output)
        /\ exit = [do |-> "more", body |-> exit.body, bm |-> exit.bm] /\ exit.body \in Bodies
    BY DEF Branches, Here
  <2> HIDE DEF exit
  <2>3. Core(Len(source), emitted, st, tokens', output',
             IF exit.do = "not" THEN not_depth + 1 ELSE not_depth,
             IF exit.do = "not" THEN opt_depth ELSE opt_depth + 1)
    BY <2>1, <2>2, EnterBranch
  <2> HIDE DEF st
  <2>4. Core(Len(source), emitted, st, tokens', output', not_depth, opt_depth + 1)
    BY <2>2, <2>3
  <2> QED
    BY <2>1, <2>4 DEF Whole
<1> QED
  BY <1>1, <1>2

LEMMA NOrMoreWhole ==
  ASSUME IInv, NOrMore
  PROVE  Whole'
<1> DEFINE n == Instr.n
           body == Instr.body
           st == Continue(<<>>)
<1>1. /\ stack # <<>> /\ Code # <<>> /\ Instr.op = "n_or_more" /\ Repeat(n, body, st)
      /\ UNCHANGED <<source, not_depth, emitted>>
  BY DEF NOrMore, Runs
<1>2. body \in Bodies /\ n \in Nat
  BY <1>1, InstrIs DEF IInv, Whole, Core, GoodInstr
<1>3. Core(Len(source), emitted, st, tokens, output, not_depth, opt_depth)
  BY <1>1, CoreContinue DEF IInv, Whole
<1> HIDE DEF n, body, st
<1> QED
  BY <1>1, <1>2, <1>3, RepeatWhole DEF IInv

\* The frame that is done.
LEMMA ExitIs ==
  ASSUME IInv, stack # <<>>
  PROVE  GoodExit(Exit) /\ GoodFrame(stack[1])
BY StackPop DEF IInv, Whole, Core, GoodFrame, Exit

LEMMA FirstDoneWhole ==
  ASSUME IInv, FirstDone
  PROVE  Whole'
<1>1. /\ stack # <<>> /\ Code = <<>> /\ Exit.do = "first"
      /\ UNCHANGED <<source, not_depth, emitted>>
  BY DEF FirstDone, Done, Exit
<1>2. Core(Len(source), emitted, Rest(stack), tokens, output, not_depth, opt_depth)
  BY <1>1, CorePop DEF IInv, Whole, Code, Exit, Branches
<1>3. Exit.n \in Nat /\ Exit.body \in Bodies
  BY <1>1, ExitIs DEF GoodExit
<1>4. CASE Stopped
  <2>1. stack' = Rest(stack) /\ UNCHANGED <<tokens, output, opt_depth>>
    BY <1>4 DEF FirstDone, Rest
  <2> QED
    BY <1>1, <1>2, <2>1 DEF Whole
<1>5. CASE ~Stopped
  <2>1. Repeat(Exit.n, Exit.body, Rest(stack))
    BY <1>5 DEF FirstDone, Rest
  <2> QED
    BY <1>1, <1>2, <1>3, <2>1, RepeatWhole DEF IInv
<1> QED
  BY <1>4, <1>5

LEMMA MoreDoneWhole ==
  ASSUME IInv, MoreDone
  PROVE  Whole'
<1> DEFINE p == Leave(Exit.bm, Stopped)
<1>1. /\ stack # <<>> /\ Code = <<>> /\ Exit.do = "more" /\ Exit.do \in Branches
      /\ UNCHANGED <<source, not_depth, emitted>> /\ Stopped \in BOOLEAN
  BY DEF MoreDone, Done, Exit, Branches, Stopped
<1>2. CASE Stopped
  <2>1. /\ tokens' = Leave(Exit.bm, Stopped).tokens /\ output' = Leave(Exit.bm, Stopped).output
        /\ stack' = Tail(stack) /\ opt_depth' = opt_depth - 1
    BY <1>2 DEF MoreDone
  <2> QED
    BY <1>1, <2>1, LeaveBranch
<1>3. CASE ~Stopped
  <2> DEFINE bm == Bookmark(p.tokens, p.output)
             exit == [Exit EXCEPT !.bm = bm]
             body == Exit.body
             st == Rest(stack)
  <2>1. /\ MarkAndSkipTrivia(p.tokens, p.output) /\ stack' = Again(body, exit)
        /\ opt_depth' = opt_depth
    BY <1>3 DEF MoreDone
  <2>2. Core(Len(source), emitted, st, p.tokens, p.output,
             IF Exit.do = "not" THEN not_depth - 1 ELSE not_depth,
             IF Exit.do = "not" THEN opt_depth ELSE opt_depth - 1)
    BY <1>1, CoreLeave DEF IInv, Whole
  <2>3. Core(Len(source), emitted, st, p.tokens, p.output, not_depth, opt_depth - 1)
    BY <1>1, <2>2
  <2>4. Exit = [do |-> "more", body |-> Exit.body, bm |-> Exit.bm] /\ body \in Bodies
    BY <1>1, ExitIs DEF GoodExit
  <2> HIDE DEF p, bm
  <2>5. exit = [do |-> "more", body |-> body, bm |-> bm]
    <3> HIDE DEF body
    <3>1. Exit = [do |-> "more", body |-> body, bm |-> Exit.bm]
      BY <2>4 DEF body
    <3> QED
      BY <3>1
  <2> HIDE DEF body, exit
  <2>6. /\ exit.do = "more" /\ exit.do \in Branches /\ exit.bm = Bookmark(p.tokens, p.output)
        /\ exit = [do |-> "more", body |-> exit.body, bm |-> exit.bm] /\ exit.body \in Bodies
    BY <2>4, <2>5 DEF Branches, bm
  <2>7. stack' = Push(Frame(body, exit), st)
    BY <2>1, EnterIs
  <2> HIDE DEF st
  <2>8. Core(Len(source), emitted, Push(Frame(body, exit), st), tokens', output',
             IF exit.do = "not" THEN not_depth + 1 ELSE not_depth,
             IF exit.do = "not" THEN opt_depth - 1 ELSE opt_depth - 1 + 1)
    BY <2>1, <2>3, <2>4, <2>6, EnterBranch DEF IInv
  <2>9. opt_depth - 1 + 1 = opt_depth
    BY DepthsAre DEF IInv, Whole
  <2>10. Core(Len(source), emitted, Push(Frame(body, exit), st), tokens', output', not_depth,
              opt_depth)
    BY <2>6, <2>8, <2>9
  <2> QED
    BY <1>1, <2>1, <2>7, <2>10 DEF Whole
<1> QED
  BY <1>2, <1>3

LEMMA AltNextWhole ==
  ASSUME IInv, AltNext
  PROVE  Whole'
<1> DEFINE p == RestoreBookmark(Exit.bm)
           alts == Exit.alts
           body == alts[1]
           exit == [Exit EXCEPT !.alts = Tail(@)]
           f == Frame(body, exit)
<1>1. /\ stack # <<>> /\ Code = <<>> /\ Exit.do = "alt" /\ Exit.do \in Branches /\ alts # <<>>
      /\ UNCHANGED <<source, not_depth, opt_depth, emitted>>
      /\ SkipTrivia(p.tokens, p.output) /\ stack' = Again(body, exit)
  BY DEF AltNext, Done, Exit, Branches
<1>2. Core(Len(source), emitted, stack, RestoreTokens(tokens, Exit.bm.tokens),
           Truncate(output, Exit.bm.output), not_depth, opt_depth)
  BY <1>1, CoreRestore DEF IInv, Whole, Code, Exit
<1>3. Core(Len(source), emitted, stack, p.tokens, p.output, not_depth, opt_depth)
  BY <1>2 DEF RestoreBookmark
<1>4. /\ Exit = [do |-> "alt", alts |-> alts, bm |-> Exit.bm] /\ alts \in Seq(Bodies)
      /\ Exit.bm.tokens \in Nat /\ Exit.bm.output \in Nat
  BY <1>1, ExitIs DEF GoodExit
<1> HIDE DEF p
<1>5. exit = [do |-> "alt", alts |-> Tail(alts), bm |-> Exit.bm]
  <2> DEFINE x == Exit
  <2>1. x = [do |-> "alt", alts |-> alts, bm |-> x.bm]
    BY <1>4
  <2> DEFINE a == Tail(alts)
  <2>2. exit = [x EXCEPT !.alts = a]
    BY Zenon
  <2> HIDE DEF alts, exit, x, a
  <2>3. exit = [do |-> "alt", alts |-> a, bm |-> x.bm]
    BY <2>1, <2>2
  <2> QED
    BY <2>3 DEF a, x
<1>6. body \in Bodies /\ Tail(alts) \in Seq(Bodies)
  <2> HIDE DEF alts
  <2> QED
    BY <1>1, <1>4
<1> HIDE DEF exit, body, alts
<1>7. /\ exit.do = "alt" /\ exit.bm = Exit.bm /\ exit.alts = Tail(alts)
      /\ exit = [do |-> "alt", alts |-> exit.alts, bm |-> exit.bm]
  BY <1>5
<1>8. GoodExit(exit)
  BY <1>4, <1>6, <1>7 DEF GoodExit, Exits, Branches
<1>9. GoodCode(body) /\ Closes(body, 0)
  BY <1>6, BodyCloses
<1>10. f.code = body /\ f.exit = exit /\ GoodFrame(f)
  BY <1>8, <1>9 DEF Frame, GoodFrame
<1> HIDE DEF f
<1>11. \A n : Closes(Code, n) => Closes(f.code, n)
  BY <1>1, <1>9, <1>10, ClosesEmpty
<1>12. Core(Len(source), emitted, Push(f, Rest(stack)), p.tokens, p.output, not_depth, opt_depth)
  BY <1>1, <1>3, <1>7, <1>10, <1>11, CoreRetop DEF Code, Exit
<1>13. Core(Len(source), emitted, Push(f, Rest(stack)), tokens', output', not_depth, opt_depth)
  BY <1>1, <1>12, SkipTriviaCore DEF IInv
<1>14. stack' = Push(f, Rest(stack))
  BY <1>1, EnterIs DEF f
<1> QED
  BY <1>1, <1>13, <1>14 DEF Whole

LEMMA CachedWhole ==
  ASSUME IInv, Cached
  PROVE  Whole'
<1> DEFINE body == Instr.body
           exit == [do |-> "cached", kind |-> Instr.kind, start |-> tokens.current]
           st == Continue(<<>>)
<1>1. /\ stack # <<>> /\ Code # <<>> /\ Instr.op = "cached"
      /\ UNCHANGED <<source, tokens, output, opt_depth, not_depth, emitted>>
      /\ stack' = st \/ stack' = Enter(body, exit)
  BY DEF Cached, Runs
<1>2. body \in Bodies
  BY <1>1, InstrIs DEF IInv, Whole, Core
<1>3. Core(Len(source), emitted, st, tokens, output, not_depth, opt_depth)
  BY <1>1, CoreContinue DEF IInv, Whole
<1>4. GoodExit(exit) /\ exit.do \notin Branches /\ exit.do # "item"
  BY DEF GoodExit, Exits, Branches
<1>5. Enter(body, exit) = Push(Frame(body, exit), st)
  BY EnterIs
<1> HIDE DEF body, exit, st
<1>6. Core(Len(source), emitted, Push(Frame(body, exit), st), tokens, output, not_depth, opt_depth)
  BY <1>2, <1>3, <1>4, CoreEnterPlain
<1>7. Core(Len(source), emitted, stack', tokens, output, not_depth, opt_depth)
  BY <1>1, <1>3, <1>5, <1>6
<1> QED
  BY <1>1, <1>7 DEF Whole

LEMMA CachedDoneWhole ==
  ASSUME IInv, CachedDone
  PROVE  Whole'
<1>1. /\ stack # <<>> /\ Code = <<>> /\ Exit.do = "cached" /\ stack' = Rest(stack)
      /\ UNCHANGED <<source, tokens, output, opt_depth, not_depth, emitted>>
  BY DEF CachedDone, Done, Exit, Rest
<1>2. Core(Len(source), emitted, Rest(stack), tokens, output, not_depth, opt_depth)
  BY <1>1, CorePop DEF IInv, Whole, Code, Exit, Branches
<1> QED
  BY <1>1, <1>2 DEF Whole

-----------------------------------------------------------------------------
(* The iterator.                                                            *)

\* Between two items no node and no branch is open.
LEMMA CoreIdle ==
  ASSUME NEW len, NEW em, NEW ts, NEW out, NEW nd, NEW od,
         Core(len, em, <<>>, ts, out, nd, od),
         NEW em2, IsSeq(em2), NEW out2, Output(out2), out2.open_begins = out.open_begins,
         out2.num_bookmarks = out.num_bookmarks, Ledger(Cat(em2, out2.events), ts.current)
  PROVE  Core(len, em2, <<>>, ts, out2, nd, od) /\ out.open_begins = <<>>
<1> DEFINE ob == out.open_begins
<1>1. PICK o : Opens(<<>>, ob, o)
  BY DEF Core
<1>2. IsSeq(ob) /\ Len(ob) = 0
  <2>1. IsSeq(ob) /\ Len(<<>>) = 0 /\ 0 + 1 = 1
    BY EmptyIs DEF Core, Begun
  <2> QED
    BY <1>1, <2>1 DEF Opens
<1>3. ob = <<>>
  BY <1>2, SeqIs
<1>4. 1..Len(ob) = {}
  BY <1>2
<1>5. Begun(out2.events, ob)
  BY <1>2, <1>4 DEF Begun
<1>6. Of(<<>>, Branches) = {}
  <2>1. 1..Len(<<>>) = {}
    BY EmptyIs
  <2> QED
    BY <2>1 DEF Of
<1>7. Points(<<>>, em2, out2.events)
  BY <1>6 DEF Points
<1> QED
  BY <1>1, <1>3, <1>5, <1>7 DEF Core

\* One more event that is not a token.
LEMMA LedgerMore ==
  ASSUME NEW em, IsSeq(em), NEW x, x.type # "Token", NEW c, Ledger(Cat(em, <<>>), c)
  PROVE  Ledger(Cat(Append(em, x), <<>>), c) /\ IsSeq(Append(em, x))
<1> DEFINE e == Cat(em, <<>>)
           em2 == Append(em, x)
           f == Cat(em2, <<>>)
<1>1. IsSeq(em2) /\ Len(em2) = Len(em) + 1 /\ (\A i \in 1..Len(em) : em2[i] = em[i])
      /\ em2[Len(em) + 1] = x
  BY AppendIs
<1>2. e = em /\ f = em2
  BY <1>1, ConcatEmpty DEF Cat
<1> HIDE DEF e, f, em2
<1>3. Agree(em, em2, Len(em))
  BY <1>1 DEF Agree, Alike
<1>4. \A j \in 1..1 : em2[Len(em) + j].type # "Token"
  BY <1>1
<1>5. Ledger(em, c)
  BY <1>2 DEF e
<1>6. Ledger(em2, c)
  BY <1>1, <1>3, <1>4, <1>5, LedgerOthers
<1> QED
  BY <1>1, <1>2, <1>6 DEF f, em2

\* The first event is handed out.
LEMMA LedgerPop ==
  ASSUME NEW em, IsSeq(em), NEW e, IsSeq(e), e # <<>>, NEW c, Ledger(Cat(em, e), c)
  PROVE  Ledger(Cat(Append(em, Head(e)), Tail(e)), c) /\ IsSeq(Append(em, Head(e))) /\ IsSeq(Tail(e))
<1> DEFINE x == Head(e)
           t == Tail(e)
           a == Append(em, x)
           f == Cat(em, e)
           g == Cat(a, t)
<1>1. /\ IsSeq(t) /\ Len(t) = Len(e) - 1 /\ Len(e) # 0
      /\ (\A i \in 1..(Len(e) - 1) : t[i] = e[i + 1]) /\ x = e[1]
  BY TailIs
<1>2. /\ IsSeq(a) /\ Len(a) = Len(em) + 1 /\ (\A i \in 1..Len(em) : a[i] = em[i])
      /\ a[Len(em) + 1] = x
  BY AppendIs
<1>3. Len(em) \in Nat /\ Len(e) \in Nat
  BY SeqIs
<1> HIDE DEF x, t, a
<1>4. /\ IsSeq(f) /\ Len(f) = Len(em) + Len(e) /\ (\A i \in 1..Len(em) : f[i] = em[i])
      /\ (\A i \in (Len(em) + 1)..(Len(em) + Len(e)) : f[i] = e[i - Len(em)])
  BY CatIs
<1>5. /\ IsSeq(g) /\ Len(g) = Len(a) + Len(t) /\ (\A i \in 1..Len(a) : g[i] = a[i])
      /\ (\A i \in (Len(a) + 1)..(Len(a) + Len(t)) : g[i] = t[i - Len(a)])
  BY <1>1, <1>2, CatIs, ZenonT(40)
<1> HIDE DEF f, g
<1>6. Len(g) = Len(f) /\ Len(f) \in Nat /\ Len(g) <= Len(f)
  BY <1>1, <1>2, <1>3, <1>4, <1>5
<1>7. ASSUME NEW i \in 1..Len(g) PROVE f[i] = g[i]
  <2>1. CASE i \in 1..Len(em)
    <3>1. i \in 1..Len(a)
      BY <1>2, <1>3, <2>1
    <3> QED
      BY <1>2, <1>4, <1>5, <2>1, <3>1
  <2>2. CASE i = Len(em) + 1
    <3>1. i \in 1..Len(a) /\ g[i] = x
      BY <1>2, <1>3, <1>5, <2>2
    <3>2. i \in (Len(em) + 1)..(Len(em) + Len(e)) /\ i - Len(em) = 1
      BY <1>1, <1>3, <2>2
    <3> QED
      BY <1>1, <1>4, <3>1, <3>2
  <2>3. CASE i > Len(em) + 1
    <3> DEFINE j == i - Len(a)
    <3>1. /\ i \in (Len(a) + 1)..(Len(a) + Len(t)) /\ j \in 1..(Len(e) - 1)
          /\ i \in (Len(em) + 1)..(Len(em) + Len(e)) /\ i - Len(em) = j + 1
      BY <1>1, <1>2, <1>3, <1>5, <2>3
    <3>2. g[i] = t[j] /\ f[i] = e[i - Len(em)]
      BY <1>4, <1>5, <3>1
    <3> HIDE DEF j
    <3>3. t[j] = e[j + 1]
      BY <1>1, <3>1
    <3> QED
      BY <3>1, <3>2, <3>3
  <2> QED
    BY <1>3, <1>6, <2>1, <2>2, <2>3
<1>8. Agree(f, g, Len(g))
  BY <1>7 DEF Agree, Alike
<1>9. Ledger(f, c)
  BY DEF f
<1>10. Ledger(g, Count(Tok(f), Len(g) + 1))
  BY <1>4, <1>5, <1>6, <1>8, <1>9, LedgerCut
<1>11. Count(Tok(f), Len(g) + 1) = c
  BY <1>6, <1>9 DEF Ledger
<1> QED
  BY <1>1, <1>2, <1>10, <1>11 DEF g, a, t, x

LEMMA CorePopEvent ==
  ASSUME NEW len, NEW em, NEW ts, NEW out, NEW nd, NEW od,
         Core(len, em, <<>>, ts, out, nd, od), out.events # <<>>
  PROVE  Core(len, Append(em, Head(out.events)), <<>>, ts, [out EXCEPT !.events = Tail(@)], nd, od)
<1> DEFINE e == out.events
           em2 == Append(em, Head(e))
           e2 == Tail(e)
           out2 == [out EXCEPT !.events = Tail(@)]
<1>1. IsSeq(em) /\ IsSeq(e) /\ Ledger(Cat(em, e), ts.current) /\ Output(out)
  BY DEF Core, Output
<1>2. IsSeq(em2) /\ IsSeq(e2) /\ Ledger(Cat(em2, e2), ts.current)
  BY <1>1, LedgerPop
<1>3. out2 = [out EXCEPT !.events = e2]
  BY Zenon
<1> HIDE DEF out2, em2, e2
<1>4. out2 = [events |-> e2, open_begins |-> out.open_begins,
              num_bookmarks |-> out.num_bookmarks, last_token_end |-> out.last_token_end]
  BY <1>1, <1>3 DEF Output
<1>5. /\ Output(out2) /\ out2.events = e2 /\ out2.open_begins = out.open_begins
      /\ out2.num_bookmarks = out.num_bookmarks
  BY <1>2, <1>4 DEF Output
<1>6. Ledger(Cat(em2, out2.events), ts.current)
  BY <1>2, <1>5
<1>7. Core(len, em2, <<>>, ts, out2, nd, od)
  BY <1>2, <1>5, <1>6, CoreIdle
<1> QED
  BY <1>7 DEF em2, out2

LEMMA CoreLastEvent ==
  ASSUME NEW len, NEW em, NEW ts, NEW out, NEW nd, NEW od,
         Core(len, em, <<>>, ts, out, nd, od), out.events = <<>>, NEW x, x.type # "Token"
  PROVE  Core(len, Append(em, x), <<>>, ts, out, nd, od)
<1> DEFINE em2 == Append(em, x)
<1>1. IsSeq(em) /\ Ledger(Cat(em, <<>>), ts.current) /\ Output(out)
  BY DEF Core, Output
<1>2. IsSeq(em2) /\ Ledger(Cat(em2, <<>>), ts.current)
  BY <1>1, LedgerMore
<1> HIDE DEF em2
<1>3. Core(len, em2, <<>>, ts, out, nd, od)
  BY <1>1, <1>2, CoreIdle
<1> QED
  BY <1>3 DEF em2

LEMMA PopWhole ==
  ASSUME IInv, Pop
  PROVE  Whole'
<1>1. /\ stack = <<>> /\ output.events # <<>> /\ emitted' = Append(emitted, Head(output.events))
      /\ output' = [output EXCEPT !.events = Tail(@)]
      /\ UNCHANGED <<source, tokens, opt_depth, not_depth, stack>>
  BY DEF Pop, Idle
<1>2. Core(Len(source), emitted, <<>>, tokens, output, not_depth, opt_depth)
  BY <1>1 DEF IInv, Whole
<1>3. Core(Len(source), emitted', <<>>, tokens, output', not_depth, opt_depth)
  BY <1>1, <1>2, CorePopEvent
<1> QED
  BY <1>1, <1>3 DEF Whole

LEMMA FinishWhole ==
  ASSUME IInv, Finish
  PROVE  Whole'
<1> DEFINE x == EndEvent("SOURCE_FILE", 0, Len(source))
<1>1. /\ stack = <<>> /\ output.events = <<>> /\ emitted' = Append(emitted, x)
      /\ UNCHANGED <<source, tokens, output, opt_depth, not_depth, stack>>
  BY DEF Finish, Idle
<1>2. x.type # "Token"
  BY DEF EndEvent
<1> HIDE DEF x
<1>3. Core(Len(source), emitted, <<>>, tokens, output, not_depth, opt_depth)
  BY <1>1 DEF IInv, Whole
<1>4. Core(Len(source), emitted', <<>>, tokens, output, not_depth, opt_depth)
  BY <1>1, <1>2, <1>3, CoreLastEvent
<1> QED
  BY <1>1, <1>4 DEF Whole

LEMMA StartWhole ==
  ASSUME IInv, Start
  PROVE  Whole'
<1> DEFINE x == BeginEvent("SOURCE_FILE", 0, Len(source))
<1>1. /\ stack = <<>> /\ emitted = <<>> /\ output = NewOutput /\ emitted' = <<x>>
      /\ UNCHANGED <<source, tokens, output, opt_depth, not_depth, stack>>
  BY DEF Start, IInv, Control
<1>2. x.type # "Token" /\ output.events = <<>>
  BY <1>1 DEF BeginEvent, NewOutput
<1> HIDE DEF x
<1>3. Core(Len(source), <<>>, <<>>, tokens, output, not_depth, opt_depth)
  BY <1>1 DEF IInv, Whole
<1>4. Core(Len(source), Append(<<>>, x), <<>>, tokens, output, not_depth, opt_depth)
  BY <1>2, <1>3, CoreLastEvent
<1>5. Append(<<>>, x) = <<x>>
  OBVIOUS
<1>6. Core(Len(source), <<x>>, <<>>, tokens, output, not_depth, opt_depth)
  BY <1>4, <1>5
<1> QED
  BY <1>1, <1>6 DEF Whole

\* The frame of an item, with the rule to call or nothing left to do.
LEMMA CoreItem ==
  ASSUME NEW len, NEW em, NEW ts, NEW out, NEW nd, NEW od,
         Core(len, em, <<>>, ts, out, nd, od),
         NEW code, code = <<>> \/ \E name \in DOMAIN Rules : code = <<call(name)>>
  PROVE  Core(len, em, <<Frame(code, ItemExit)>>, ts, out, nd, od)
<1> DEFINE f == Frame(code, ItemExit)
<1>1. GoodCode(code) /\ Closes(code, 0)
  <2>1. CASE code = <<>>
    BY <2>1, EmptyCloses
  <2>2. ASSUME NEW name \in DOMAIN Rules, code = <<call(name)>> PROVE GoodCode(code) /\ Closes(code, 0)
    <3> DEFINE x == call(name)
    <3>1. x.op = "call" /\ x.name = name
      BY DEF call
    <3>2. ClosuresOf(x) = {}
      BY <3>1 DEF ClosuresOf
    <3>3. GoodInstr(x)
      BY <3>1, <3>2 DEF GoodInstr
    <3> HIDE DEF x
    <3>4. IsSeq(code) /\ Len(code) = 1 /\ code[1] = x
      BY <2>2, OneIs DEF x
    <3>5. \A i \in 1..1 : i = 1
      OBVIOUS
    <3>6. GoodCode(code)
      BY <3>3, <3>4, <3>5 DEF GoodCode
    <3> DEFINE d == [i \in 1..2 |-> 0]
    <3>7. Depths(code, d) /\ d[1] = 0
      <4>1. After(code[1], 0) = 0
        BY <3>1, <3>4 DEF After
      <4>2. (\A i \in 1..2 : d[i] = 0 /\ d[i] \in Nat) /\ 1 + 1 = 2 /\ 1 \in 1..2 /\ 2 \in 1..2
        OBVIOUS
      <4> HIDE DEF d
      <4> QED
        BY <3>4, <3>5, <4>1, <4>2 DEF Depths
    <3> HIDE DEF d
    <3> QED
      BY <3>6, <3>7 DEF Closes
  <2> QED
    BY <2>1, <2>2
<1>2. f.code = code /\ f.exit = ItemExit /\ f.exit.do = "item" /\ GoodFrame(f)
  BY <1>1 DEF Frame, GoodFrame, GoodExit, ItemExit, Exits, Branches
<1> HIDE DEF f
<1>3. f.exit.do \notin Branches
  BY <1>2 DEF Branches
<1>4. Core(len, em, Push(f, <<>>), ts, out, nd, od)
  BY <1>1, <1>2, <1>3, CorePush
<1>5. Push(f, <<>>) = <<f>>
  BY OneIs, ConcatEmpty DEF Push
<1> QED
  BY <1>4, <1>5 DEF f

LEMMA ParseItemWhole ==
  ASSUME IInv, ParseItem
  PROVE  Whole'
<1> DEFINE name == ItemRule(TokenAt(tokens, NextToken))
           code == <<call(name)>>
           st == <<Frame(code, ItemExit)>>
<1>1. /\ stack = <<>> /\ name # "none" /\ SkipTrivia(tokens, output) /\ stack' = st
      /\ UNCHANGED <<source, opt_depth, not_depth, emitted>>
  BY DEF ParseItem, Idle
<1>2. name \in DOMAIN Rules
  <2>1. name \in {"import_stmt", "include_stmt", "rule_decl"}
    BY <1>1 DEF ItemRule
  <2> QED
    BY <2>1, ParserAssumption
<1> HIDE DEF name
<1>3. Core(Len(source), emitted, <<>>, tokens, output, not_depth, opt_depth)
  BY <1>1 DEF IInv, Whole
<1>4. Core(Len(source), emitted, st, tokens, output, not_depth, opt_depth)
  BY <1>2, <1>3, CoreItem
<1> HIDE DEF st
<1>5. Core(Len(source), emitted, st, tokens', output', not_depth, opt_depth)
  BY <1>1, <1>4, SkipTriviaCore DEF IInv
<1> QED
  BY <1>1, <1>5 DEF Whole

LEMMA ParseTriviaWhole ==
  ASSUME IInv, ParseTrivia
  PROVE  Whole'
<1> DEFINE st == <<Frame(<<>>, ItemExit)>>
<1>1. /\ stack = <<>> /\ SkipTrivia(tokens, output) /\ stack' = st
      /\ UNCHANGED <<source, opt_depth, not_depth, emitted>>
  BY DEF ParseTrivia, Idle
<1>2. Core(Len(source), emitted, <<>>, tokens, output, not_depth, opt_depth)
  BY <1>1 DEF IInv, Whole
<1>3. Core(Len(source), emitted, st, tokens, output, not_depth, opt_depth)
  BY <1>2, CoreItem
<1> HIDE DEF st
<1>4. Core(Len(source), emitted, st, tokens', output', not_depth, opt_depth)
  BY <1>1, <1>3, SkipTriviaCore DEF IInv
<1> QED
  BY <1>1, <1>4 DEF Whole

LEMMA ParseJunkWhole ==
  ASSUME IInv, ParseJunk
  PROVE  Whole'
<1> DEFINE st == <<Frame(<<>>, ItemExit)>>
           set == {"GLOBAL_KW", "PRIVATE_KW", "RULE_KW"}
<1>1. /\ stack = <<>> /\ stack' = st
      /\ UNCHANGED <<source, opt_depth, not_depth, emitted>>
      /\ NextToken <= Len(source) /\ ItemRule(TokenAt(tokens, NextToken)) = "none"
      /\ Discard(set, <<NextToken>>)
  BY DEF ParseJunk, Idle
<1>2. TokenAt(tokens, NextToken) \notin Ids(set)
  <2>1. Ids(set) = set
    BY DEF Ids, TokenId
  <2>2. TokenAt(tokens, NextToken) \notin set
    BY <1>1 DEF ItemRule
  <2> QED
    BY <2>1, <2>2
<1>3. IsSeq(<<NextToken>>)
  BY OneIs
<1>4. Core(Len(source), emitted, <<>>, tokens, output, not_depth, opt_depth)
  BY <1>1 DEF IInv, Whole
<1>5. Core(Len(source), emitted, st, tokens, output, not_depth, opt_depth)
  BY <1>4, CoreItem
<1> HIDE DEF st, set
<1>6. Core(Len(source), emitted, st, tokens', output', not_depth, opt_depth)
  BY <1>1, <1>2, <1>3, <1>5, CoreDiscard DEF IInv
<1> QED
  BY <1>1, <1>6 DEF Whole

LEMMA ItemDoneWhole ==
  ASSUME IInv, ItemDone
  PROVE  Whole'
<1> DEFINE out == PushErrors(output, pending_errors)
           x == EndEvent("SOURCE_FILE", 0, Len(source))
<1>1. /\ stack # <<>> /\ Code = <<>> /\ Exit.do = "item" /\ stack' = <<>>
      /\ UNCHANGED <<source, tokens, opt_depth, not_depth>>
  BY DEF ItemDone, Done, Exit
<1>2. Rest(stack) = <<>>
  BY <1>1, StackPop DEF IInv, Whole, Core, Exit
<1>3. Core(Len(source), emitted, <<>>, tokens, output, not_depth, opt_depth)
  BY <1>1, <1>2, CorePop DEF IInv, Whole, Code, Exit, Branches
<1>4. IsSeq(pending_errors) /\ Output(output) /\ IsSeq(emitted)
      /\ Ledger(Cat(emitted, output.events), tokens.current) /\ Stream(tokens, Len(source))
  BY DEF IInv, Mistakes, Spans, Whole, Core
<1>5. /\ Output(out) /\ out.open_begins = output.open_begins
      /\ out.num_bookmarks = output.num_bookmarks
      /\ \E y : Follows(output.events, out.events, y) /\ NoTokens(y)
  BY <1>4, PushErrorsIs
<1>6. CASE out.events = <<>>
  <2>1. output' = out /\ emitted' = Append(emitted, x)
    BY <1>6 DEF ItemDone
  <2> HIDE DEF out
  <2>2. PICK y : Follows(output.events, out.events, y) /\ NoTokens(y)
    BY <1>5
  <2>3. Ledger(Cat(emitted, out.events), tokens.current)
    BY <1>4, <2>2, FollowOthers
  <2>4. Core(Len(source), emitted, <<>>, tokens, out, not_depth, opt_depth)
    BY <1>3, <1>4, <1>5, <2>3, CoreIdle
  <2>5. x.type # "Token"
    BY DEF EndEvent
  <2> HIDE DEF x
  <2>6. Core(Len(source), Append(emitted, x), <<>>, tokens, out, not_depth, opt_depth)
    BY <1>6, <2>4, <2>5, CoreLastEvent
  <2> QED
    BY <1>1, <2>1, <2>6 DEF Whole
<1>7. CASE out.events # <<>>
  <2>1. output' = [out EXCEPT !.events = Tail(@)] /\ emitted' = Append(emitted, Head(out.events))
    BY <1>7 DEF ItemDone
  <2> HIDE DEF out
  <2>2. PICK y : Follows(output.events, out.events, y) /\ NoTokens(y)
    BY <1>5
  <2>3. Ledger(Cat(emitted, out.events), tokens.current)
    BY <1>4, <2>2, FollowOthers
  <2>4. Core(Len(source), emitted, <<>>, tokens, out, not_depth, opt_depth)
    BY <1>3, <1>4, <1>5, <2>3, CoreIdle
  <2>5. Core(Len(source), emitted', <<>>, tokens, output', not_depth, opt_depth)
    BY <1>7, <2>1, <2>4, CorePopEvent
  <2> QED
    BY <1>1, <2>5 DEF Whole
<1> QED
  BY <1>6, <1>7

-----------------------------------------------------------------------------
(* The state of the parser and the errors.                                  *)

LEMMA ControlKept ==
  ASSUME IInv, Next
  PROVE  Control'
<1>1. /\ stack # <<>> => state \in Running
      /\ fuel \in Nat /\ (fuel # 0 => fuel - 1 \in Nat)
  BY DEF IInv, Control
<1>2. ASSUME state' \in Running, fuel' \in Nat PROVE Control'
  BY <1>2 DEF Control, Running
<1>3. ASSUME state' = "EndOfInput", stack' = <<>>, fuel' \in Nat PROVE Control'
  BY <1>3 DEF Control
<1>4. CASE Skip \/ Call \/ Then \/ EnterHexPattern \/ EnterHexJump \/ Expect \/ IfNext \/ IfNextNot
  <2>1. stack # <<>> /\ state' = state /\ fuel' = fuel
    BY <1>4 DEF Skip, Call, Then, EnterHexPattern, EnterHexJump, EnterHexMode, Expect, IfNext,
                IfNextNot, Runs
  <2> QED
    BY <1>1, <1>2, <2>1
<1>5. CASE Opt \/ Not \/ NOrMore \/ FirstDone \/ Alt \/ AltDone \/ CachedDone \/ End
  <2>1. stack # <<>> /\ state' = state /\ fuel' = fuel
    BY <1>5 DEF Opt, Not, NOrMore, FirstDone, Alt, AltDone, CachedDone, End, Runs, Done
  <2> QED
    BY <1>1, <1>2, <2>1
<1>6. CASE Begin
  <2>1. /\ stack # <<>>
        /\ \/ state' = "OutOfFuel" /\ fuel' = fuel
           \/ fuel # 0 /\ fuel' = fuel - 1 /\ state' = state
    BY <1>6 DEF Begin, Runs
  <2> QED
    BY <1>1, <1>2, <2>1 DEF Running
<1>7. CASE ExpectFails \/ AltNext \/ RecoverAtEnd \/ RecoverFound
  <2>1. state' \in {"OK", "Failure"} /\ fuel' = fuel
    BY <1>7 DEF ExpectFails, AltNext, RecoverAtEnd, RecoverFound
  <2> QED
    BY <1>1, <1>2, <2>1 DEF Running
<1>8. CASE OptDone
  <2>1. stack # <<>> /\ state' \in {state, "OK"} /\ fuel' = fuel
    BY <1>8 DEF OptDone, Done
  <2> QED
    BY <1>1, <1>2, <2>1 DEF Running
<1>9. CASE NotDone
  <2>1. stack # <<>> /\ fuel' = fuel
        /\ state' = CASE state = "OK"        -> "Failure"
                      [] state = "Failure"   -> "OK"
                      [] state = "OutOfFuel" -> "OutOfFuel"
    BY <1>9 DEF NotDone, Done
  <2>2. state \in Running
    BY <1>1, <2>1
  <2>3. state' \in Running
    <3>1. CASE state = "OK"
      BY <2>1, <3>1 DEF Running
    <3>2. CASE state = "Failure"
      BY <2>1, <3>2 DEF Running
    <3>3. CASE state = "OutOfFuel"
      BY <2>1, <3>3 DEF Running
    <3> QED
      BY <2>2, <3>1, <3>2, <3>3 DEF Running
  <2> QED
    BY <1>1, <1>2, <2>1, <2>3
<1>10. CASE MoreDone
  <2>1. stack # <<>> /\ state' \in {state, "OK"} /\ fuel' = fuel
    BY <1>10 DEF MoreDone, Done, SetState
  <2> QED
    BY <1>1, <1>2, <2>1 DEF Running
<1>11. CASE Cached
  <2>1. stack # <<>> /\ state' \in {state, "Failure"} /\ fuel' = fuel
    BY <1>11 DEF Cached, Runs
  <2> QED
    BY <1>1, <1>2, <2>1 DEF Running
<1>12. CASE RecoverDiscards
  <2>1. state' \in {"OutOfFuel", "OK"} /\ fuel' = IF fuel = 0 THEN 0 ELSE fuel - 1
    BY <1>12 DEF RecoverDiscards
  <2> QED
    BY <1>1, <1>2, <2>1 DEF Running
<1>13. CASE Start \/ Pop \/ ParseItem \/ ParseTrivia \/ ParseJunk
  <2>1. state' \in Running /\ fuel' = fuel
    BY <1>13 DEF Start, Pop, ParseItem, ParseTrivia, ParseJunk, Idle, Running
  <2> QED
    BY <1>1, <1>2, <2>1
<1>14. CASE ItemDone
  <2>1. stack # <<>> /\ fuel' = fuel /\ stack' = <<>> /\ state' \in {"EndOfInput", "OK", state}
    BY <1>14 DEF ItemDone, Done, SetState
  <2>2. state \in Running
    BY <1>1, <2>1
  <2> QED
    BY <1>1, <1>2, <1>3, <2>1, <2>2 DEF Running
<1>15. CASE Finish
  <2>1. fuel' = fuel /\ stack' = <<>> /\ state' = "EndOfInput"
    BY <1>15 DEF Finish, Idle
  <2> QED
    BY <1>1, <1>3, <2>1
<1> QED
  BY <1>4, <1>5, <1>6, <1>7, <1>8, <1>9, <1>10, <1>11, <1>12, <1>13, <1>14, <1>15 DEF Next

\* The error that handle_errors keeps has one of the spans it was given.
LEMMA HandledIs ==
  ASSUME NEW len \in Nat, NEW expected, NEW unexpected, NEW pending,
         Spans(len, expected, unexpected, pending)
  PROVE  Spans(len, {}, {}, Handled(expected, unexpected, pending))
<1> DEFINE S == expected \cup unexpected
           m == Max(S)
           p == Append(pending, m)
<1>1. S \subseteq 1..(len + 1) /\ S \subseteq 0..(len + 1) /\ len + 1 \in Nat /\ IsSeq(pending)
  BY DEF Spans
<1>2. CASE Handled(expected, unexpected, pending) = pending
  BY <1>2 DEF Spans
<1>3. CASE S # {} /\ Handled(expected, unexpected, pending) = p
  <2>1. m \in S
    BY <1>1, <1>3, MaxIs
  <2> HIDE DEF m
  <2>2. /\ IsSeq(p) /\ Len(p) = Len(pending) + 1 /\ (\A i \in 1..Len(pending) : p[i] = pending[i])
        /\ p[Len(pending) + 1] = m
    BY <1>1, AppendIs
  <2>3. Len(pending) \in Nat
    BY <1>1, SeqIs
  <2> HIDE DEF p
  <2>4. ASSUME NEW i \in 1..Len(p) PROVE p[i] \in 1..(len + 1)
    <3>1. CASE i \in 1..Len(pending)
      BY <2>2, <3>1 DEF Spans
    <3>2. CASE i = Len(pending) + 1
      BY <1>1, <2>1, <2>2, <3>2
    <3> QED
      BY <2>2, <2>3, <3>1, <3>2
  <2> QED
    BY <1>3, <2>2, <2>4 DEF Spans
<1> QED
  BY <1>2, <1>3 DEF Handled

LEMMA MistakesKept ==
  ASSUME IInv, Next
  PROVE  Mistakes'
<1> DEFINE len == Len(source)
           ex == expected_token_errors
           un == unexpected_token_errors
           pe == pending_errors
<1>1. IsSeq(source) /\ len \in Nat /\ Spans(len, ex, un, pe)
  BY SeqIs DEF IInv, Mistakes
<1>2. NextToken \in 1..(len + 1)
  BY <1>1, CoreAhead DEF IInv, Whole
<1>3. Spans(len, ex \cup {NextToken}, un, pe) /\ Spans(len, ex, un \cup {NextToken}, pe)
  BY <1>1, <1>2 DEF Spans
<1>4. source' = source
  BY DEF Next, Skip, Call, Then, Begin, End, EnterHexPattern, EnterHexJump, EnterHexMode, Expect,
         ExpectFails, IfNext, IfNextNot, Opt, OptDone, Not, NotDone, NOrMore, FirstDone, MoreDone,
         Alt, AltNext, AltDone, Cached, CachedDone, RecoverAtEnd, RecoverFound, RecoverDiscards,
         Start, Pop, ParseItem, ParseTrivia, ParseJunk, ItemDone, Finish
<1>5. ASSUME Spans(len, ex', un', pe') PROVE Mistakes'
  BY <1>4, <1>5 DEF Mistakes
<1> HIDE DEF len
<1>6. ASSUME UNCHANGED errorVars PROVE Mistakes'
  BY <1>1, <1>5, <1>6 DEF errorVars
<1>7. ASSUME NEW e, Spans(len, e, un, pe), HandleErrors(e) PROVE Mistakes'
  <2>1. ex' = {} /\ un' = {} /\ pe' = Handled(e, un, pe)
    BY <1>7 DEF HandleErrors
  <2>2. Spans(len, {}, {}, Handled(e, un, pe))
    BY <1>1, <1>7, HandledIs
  <2> QED
    BY <1>5, <2>1, <2>2
<1>8. CASE End
  <2>1. HandleErrors(ex) \/ UNCHANGED errorVars
    BY <1>8 DEF End
  <2> QED
    BY <1>1, <1>6, <1>7, <2>1
<1>9. CASE Expect
  <2>1. ex' = ex /\ pe' = pe /\ (un' = un \/ un' = un \cup {NextToken})
    BY <1>9 DEF Expect
  <2> QED
    BY <1>1, <1>3, <1>5, <2>1
<1>10. CASE ExpectFails
  <2>1. un' = un /\ pe' = pe /\ (ex' = ex \/ ex' = ex \cup {NextToken})
    BY <1>10 DEF ExpectFails
  <2> QED
    BY <1>1, <1>3, <1>5, <2>1
<1>11. CASE IfNextNot
  <2>1. un' = un /\ pe' = pe /\ (ex' = ex \/ ex' = ex \cup {NextToken})
    BY <1>11 DEF IfNextNot
  <2> QED
    BY <1>1, <1>3, <1>5, <2>1
<1>12. CASE RecoverFound
  <2>1. HandleErrors(ex) \/ UNCHANGED errorVars
    BY <1>12 DEF RecoverFound
  <2> QED
    BY <1>1, <1>6, <1>7, <2>1
<1>13. CASE RecoverDiscards
  <2>1. HandleErrors(ex) \/ HandleErrors(ex \cup {NextToken})
    BY <1>13 DEF RecoverDiscards
  <2> QED
    BY <1>1, <1>3, <1>7, <2>1
<1>14. CASE ItemDone
  <2>1. ex' = ex /\ un' = un /\ pe' = <<>>
    BY <1>14 DEF ItemDone
  <2>2. Spans(len, ex, un, <<>>)
    <3>1. IsSeq(<<>>) /\ 1..Len(<<>>) = {}
      BY EmptyIs
    <3> QED
      BY <1>1, <3>1 DEF Spans
  <2> QED
    BY <1>5, <2>1, <2>2
<1>15. CASE ~(End \/ Expect \/ ExpectFails \/ IfNextNot \/ RecoverFound \/ RecoverDiscards \/ ItemDone)
  <2>1. UNCHANGED errorVars
    BY <1>15 DEF Next, Skip, Call, Then, Begin, EnterHexPattern, EnterHexJump, EnterHexMode, IfNext,
         Opt, OptDone, Not, NotDone, NOrMore, FirstDone, MoreDone, Alt, AltNext, AltDone, Cached,
         CachedDone, RecoverAtEnd, Start, Pop, ParseItem, ParseTrivia, ParseJunk, Finish
  <2> QED
    BY <1>6, <2>1
<1> QED
  BY <1>8, <1>9, <1>10, <1>11, <1>12, <1>13, <1>14, <1>15

LEMMA WholeKept ==
  ASSUME IInv, Next
  PROVE  Whole'
<1>1. CASE Skip \/ Call \/ Then \/ Begin \/ End \/ Expect \/ ExpectFails \/ IfNext \/ IfNextNot
  BY <1>1, SkipWhole, CallWhole, ThenWhole, BeginWhole, EndWhole, ExpectWhole, LookingWhole,
     IfNextWhole
<1>2. CASE EnterHexPattern \/ EnterHexJump
  BY <1>2, EnterHexWhole DEF EnterHexPattern, EnterHexJump
<1>3. CASE Opt \/ OptDone \/ Not \/ NotDone \/ Alt \/ AltNext \/ AltDone
  BY <1>3, OptWhole, NotWhole, AltWhole, AltNextWhole, LeavingWhole
<1>4. CASE NOrMore \/ FirstDone \/ MoreDone \/ Cached \/ CachedDone
  BY <1>4, NOrMoreWhole, FirstDoneWhole, MoreDoneWhole, CachedWhole, CachedDoneWhole
<1>5. CASE RecoverAtEnd \/ RecoverFound \/ RecoverDiscards
  BY <1>5, LookingWhole, RecoverDiscardsWhole
<1>6. CASE Start \/ Pop \/ ParseItem \/ ParseTrivia \/ ParseJunk \/ ItemDone \/ Finish
  BY <1>6, StartWhole, PopWhole, ParseItemWhole, ParseTriviaWhole, ParseJunkWhole, ItemDoneWhole,
     FinishWhole
<1> QED
  BY <1>1, <1>2, <1>3, <1>4, <1>5, <1>6 DEF Next

LEMMA InitCore ==
  ASSUME NEW len \in Nat
  PROVE  Core(len, <<>>, <<>>, NewStream, NewOutput, 0, 0)
<1>0. IsSeq(<<>>) /\ Len(<<>>) = 0 /\ 1..0 = {}
  BY EmptyIs
<1>1. Stack(<<>>)
  BY <1>0 DEF Stack
<1>2. Bookmarked(<<>>, 0, 0)
  BY <1>0 DEF Bookmarked
<1>3. Stream(NewStream, len)
  <2>1. "Normal" \in Modes /\ 0 \in Nat /\ 0 <= 0 /\ 0 <= 0 + Len(<<>>) /\ 0 + Len(<<>>) <= len
    BY <1>0 DEF Modes
  <2> QED
    BY <1>0, <1>2, <2>1, StreamMake DEF NewStream
<1>4. \A M : Of(<<>>, M) = {}
  BY <1>0 DEF Of
<1>5. Cardinality({}) = 0
  BY FS_EmptySet
<1>6. Marks(<<>>, <<>>, 0, 0, 0)
  BY <1>0, <1>4, <1>5 DEF Marks
<1>7. Begun(<<>>, <<>>)
  BY <1>0 DEF Begun
<1>8. \E o : Opens(<<>>, <<>>, o)
  <2> DEFINE o == [k \in 1..1 |-> 0]
  <2>1. o[1] = 0 /\ 0 + 1 = 1 /\ 1 \in 1..1 /\ \A k \in 1..1 : o[k] = 0
    OBVIOUS
  <2> HIDE DEF o
  <2>2. Opens(<<>>, <<>>, o)
    BY <1>0, <1>4, <2>1 DEF Opens
  <2> QED
    BY <2>2
<1>9. Ledger(Cat(<<>>, <<>>), 0)
  <2>1. Cat(<<>>, <<>>) = <<>>
    BY <1>0, ConcatEmpty DEF Cat
  <2>2. Tok(<<>>) = {}
    BY <1>0 DEF Tok
  <2>3. Count({}, 1) = 0
    BY CountFirst
  <2>4. 0 + 1 = 1
    OBVIOUS
  <2> QED
    BY <1>0, <2>1, <2>2, <2>3, <2>4 DEF Ledger
<1>10. Points(<<>>, <<>>, <<>>)
  BY <1>4 DEF Points
<1>11. /\ NewStream.bookmarks = <<>> /\ NewStream.current = 0 /\ NewOutput.events = <<>>
       /\ NewOutput.open_begins = <<>> /\ NewOutput.num_bookmarks = 0 /\ Output(NewOutput)
  BY <1>0 DEF NewStream, NewOutput, Output
<1> QED
  BY <1>0, <1>1, <1>3, <1>6, <1>7, <1>8, <1>9, <1>10, <1>11 DEF Core

LEMMA InitInv ==
  ASSUME Init
  PROVE  IInv
<1>1. IsSeq(source) /\ fuel \in Nat
  BY ParserAssumption DEF Init, IsSeq
<1>2. Len(source) \in Nat
  BY <1>1, SeqIs
<1>3. Whole
  BY <1>2, InitCore DEF Init, Whole
<1>4. Control
  BY <1>1 DEF Init, Control
<1>5. Mistakes
  <2>1. IsSeq(<<>>) /\ 1..Len(<<>>) = {}
    BY EmptyIs
  <2> QED
    BY <2>1 DEF Init, Mistakes, Spans
<1> QED
  BY <1>1, <1>3, <1>4, <1>5 DEF IInv

LEMMA NextInv ==
  ASSUME IInv, [Next]_vars
  PROVE  IInv'
<1>1. CASE Next
  <2>1. source' = source
    BY <1>1 DEF Next, Skip, Call, Then, Begin, End, EnterHexPattern, EnterHexJump, EnterHexMode,
         Expect, ExpectFails, IfNext, IfNextNot, Opt, OptDone, Not, NotDone, NOrMore, FirstDone,
         MoreDone, Alt, AltNext, AltDone, Cached, CachedDone, RecoverAtEnd, RecoverFound,
         RecoverDiscards, Start, Pop, ParseItem, ParseTrivia, ParseJunk, ItemDone, Finish
  <2> QED
    BY <1>1, <2>1, WholeKept, ControlKept, MistakesKept DEF IInv
<1>2. CASE UNCHANGED vars
  BY <1>2 DEF vars, errorVars, IInv, Whole, Control, Mistakes
<1> QED
  BY <1>1, <1>2

-----------------------------------------------------------------------------
(* What the invariant says.                                                 *)

LEMMA CountUpTo ==
  ASSUME NEW B, B \subseteq Nat, NEW k \in Nat
  PROVE  Cardinality({j \in B : j <= k}) = Count(B, k + 1)
<1>1. \A j \in B : j <= k <=> j < k + 1
  OBVIOUS
<1>2. {j \in B : j <= k} = {j \in B : j < k + 1}
  BY <1>1, Zenon
<1> QED
  BY <1>2 DEF Count

LEMMA LevelsAre ==
  ASSUME IsSeq(stack), NEW M
  PROVE  Levels(M) = Of(stack, M) /\ \A k : Level(k) = FrameAt(stack, k)
<1>1. DOMAIN stack = 1..Len(stack)
  BY SeqIs
<1>2. \A k : Level(k) = FrameAt(stack, k)
  BY DEF Level, FrameAt
<1> QED
  BY <1>1, <1>2, Zenon DEF Levels, Of

LEMMA InvTypeOK ==
  ASSUME IInv
  PROVE  TypeOK
<1>1. /\ Stream(tokens, Len(source)) /\ Stack(stack) /\ Begun(output.events, output.open_begins)
      /\ IsSeq(output.events)
  BY DEF IInv, Whole, Core, Output
<1>2. /\ tokens.mode \in Modes /\ tokens.purged <= tokens.current
      /\ tokens.current <= Lexed(tokens) /\ Lexed(tokens) <= Len(source)
  BY <1>1 DEF Stream, Lexed
<1>3. \A i \in DOMAIN output.open_begins :
        LET b == output.open_begins[i]
        IN  b \in DOMAIN output.events /\ output.events[b].type = "Begin"
  <2>1. /\ DOMAIN output.open_begins = 1..Len(output.open_begins)
        /\ DOMAIN output.events = 1..Len(output.events)
    BY <1>1, SeqIs DEF Begun
  <2> QED
    BY <1>1, <2>1 DEF Begun
<1>4. \A i \in DOMAIN stack : stack[i].exit.do \in Exits
  <2>1. DOMAIN stack = 1..Len(stack)
    BY <1>1, SeqIs DEF Stack
  <2> QED
    BY <1>1, <2>1 DEF Stack, GoodFrame, GoodExit
<1>5. expected_token_errors \union unexpected_token_errors \union ToSet(pending_errors)
        \subseteq 1 .. Len(source) + 1
  <2>1. Spans(Len(source), expected_token_errors, unexpected_token_errors, pending_errors)
    BY DEF IInv, Mistakes
  <2>2. DOMAIN pending_errors = 1..Len(pending_errors)
    BY <2>1, SeqIs DEF Spans
  <2>3. ToSet(pending_errors) \subseteq 1..(Len(source) + 1)
    BY <2>1, <2>2 DEF Spans, ToSet
  <2> QED
    BY <2>1, <2>3 DEF Spans
<1> QED
  BY <1>2, <1>3, <1>4, <1>5 DEF TypeOK, IInv, Control

LEMMA InvBookmarks ==
  ASSUME IInv
  PROVE  BookmarksAreLive
<1> DEFINE B == Of(stack, Branches)
           bms == tokens.bookmarks
           e == output.events
           ob == output.open_begins
<1>1. /\ IsSeq(stack) /\ Marks(stack, bms, output.num_bookmarks, not_depth, opt_depth)
      /\ Bookmarked(bms, tokens.purged, tokens.current) /\ Points(stack, emitted, e)
      /\ Begun(e, ob) /\ IsSeq(ob) /\ tokens.purged \in Nat /\ tokens.current \in Nat
  BY DEF IInv, Whole, Core, Stack, Stream, Begun
<1>2. \A M : Levels(M) = Of(stack, M)
  BY <1>1, LevelsAre
<1>3. \A k : Level(k) = FrameAt(stack, k)
  BY <1>1, LevelsAre
<1>4. /\ Len(bms) = Cardinality(Levels(Branches))
      /\ output.num_bookmarks = Cardinality(Levels(Branches))
      /\ not_depth = Cardinality(Levels({"not"}))
      /\ opt_depth = Cardinality(Levels(Branches \ {"not"}))
  BY <1>1, <1>2 DEF Marks
<1>5. ASSUME NEW k \in Levels(Branches)
      PROVE  LET bm == Level(k).exit.bm
             IN  /\ bms[Cardinality({j \in Levels(Branches) : j <= k})] = bm.tokens
                 /\ bm.tokens \in tokens.purged .. tokens.current
                 /\ bm.output <= Len(e)
  <2> DEFINE bm == Level(k).exit.bm
             i == Count(B, k + 1)
  <2>1. k \in B /\ bm = FrameAt(stack, k).exit.bm /\ B \subseteq Nat
    BY <1>1, <1>2, <1>3, OfIs
  <2>2. k \in Nat /\ i \in 1..Cardinality(B)
    BY <1>1, <2>1, CountOf
  <2>3. bms[i] = bm.tokens
    BY <1>1, <2>1 DEF Marks
  <2>4. Cardinality({j \in Levels(Branches) : j <= k}) = i
    <3>1. Levels(Branches) = B
      BY <1>2
    <3>2. Cardinality({j \in B : j <= k}) = i
      BY <2>1, <2>2, CountUpTo
    <3> HIDE DEF B, i
    <3> QED
      BY <3>1, <3>2
  <2>5. bm.output <= Len(e)
    <3>1. EventsOf(stack, k) = bm.output
      BY <2>1 DEF EventsOf
    <3> QED
      BY <1>1, <2>1, <3>1 DEF Points
  <2> HIDE DEF i, bm
  <2>6. bms[i] \in Nat /\ tokens.purged <= bms[i] /\ bms[i] <= tokens.current
    BY <1>1, <2>2 DEF Bookmarked, Marks
  <2>7. bm.tokens \in tokens.purged .. tokens.current
    BY <1>1, <2>3, <2>6
  <2> QED
    BY <2>3, <2>4, <2>5, <2>7 DEF bm
<1>6. ASSUME stack # <<>>, Code = <<>>, Exit.do \in Branches
      PROVE  \A i \in DOMAIN ob : ob[i] <= Exit.bm.output
  <2>1. PICK o : Opens(stack, ob, o)
    BY DEF IInv, Whole, Core
  <2>2. o[Len(stack)] = Len(ob)
    BY <1>1, <1>6, <2>1, OpensPop DEF Code
  <2>3. Len(stack) \in B /\ FrameAt(stack, Len(stack)) = stack[1]
    BY <1>1, <1>6, OfPop, PopIs DEF Exit
  <2>4. EventsOf(stack, Len(stack)) = Exit.bm.output
    BY <2>3 DEF EventsOf, Exit
  <2>5. DOMAIN ob = 1..Len(ob) /\ Len(ob) \in Nat
    BY <1>1, SeqIs
  <2>6. ASSUME NEW i \in 1..Len(ob) PROVE ob[i] <= EventsOf(stack, Len(stack))
    <3>1. i <= o[Len(stack)]
      BY <2>2, <2>5
    <3> QED
      BY <2>1, <2>3, <3>1 DEF Opens
  <2> QED
    BY <2>4, <2>5, <2>6
<1>7. ASSUME stack = <<>> PROVE ob = <<>>
  <2>1. Core(Len(source), emitted, <<>>, tokens, output, not_depth, opt_depth)
    BY <1>7 DEF IInv, Whole
  <2>2. IsSeq(emitted) /\ Output(output) /\ Ledger(Cat(emitted, output.events), tokens.current)
    BY <2>1 DEF Core
  <2> QED
    BY <2>1, <2>2, CoreIdle
<1> QED
  BY <1>4, <1>5, <1>6, <1>7, InvTypeOK DEF BookmarksAreLive

LEMMA InvLossless ==
  ASSUME IInv
  PROVE  Lossless
<1> DEFINE events == emitted \o output.events
           T == Tok(events)
           consumed == {i \in DOMAIN events : events[i].type = "Token"}
<1>1. IsSeq(events) /\ Ledger(events, tokens.current)
  <2>1. /\ IsSeq(emitted) /\ IsSeq(output.events)
        /\ Ledger(Cat(emitted, output.events), tokens.current)
    BY DEF IInv, Whole, Core, Output
  <2>2. IsSeq(Cat(emitted, output.events))
    BY <2>1, CatIs
  <2> QED
    BY <2>1, <2>2 DEF Cat
<1> HIDE DEF events
<1>2. Len(events) \in Nat /\ DOMAIN events = 1..Len(events)
  BY <1>1, SeqIs
<1>3. consumed = T
  BY <1>2, Zenon DEF Tok
<1>4. T \subseteq 1..Len(events) /\ T \subseteq Nat
  BY <1>1, TokIs
<1>5. Cardinality(T) = tokens.current
  BY <1>1, <1>2, <1>4, CountAll DEF Ledger
<1>6. ASSUME NEW i \in T PROVE events[i].to = Cardinality({j \in T : j <= i})
  <2>1. i \in Nat
    BY <1>4
  <2>2. Cardinality({j \in T : j <= i}) = Count(T, i + 1)
    BY <1>4, <2>1, CountUpTo
  <2>3. events[i].to = Count(T, i + 1)
    BY <1>1 DEF Ledger
  <2> HIDE DEF T
  <2> QED
    BY <2>2, <2>3
<1> HIDE DEF T, consumed
<1>7. /\ Cardinality(consumed) = tokens.current
      /\ \A i \in consumed : events[i].to = Cardinality({j \in consumed : j <= i})
  BY <1>3, <1>5, <1>6
<1> QED
  BY <1>7 DEF Lossless, events, consumed

\* The bookmarks of the two streams are always those of the branches that are
\* open, and going back to one finds its tokens and its events and cuts off no
\* node that is open, for every grammar whose rules and closures are balanced
\* and every source: no panic of parser/src/parser/token_stream.rs and
\* parser/src/cst/syntax_stream.rs is reached.
THEOREM BookmarksAlwaysLive == Spec => []BookmarksAreLive
<1>1. Init => IInv
  BY InitInv
<1>2. IInv /\ [Next]_vars => IInv'
  BY NextInv
<1>3. IInv => BookmarksAreLive
  BY InvBookmarks
<1> QED
  BY <1>1, <1>2, <1>3, PTL DEF Spec

\* The events of the tokens are always those of the tokens consumed, each once
\* and in order, whatever branches of the grammar failed and however the
\* parser recovered (restore_bookmark and recover in parser/src/parser/mod.rs).
THEOREM AlwaysLossless == Spec => []Lossless
<1>1. Init => IInv
  BY InitInv
<1>2. IInv /\ [Next]_vars => IInv'
  BY NextInv
<1>3. IInv => Lossless
  BY InvLossless
<1> QED
  BY <1>1, <1>2, <1>3, PTL DEF Spec
=============================================================================
