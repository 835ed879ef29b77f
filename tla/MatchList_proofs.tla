---------------------------- MODULE MatchList_proofs ----------------------------
(***************************************************************************)
(* Lemmas on MatchList, for any list of matches, after two on naturals and *)
(* one on functions defined by recursion: the binary search has an         *)
(* answer on a sorted list, Add inserts one offset and keeps the order,    *)
(* and a range is counted exactly.  PatternMatches_proofs and              *)
(* ChainMatch_proofs build on them.                                        *)
(***************************************************************************)
EXTENDS MatchList, Integers, SequenceTheorems, FiniteSetTheorems, WellFoundedInduction, TLAPS

\* A non-empty set of naturals has a least element.
LEMMA LeastNat ==
  ASSUME NEW T, T \subseteq Nat, T # {}
  PROVE  \E i \in T : \A k \in T : ~(k < i)
<1> DEFINE R == {ss \in Nat \X Nat : ss[1] < ss[2]}
<1>1. IsWellFoundedOn(R, Nat)
  BY NatLessThanWellFounded, Zenon DEF OpToRel
<1> HIDE DEF R
<1>2. PICK i \in T : \A k \in T : ~(<<k, i>> \in R)
  BY <1>1, WFMin, Zenon
<1>3. QED
  BY <1>2 DEF R

\* Induction up to N.
LEMMA UpTo ==
  ASSUME NEW S, NEW N \in Nat, 0 \in S, \A n \in 0..(N - 1) : n \in S => n + 1 \in S
  PROVE  0..N \subseteq S
<1> DEFINE T == {n \in 0..N : n \notin S}
<1> SUFFICES ASSUME T # {} PROVE FALSE
  BY Zenon
<1>1. T \subseteq Nat
  OBVIOUS
<1>2. PICK i \in T : \A k \in T : ~(k < i)
  BY <1>1, LeastNat
<1>3. i \in 0..N /\ i \notin S /\ i # 0
  BY <1>2
<1>4. i - 1 \in 0..(N - 1) /\ i - 1 \in 0..N /\ i - 1 < i /\ (i - 1) + 1 = i
  BY <1>3
<1>5. i - 1 \in S
  BY <1>2, <1>4
<1> QED
  BY <1>3, <1>4, <1>5

\* A function defined by recursion exists.
IsRecursive(f, D, N, b, step) ==
  f \in [0..N -> D] /\ f[0] = b /\ \A n \in 1..N : f[n] = step[n][f[n - 1]]

LEMMA RecursionExists ==
  ASSUME NEW D, NEW N \in Nat, NEW b \in D, NEW step \in [1..N -> [D -> D]]
  PROVE  \E f : IsRecursive(f, D, N, b, step)
<1> DEFINE P(n) == \E f \in [0..N -> D] :
                     f[0] = b /\ \A m \in 1..N : m <= n => f[m] = step[m][f[m - 1]]
           S == {n \in 0..N : P(n)}
<1>1. 0 \in S
  <2> DEFINE f == [m \in 0..N |-> b]
  <2>1. f \in [0..N -> D] /\ f[0] = b
    OBVIOUS
  <2>2. \A m \in 1..N : ~(m <= 0)
    OBVIOUS
  <2> HIDE DEF f
  <2> QED
    BY <2>1, <2>2
<1>2. ASSUME NEW n \in 0..(N - 1), n \in S PROVE n + 1 \in S
  <2>1. PICK f \in [0..N -> D] : f[0] = b /\ \A m \in 1..N : m <= n => f[m] = step[m][f[m - 1]]
    BY <1>2
  <2> DEFINE g == [m \in 0..N |-> IF m = n + 1 THEN step[n + 1][f[n]] ELSE f[m]]
  <2>2. n + 1 \in 1..N /\ n \in 0..N /\ n # n + 1 /\ n + 1 # 0
    OBVIOUS
  <2>3. step[n + 1][f[n]] \in D
    BY <2>2
  <2>4. g \in [0..N -> D] /\ g[0] = b
    BY <2>1, <2>2, <2>3
  <2>5. ASSUME NEW m \in 1..N, m <= n + 1 PROVE g[m] = step[m][g[m - 1]]
    <3>1. m - 1 \in 0..N /\ m \in 0..N /\ m - 1 # n + 1
      BY <2>5
    <3>2. g[m - 1] = f[m - 1]
      BY <3>1
    <3>3. CASE m = n + 1
      BY <2>2, <3>1, <3>2, <3>3
    <3>4. CASE m # n + 1
      <4>1. m <= n
        BY <2>5, <3>4
      <4>2. g[m] = f[m] /\ f[m] = step[m][f[m - 1]]
        BY <2>1, <3>1, <3>4, <4>1
      <4> QED
        BY <3>2, <4>2
    <3> QED
      BY <3>3, <3>4
  <2> HIDE DEF g
  <2>6. P(n + 1)
    BY <2>4, <2>5
  <2> QED
    BY <2>2, <2>6
<1>3. N \in S
  <2> HIDE DEF S
  <2>1. 0..N \subseteq S
    BY <1>1, <1>2, UpTo
  <2> QED
    BY <2>1
<1>4. PICK f \in [0..N -> D] : f[0] = b /\ \A m \in 1..N : m <= N => f[m] = step[m][f[m - 1]]
  BY <1>3
<1>5. \A m \in 1..N : f[m] = step[m][f[m - 1]]
  BY <1>4
<1> QED
  BY <1>4, <1>5 DEF IsRecursive

\* On a sorted list the binary search has an answer: every match before it
\* starts before the offset, every match from it on does not.
LEMMA SearchIndexProperties ==
  ASSUME NEW list \in Seq(Match), SortedByStart(list), NEW offset \in Nat
  PROVE  LET i == SearchIndex(list, offset) IN
           /\ i \in 1..(Len(list) + 1)
           /\ \A j \in 1..(i - 1) : list[j].start < offset
           /\ \A j \in i..Len(list) : list[j].start >= offset
<1> DEFINE T == {i \in 1..(Len(list) + 1) : i = Len(list) + 1 \/ list[i].start >= offset}
<1>1. Len(list) \in Nat /\ \A j \in 1..Len(list) : list[j] \in Match
  BY LenProperties, ElementOfSeq
<1>2. T \subseteq Nat /\ T # {}
  <2>1. Len(list) + 1 \in T
    BY <1>1
  <2>2. QED
    BY <2>1, <1>1
<1>4. PICK i \in T : \A k \in T : ~(k < i)
  BY <1>2, LeastNat
<1>5. \A j \in 1..(i - 1) : list[j].start < offset
  <2>1. SUFFICES ASSUME NEW j \in 1..(i - 1) PROVE list[j].start < offset
    OBVIOUS
  <2>2. j \in 1..Len(list) /\ j < i /\ list[j].start \in Nat
    BY <1>1, <2>1 DEF Match
  <2>3. j \notin T
    BY <1>4, <2>2
  <2>4. QED
    BY <1>1, <2>2, <2>3
<1>6. \A j \in i..Len(list) : list[j].start >= offset
  <2>1. SUFFICES ASSUME NEW j \in i..Len(list) PROVE list[j].start >= offset
    OBVIOUS
  <2>2. i \in 1..Len(list) /\ list[i].start >= offset /\ list[i].start \in Nat
    BY <1>1, <2>1, SMTT(30) DEF Match
  <2>3. j \in 1..Len(list) /\ list[j].start \in Nat
    BY <1>1, <2>2, SMTT(30) DEF Match
  <2>4. CASE i = j
    BY <2>2, <2>4
  <2>5. CASE i < j
    BY <2>2, <2>3, <2>5 DEF SortedByStart
  <2>6. QED
    BY <1>1, <2>4, <2>5, <2>2, <2>3
<1>7. QED
  BY <1>5, <1>6 DEF SearchIndex

\* r is the list with m inserted at position i.
IsInsertion(r, list, i, m) ==
  /\ r \in Seq(Match) /\ Len(r) = Len(list) + 1
  /\ \A j \in 1..(Len(list) + 1) :
       r[j] = IF j < i THEN list[j] ELSE IF j = i THEN m ELSE list[j - 1]

\* Inserting at position i shifts what is there and after it.
LEMMA InsertAtElements ==
  ASSUME NEW list \in Seq(Match), NEW m \in Match, NEW i \in 1..Len(list)
  PROVE  IsInsertion(InsertAt(list, i, m), list, i, m)
<1> DEFINE n == Len(list)
<1> DEFINE r == InsertAt(list, i, m)
<1>1. n \in Nat /\ i \in 1..n /\ \A j \in 1..n : list[j] \in Match
  BY LenProperties, ElementOfSeq
<1> DEFINE a == SubSeq(list, 1, i - 1)
<1> DEFINE b == SubSeq(list, i, n)
<1> DEFINE c == a \o <<m>>
<1>2. a \in Seq(Match) /\ Len(a) = i - 1 /\ \A j \in 1..(i - 1) : a[j] = list[j]
  <2>1. \A j \in 1..(i - 1) : list[j] \in Match
    BY <1>1
  <2>2. QED
    BY <2>1, <1>1, SubSeqProperties
<1>3. b \in Seq(Match) /\ Len(b) = n - i + 1
      /\ \A j \in 1..(n - i + 1) : b[j] = list[i + j - 1]
  <2>1. \A j \in i..n : list[j] \in Match
    BY <1>1
  <2>2. QED
    BY <2>1, <1>1, SubSeqProperties
<1>4. c \in Seq(Match) /\ Len(c) = i
      /\ \A j \in 1..i : c[j] = IF j < i THEN list[j] ELSE m
  <2>1. <<m>> \in Seq(Match) /\ Len(<<m>>) = 1 /\ <<m>>[1] = m
    OBVIOUS
  <2> HIDE DEF a
  <2>2. QED
    BY <2>1, <1>2, <1>1, ConcatProperties
<1>5. r = c \o b
  BY DEF InsertAt
<1> HIDE DEF a, b, c, r
<1>6. /\ r \in Seq(Match) /\ Len(r) = Len(c) + Len(b)
      /\ \A j \in 1..(Len(c) + Len(b)) :
           r[j] = IF j <= Len(c) THEN c[j] ELSE b[j - Len(c)]
  BY <1>3, <1>4, <1>5, ConcatProperties
<1> HIDE DEF n
<1>7. Len(r) = n + 1
  BY <1>6, <1>3, <1>4, <1>1
<1>8. ASSUME NEW j \in 1..(n + 1), j <= i
      PROVE  r[j] = IF j < i THEN list[j] ELSE m
  BY <1>6, <1>8, <1>3, <1>4, <1>1
<1>9. ASSUME NEW j \in 1..(n + 1), j > i
      PROVE  r[j] = list[j - 1]
  <2>1. j - i \in 1..(n - i + 1) /\ i + (j - i) - 1 = j - 1
    BY <1>9, <1>1
  <2>2. r[j] = b[j - i] /\ b[j - i] = list[i + (j - i) - 1]
    BY <1>6, <1>9, <2>1, <1>3, <1>4, <1>1
  <2>3. QED
    BY <2>1, <2>2
<1>10. ASSUME NEW j \in 1..(n + 1)
       PROVE  r[j] = IF j < i THEN list[j] ELSE IF j = i THEN m ELSE list[j - 1]
  <2>1. j \in Nat /\ i \in Nat
    BY <1>1
  <2>2. CASE j <= i
    BY <2>1, <2>2, <1>8
  <2>3. CASE j > i
    BY <2>1, <2>3, <1>9
  <2>4. QED
    BY <2>1, <2>2, <2>3
<1>11. QED
  BY <1>6, <1>7, <1>10 DEF n, r, IsInsertion

\* MatchList::add keeps the list sorted, with one match per start, and
\* changes its length by at most one.
LEMMA AddPreservesSorted ==
  ASSUME NEW list \in Seq(Match), SortedByStart(list), NEW m \in Match,
         NEW replace \in BOOLEAN
  PROVE  /\ Add(list, m, replace) \in Seq(Match)
         /\ SortedByStart(Add(list, m, replace))
         /\ Len(Add(list, m, replace)) \in {Len(list), Len(list) + 1}
         /\ Starts(Add(list, m, replace)) = Starts(list) \cup {m.start}
<1> DEFINE n == Len(list)
<1> DEFINE i == SearchIndex(list, m.start)
<1> DEFINE r == Add(list, m, replace)
<1>1. n \in Nat /\ \A j \in 1..n : list[j] \in Match /\ list[j].start \in Nat
  <2>1. n \in Nat /\ \A j \in 1..n : list[j] \in Match
    BY LenProperties, ElementOfSeq
  <2>2. QED
    BY <2>1 DEF Match
<1>2. m.start \in Nat /\ m.end \in Nat
  BY DEF Match
<1>3. /\ i \in 1..(n + 1)
      /\ \A j \in 1..(i - 1) : list[j].start < m.start
      /\ \A j \in i..n : list[j].start >= m.start
  BY <1>2, SearchIndexProperties
<1>4. ASSUME NEW k \in 1..n
      PROVE  LET u == [list EXCEPT ![k].end = m.end]
             IN  u \in Seq(Match) /\ SortedByStart(u) /\ Len(u) = n /\ Starts(u) = Starts(list)
  <2> DEFINE e == [list[k] EXCEPT !.end = m.end]
  <2>1. e \in Match /\ e.start = list[k].start
    BY <1>1, <1>2 DEF Match
  <2>2. [list EXCEPT ![k].end = m.end] = [list EXCEPT ![k] = e]
    OBVIOUS
  <2>3. /\ [list EXCEPT ![k] = e] \in Seq(Match)
        /\ Len([list EXCEPT ![k] = e]) = n
        /\ \A j \in 1..n : [list EXCEPT ![k] = e][j] = IF j = k THEN e ELSE list[j]
    BY <2>1, ExceptSeq
  <2>4. SortedByStart([list EXCEPT ![k] = e])
    BY <2>1, <2>3 DEF SortedByStart
  <2>5. Starts([list EXCEPT ![k] = e]) = Starts(list)
    <3> DEFINE u == [list EXCEPT ![k] = e]
    <3>1. Len(u) = n /\ \A j \in 1..n : u[j].start = list[j].start
      BY <2>1, <2>3
    <3> HIDE DEF u
    <3>2. Starts(u) = Starts(list)
      BY <3>1 DEF Starts
    <3>3. QED
      BY <3>2 DEF u
  <2>6. QED
    BY <2>2, <2>3, <2>4, <2>5
<1>4a. ASSUME NEW k \in 1..n, list[k].start = m.start
       PROVE  Starts(list) = Starts(list) \cup {m.start}
  BY <1>4a DEF Starts
<1>5. CASE n = 0
  <2>1. r = <<m>>
    BY <1>5 DEF Add
  <2>2. Starts(list) = {} /\ Starts(<<m>>) = {m.start}
    BY <1>5 DEF Starts
  <2>3. SortedByStart(<<m>>) /\ <<m>> \in Seq(Match) /\ Len(<<m>>) = 1
    BY DEF SortedByStart
  <2>4. QED
    BY <2>1, <2>2, <2>3, <1>5
<1>6. CASE n > 0 /\ m.start > list[n].start
  <2>1. r = Append(list, m)
    BY <1>1, <1>2, <1>6 DEF Add
  <2>2. r \in Seq(Match) /\ Len(r) = n + 1
        /\ r[n + 1] = m /\ \A j \in 1..n : r[j] = list[j]
    BY <2>1, AppendProperties
  <2>3. \A j \in 1..n : list[j].start < m.start
    BY <1>1, <1>2, <1>6 DEF SortedByStart
  <2>4. SortedByStart(r)
    BY <1>1, <2>2, <2>3 DEF SortedByStart
  <2>5. Starts(r) = Starts(list) \cup {m.start}
    <3> HIDE DEF r
    <3>1. \A j \in 1..(n + 1) : j \in 1..n \/ j = n + 1
      BY <1>1
    <3>2. 1..n \subseteq 1..(n + 1) /\ n + 1 \in 1..(n + 1)
      BY <1>1
    <3>3. Len(r) = n + 1 /\ r[n + 1] = m /\ \A j \in 1..n : r[j] = list[j]
      BY <2>2
    <3>4. QED
      BY <3>1, <3>2, <3>3 DEF Starts
  <2>6. QED
    BY <2>2, <2>4, <2>5
<1>7. CASE n > 0 /\ m.start = list[n].start
  <2>1. r = IF replace THEN [list EXCEPT ![n].end = m.end] ELSE list
    BY <1>1, <1>2, <1>7 DEF Add
  <2>2. n \in 1..n
    BY <1>1, <1>7
  <2>3. QED
    BY <1>1, <1>4, <1>7, <1>4a, <2>1, <2>2
<1>8. CASE n > 0 /\ m.start < list[n].start
  <2>1. r = IF list[i].start # m.start THEN InsertAt(list, i, m)
            ELSE IF replace /\ list[i].end < m.end
                 THEN [list EXCEPT ![i].end = m.end] ELSE list
    BY <1>1, <1>2, <1>8 DEF Add
  <2>2. i \in 1..n
    BY <1>1, <1>2, <1>3, <1>8
  <2>3. CASE list[i].start = m.start
    BY <1>1, <1>4, <1>4a, <2>1, <2>2, <2>3
  <2>4. CASE list[i].start # m.start
    <3>4. r = InsertAt(list, i, m)
      BY <2>1, <2>4
    <3> HIDE DEF r
    <3>5. r \in Seq(Match) /\ Len(r) = n + 1
          /\ \A j \in 1..(n + 1) :
               r[j] = IF j < i THEN list[j] ELSE IF j = i THEN m ELSE list[j - 1]
      <4> HIDE DEF i
      <4>1. IsInsertion(r, list, i, m)
        BY <3>4, <2>2, InsertAtElements
      <4>2. QED
        BY <4>1 DEF IsInsertion
    <3>6. list[i].start > m.start
      BY <1>1, <1>2, <1>3, <2>2, <2>4
    <3>7. \A j \in i..n : list[j].start > m.start
      BY <1>1, <1>2, <2>2, <3>6 DEF SortedByStart
    <3>8. SortedByStart(r)
      <4> HIDE DEF n, i
      <4>1. SUFFICES ASSUME NEW j \in 1..(n + 1), NEW k \in 1..(n + 1), j < k
                     PROVE  r[j].start < r[k].start
        BY <3>5, <1>1 DEF SortedByStart
      <4>2. \A x, y \in 1..n : x < y => list[x].start < list[y].start
        BY DEF SortedByStart, n
      <4>3. /\ r[j] = IF j < i THEN list[j] ELSE IF j = i THEN m ELSE list[j - 1]
            /\ r[k] = IF k < i THEN list[k] ELSE IF k = i THEN m ELSE list[k - 1]
        BY <3>5
      <4>4. j \in Nat /\ k \in Nat /\ i \in Nat /\ j < k /\ k <= n + 1 /\ 1 <= j /\ 1 <= i /\ i <= n
        BY <4>1, <2>2, <1>1
      <4>5. CASE k < i
        <5>1. j \in 1..n /\ k \in 1..n
          BY <4>4, <4>5, <1>1
        <5>2. QED
          BY <4>2, <4>3, <4>4, <4>5, <5>1
      <4>6. CASE k = i
        <5>1. j \in 1..(i - 1)
          BY <4>4, <4>6
        <5>2. QED
          BY <4>3, <4>4, <4>6, <5>1, <1>3
      <4>7. CASE k > i /\ j < i
        <5>1. j \in 1..n /\ k - 1 \in 1..n /\ j < k - 1
          BY <4>4, <4>7, <1>1
        <5>2. QED
          BY <4>2, <4>3, <4>4, <4>7, <5>1
      <4>8. CASE k > i /\ j = i
        <5>1. k - 1 \in i..n /\ list[k - 1].start > m.start /\ list[k - 1].start \in Nat
          BY <4>4, <4>8, <3>7, <1>1
        <5>2. QED
          BY <4>3, <4>4, <4>8, <5>1, <1>2
      <4>9. CASE k > i /\ j > i
        <5>1. j - 1 \in 1..n /\ k - 1 \in 1..n /\ j - 1 < k - 1
          BY <4>4, <4>9, <1>1
        <5>2. QED
          BY <4>2, <4>3, <4>4, <4>9, <5>1
      <4>10. QED
        BY <4>4, <4>5, <4>6, <4>7, <4>8, <4>9
    <3>9. Starts(r) = Starts(list) \cup {m.start}
      <4> HIDE DEF n, i
      <4>1. r[i] = m /\ i \in 1..(n + 1)
        BY <3>5, <2>2, <1>1
      <4>2. ASSUME NEW j \in 1..n PROVE \E k \in 1..(n + 1) : r[k] = list[j]
        <5>1. CASE j < i
          BY <5>1, <3>5, <2>2, <1>1
        <5>2. CASE j >= i
          <6>1. j + 1 \in 1..(n + 1) /\ ~(j + 1 < i) /\ j + 1 # i /\ (j + 1) - 1 = j
            BY <5>2, <2>2, <1>1
          <6>2. r[j + 1] = list[(j + 1) - 1]
            BY <6>1, <3>5
          <6>3. QED
            BY <6>1, <6>2
        <5>3. QED
          BY <5>1, <5>2, <2>2, <1>1
      <4>3. ASSUME NEW k \in 1..(n + 1) PROVE r[k] = m \/ \E j \in 1..n : r[k] = list[j]
        <5>1. CASE k < i
          BY <5>1, <3>5, <2>2, <1>1
        <5>2. CASE k = i
          BY <5>2, <4>1
        <5>3. CASE k > i
          <6>1. k - 1 \in 1..n
            BY <5>3, <2>2, <1>1
          <6>2. r[k] = list[k - 1]
            BY <5>3, <3>5, <2>2, <1>1
          <6>3. QED
            BY <6>1, <6>2
        <5>4. QED
          BY <5>1, <5>2, <5>3, <2>2, <1>1
      <4>4. Len(r) = n + 1 /\ Len(list) = n
        BY <3>5 DEF n
      <4>5. \A x : x \in Starts(r) <=> \E k \in 1..(n + 1) : x = r[k].start
        BY <4>4 DEF Starts
      <4>6. \A x : x \in Starts(list) <=> \E j \in 1..n : x = list[j].start
        BY <4>4 DEF Starts
      <4>7. Starts(r) \subseteq Starts(list) \cup {m.start}
        BY <4>3, <4>5, <4>6
      <4>8. Starts(list) \cup {m.start} \subseteq Starts(r)
        <5>1. m.start \in Starts(r)
          BY <4>1, <4>5
        <5>2. ASSUME NEW j \in 1..n PROVE list[j].start \in Starts(r)
          <6>1. PICK k \in 1..(n + 1) : r[k] = list[j]
            BY <4>2
          <6>2. QED
            BY <6>1, <4>5
        <5>3. QED
          BY <5>1, <5>2, <4>6
      <4>9. QED
        BY <4>7, <4>8
    <3>10. QED
      BY <3>5, <3>8, <3>9 DEF r
  <2>5. QED
    BY <2>3, <2>4
<1>9. QED
  <2>1. n > 0 => list[n].start \in Nat
    BY <1>1
  <2>2. QED
    BY <1>1, <1>2, <1>5, <1>6, <1>7, <1>8, <2>1

\* The matches of a list, without their order.
Elements(list) == {list[j] : j \in 1..Len(list)}

\* What an addition does to a sorted list, seen as a set of matches: a match
\* at a new offset is added, one at a known offset changes at most the end of
\* the match there, and makes it longer unless that is the last match.
LEMMA AddEffect ==
  ASSUME NEW list \in Seq(Match), SortedByStart(list), NEW m \in Match,
         NEW replace \in BOOLEAN
  PROVE  LET r == Add(list, m, replace) IN
           \/ m.start \notin Starts(list) /\ Elements(r) = Elements(list) \cup {m}
           \/ /\ m.start \in Starts(list) /\ r = list
              /\ replace => \E k \in 1..Len(list) : /\ list[k].start = m.start /\ list[k].end >= m.end
                                                     /\ k < Len(list)
           \/ \E k \in 1..Len(list) : /\ replace /\ list[k].start = m.start
                                      /\ r = [list EXCEPT ![k].end = m.end]
                                      /\ k < Len(list) => list[k].end < m.end
<1> DEFINE n == Len(list)
<1> DEFINE i == SearchIndex(list, m.start)
<1> DEFINE r == Add(list, m, replace)
<1>1. n \in Nat /\ \A j \in 1..n : list[j] \in Match /\ list[j].start \in Nat /\ list[j].end \in Nat
  <2>1. n \in Nat /\ \A j \in 1..n : list[j] \in Match
    BY LenProperties, ElementOfSeq
  <2>2. QED
    BY <2>1 DEF Match
<1>2. m.start \in Nat /\ m.end \in Nat
  BY DEF Match
<1>3. /\ i \in 1..(n + 1)
      /\ \A j \in 1..(i - 1) : list[j].start < m.start
      /\ \A j \in i..n : list[j].start >= m.start
  BY <1>2, SearchIndexProperties
<1>4. CASE n = 0
  <2>1. r = <<m>>
    BY <1>4 DEF Add
  <2>2. Starts(list) = {} /\ Elements(list) = {} /\ Elements(<<m>>) = {m}
    BY <1>4 DEF Starts, Elements
  <2>3. QED
    BY <2>1, <2>2
<1>5. CASE n > 0 /\ m.start > list[n].start
  <2>1. r = Append(list, m)
    BY <1>1, <1>2, <1>5, SMTT(30) DEF Add
  <2>2. Len(r) = n + 1 /\ r[n + 1] = m /\ \A j \in 1..n : r[j] = list[j]
    BY <2>1, AppendProperties
  <2>3. \A j \in 1..n : list[j].start < m.start
    BY <1>1, <1>2, <1>5 DEF SortedByStart
  <2>4. m.start \notin Starts(list)
    BY <1>1, <1>2, <2>3 DEF Starts
  <2> HIDE DEF r, n
  <2>5. 1..(n + 1) = 1..n \cup {n + 1}
    BY <1>1
  <2>6. Elements(r) = Elements(list) \cup {m}
    BY <2>2, <2>5 DEF Elements, n
  <2>7. QED
    BY <2>4, <2>6 DEF r
<1>6. CASE n > 0 /\ m.start = list[n].start
  <2>1. r = IF replace THEN [list EXCEPT ![n].end = m.end] ELSE list
    BY <1>1, <1>2, <1>6 DEF Add
  <2>2. n \in 1..n /\ m.start \in Starts(list) /\ ~(n < n)
    BY <1>1, <1>6 DEF Starts
  <2>3. QED
    BY <1>6, <2>1, <2>2
<1>7. CASE n > 0 /\ m.start < list[n].start
  <2>1. r = IF list[i].start # m.start THEN InsertAt(list, i, m)
            ELSE IF replace /\ list[i].end < m.end
                 THEN [list EXCEPT ![i].end = m.end] ELSE list
    BY <1>1, <1>2, <1>7 DEF Add
  <2>2. i \in 1..n
    BY <1>1, <1>2, <1>3, <1>7
  <2> HIDE DEF i, r
  <2>3. CASE list[i].start = m.start
    <3>1. m.start \in Starts(list)
      BY <2>2, <2>3 DEF Starts
    <3>2. CASE replace /\ list[i].end < m.end
      BY <2>1, <2>2, <2>3, <3>2 DEF r
    <3>3. CASE ~(replace /\ list[i].end < m.end)
      <4>1. r = list /\ (replace => list[i].end >= m.end)
        BY <1>1, <1>2, <2>1, <2>2, <2>3, <3>3
      <4>2. i < Len(list)
        BY <1>1, <1>7, <2>2, <2>3
      <4>3. QED
        BY <2>2, <2>3, <3>1, <4>1, <4>2 DEF r
    <3>4. QED
      BY <3>2, <3>3
  <2>4. CASE list[i].start # m.start
    <3>1. Len(r) = n + 1
          /\ \A j \in 1..(n + 1) :
               r[j] = IF j < i THEN list[j] ELSE IF j = i THEN m ELSE list[j - 1]
      <4>1. IsInsertion(r, list, i, m)
        BY <2>1, <2>2, <2>4, InsertAtElements
      <4>2. QED
        BY <4>1 DEF IsInsertion
    <3>2. \A j \in 1..n : list[j].start # m.start
      <4>1. SUFFICES ASSUME NEW j \in 1..n PROVE list[j].start # m.start
        OBVIOUS
      <4>2. CASE j < i
        BY <4>2, <1>1, <1>2, <1>3, <2>2
      <4>3. CASE j = i
        BY <4>3, <2>4
      <4>4. CASE j > i
        <5>1. list[i].start < list[j].start /\ list[i].start >= m.start
          BY <4>4, <1>1, <1>3, <2>2 DEF SortedByStart
        <5>2. QED
          BY <5>1, <1>1, <1>2, <2>2
      <4>5. QED
        BY <4>2, <4>3, <4>4, <2>2, <1>1
    <3>3. m.start \notin Starts(list)
      BY <3>2 DEF Starts
    <3> HIDE DEF n
    <3>4. \A j \in 1..n : \E k \in 1..(n + 1) : r[k] = list[j]
      <4>1. SUFFICES ASSUME NEW j \in 1..n PROVE \E k \in 1..(n + 1) : r[k] = list[j]
        OBVIOUS
      <4>2. CASE j < i
        BY <4>2, <3>1, <2>2, <1>1
      <4>3. CASE j >= i
        <5>1. j + 1 \in 1..(n + 1) /\ ~(j + 1 < i) /\ j + 1 # i /\ (j + 1) - 1 = j
          BY <4>3, <2>2, <1>1
        <5>2. r[j + 1] = list[(j + 1) - 1]
          BY <5>1, <3>1
        <5>3. QED
          BY <5>1, <5>2
      <4>4. QED
        BY <4>2, <4>3, <2>2, <1>1
    <3>5. \A k \in 1..(n + 1) : r[k] = m \/ \E j \in 1..n : r[k] = list[j]
      <4>1. SUFFICES ASSUME NEW k \in 1..(n + 1), k # i PROVE \E j \in 1..n : r[k] = list[j]
        BY <3>1, <2>2, <1>1
      <4>2. CASE k < i
        BY <4>2, <3>1, <2>2, <1>1
      <4>3. CASE k > i
        <5>1. k - 1 \in 1..n
          BY <4>3, <2>2, <1>1
        <5>2. r[k] = list[k - 1]
          BY <4>3, <3>1, <2>2, <1>1
        <5>3. QED
          BY <5>1, <5>2
      <4>4. QED
        BY <4>1, <4>2, <4>3, <2>2, <1>1
    <3>6. i \in 1..(n + 1) /\ r[i] = m
      BY <3>1, <2>2, <1>1
    <3>7. Elements(r) = Elements(list) \cup {m}
      <4>1. Elements(r) = {r[k] : k \in 1..(n + 1)} /\ Elements(list) = {list[j] : j \in 1..n}
        BY <3>1 DEF Elements, n
      <4>2. QED
        BY <3>4, <3>5, <3>6, <4>1
    <3>8. QED
      BY <3>3, <3>7 DEF r
  <2>5. QED
    BY <2>3, <2>4
<1>8. QED
  <2>1. n > 0 => list[n].start \in Nat
    BY <1>1
  <2>2. QED
    BY <1>1, <1>2, <1>4, <1>5, <1>6, <1>7, <2>1

\* The list has the match x, or a longer one in its place.
Survives(x, list) ==
  \E j \in 1..Len(list) :
     list[j].start = x.start /\ list[j].base = x.base /\ list[j].end >= x.end

\* One addition seen from a match that is not the last of its list: it is
\* still there, not shorter and in the same block.
LEMMA AddOnlyGrows ==
  ASSUME NEW list \in Seq(Match), SortedByStart(list), NEW m \in Match,
         NEW replace \in BOOLEAN, NEW i \in 1..(Len(list) - 1)
  PROVE  Survives(list[i], Add(list, m, replace))
<1> DEFINE r == Add(list, m, replace)
<1>1. Len(list) \in Nat /\ i \in 1..Len(list) /\ i < Len(list) /\ list[i] \in Match
  <2>1. Len(list) \in Nat
    BY LenProperties
  <2>2. i \in 1..Len(list) /\ i < Len(list)
    BY <2>1
  <2>3. QED
    BY <2>1, <2>2, ElementOfSeq
<1>2. list[i].end \in Nat /\ m.end \in Nat
  BY <1>1 DEF Match
<1>3. CASE Elements(r) = Elements(list) \cup {m}
  <2>1. list[i] \in Elements(r)
    BY <1>1, <1>3 DEF Elements
  <2> HIDE DEF r
  <2>2. PICK j \in 1..Len(r) : r[j] = list[i]
    BY <2>1 DEF Elements
  <2>3. QED
    BY <2>2, <1>2 DEF r, Survives
<1>4. CASE r = list
  BY <1>1, <1>2, <1>4 DEF Survives
<1>5. ASSUME NEW k \in 1..Len(list), r = [list EXCEPT ![k].end = m.end],
             k < Len(list) => list[k].end < m.end
      PROVE  Survives(list[i], r)
  <2> DEFINE e == [list[k] EXCEPT !.end = m.end]
  <2>1. list[k] \in Match
    BY ElementOfSeq
  <2>2. e \in Match /\ e.start = list[k].start /\ e.base = list[k].base /\ e.end = m.end
    BY <1>2, <2>1 DEF Match
  <2>3. r = [list EXCEPT ![k] = e]
    BY <1>5
  <2> HIDE DEF e, r
  <2>4. Len(r) = Len(list) /\ r[i] = IF i = k THEN e ELSE list[i]
    BY <2>2, <2>3, <1>1, ExceptSeq
  <2>5. QED
    BY <2>2, <2>4, <1>1, <1>2, <1>5 DEF Survives
<1>6. QED
  <2>1. \/ Elements(r) = Elements(list) \cup {m}
        \/ r = list
        \/ \E k \in 1..Len(list) : /\ r = [list EXCEPT ![k].end = m.end]
                                   /\ k < Len(list) => list[k].end < m.end
    BY AddEffect, Zenon
  <2>2. QED
    BY <2>1, <1>3, <1>4, <1>5

\* The run of matches that matches_in_range counts, on any sorted list and for
\* any signed bounds.
LEMMA RangeCount ==
  ASSUME NEW list \in Seq(Match), SortedByStart(list), NEW lo \in Int, NEW hi \in Int
  PROVE  MatchesInRange(list, lo, hi)
           = Cardinality({i \in 1..Len(list) : list[i].start \in lo..hi})
<1> DEFINE n == Len(list)
<1> DEFINE S == {i \in 1..n : list[i].start \in lo..hi}
<1>1. n \in Nat /\ \A j \in 1..n : list[j].start \in Nat
  <2>1. n \in Nat /\ \A j \in 1..n : list[j] \in Match
    BY LenProperties, ElementOfSeq
  <2>2. QED
    BY <2>1 DEF Match
<1>2. CASE hi < 0
  <2>1. S = {}
    BY <1>1, <1>2
  <2>2. QED
    BY <1>2, <2>1, FS_EmptySet DEF MatchesInRange
<1>3. CASE hi >= 0
  <2> DEFINE from == IF lo < 0 THEN 0 ELSE lo
  <2> DEFINE first == SearchIndex(list, from)
  <2> DEFINE Ends(k) == /\ \A j \in first..(k - 1) : list[j].start <= hi
                        /\ k <= n => list[k].start > hi
  <2> DEFINE stop == CHOOSE k \in first..(n + 1) : Ends(k)
  <2>1. from \in Nat
    OBVIOUS
  <2>2. /\ first \in 1..(n + 1)
        /\ \A j \in 1..(first - 1) : list[j].start < from
        /\ \A j \in first..n : list[j].start >= from
    BY <2>1, SearchIndexProperties
  <2>3. MatchesInRange(list, lo, hi) = stop - first
    BY <1>3 DEF MatchesInRange
  <2> HIDE DEF first
  <2> DEFINE T == {k \in first..(n + 1) : k = n + 1 \/ list[k].start > hi}
  <2>4. PICK k \in T : \A x \in T : ~(x < k)
    <3>1. T \subseteq Nat /\ n + 1 \in T
      BY <1>1, <2>2
    <3>2. QED
      BY <3>1, LeastNat
  <2>5. k \in first..(n + 1) /\ Ends(k)
    <3>1. ASSUME NEW j \in first..(k - 1) PROVE list[j].start <= hi
      <4>1. j \in first..(n + 1) /\ j < k /\ j # n + 1 /\ list[j].start \in Nat
        BY <2>4, <2>2, <1>1
      <4>2. j \notin T
        BY <2>4, <4>1
      <4>3. QED
        BY <4>1, <4>2
    <3>2. QED
      BY <3>1, <2>4, <1>1
  <2> HIDE DEF Ends
  <2>6. stop \in first..(n + 1) /\ Ends(stop)
    BY <2>5
  <2> HIDE DEF stop, n
  <2>7. S = first..(stop - 1)
    <3>1. ASSUME NEW j \in first..(stop - 1) PROVE j \in 1..n /\ list[j].start \in lo..hi
      <4>1. j \in 1..n /\ j \in first..n
        BY <2>2, <2>6, <1>1
      <4>2. list[j].start \in Nat /\ list[j].start >= from /\ list[j].start <= hi
        BY <4>1, <1>1, <2>2, <2>6 DEF Ends
      <4>3. QED
        BY <4>1, <4>2
    <3>2. ASSUME NEW j \in 1..n, list[j].start \in lo..hi PROVE j \in first..(stop - 1)
      <4>1. list[j].start \in Nat /\ list[j].start >= from /\ list[j].start <= hi
        BY <3>2, <1>1
      <4>2. j >= first
        BY <4>1, <2>1, <2>2, <1>1
      <4>3. j < stop
        <5>1. SUFFICES ASSUME j >= stop PROVE FALSE
          BY <2>6, <2>2, <1>1
        <5>2. stop \in 1..n /\ stop <= n /\ list[stop].start > hi /\ list[stop].start \in Nat
          BY <5>1, <2>2, <2>6, <1>1 DEF Ends
        <5>3. list[stop].start <= list[j].start
          <6>1. CASE stop = j
            BY <6>1, <5>2
          <6>2. CASE stop < j
            BY <6>2, <5>2, <1>1, SMTT(30) DEF SortedByStart, n
          <6>3. QED
            BY <6>1, <6>2, <5>1, <5>2
        <5>4. QED
          BY <5>2, <5>3, <4>1
      <4>4. QED
        BY <4>2, <4>3, <2>2, <2>6, <1>1
    <3>3. QED
      BY <3>1, <3>2
  <2>8. first \in Int /\ stop - 1 \in Int /\ first <= stop
    BY <2>2, <2>6, <1>1
  <2>9. Cardinality(S) = stop - first
    <3>1. Cardinality(first..(stop - 1)) = IF first > stop - 1 THEN 0 ELSE (stop - 1) - first + 1
      BY <2>8, FS_Interval
    <3>2. stop \in Int
      BY <2>2, <2>6, <1>1
    <3>3. Cardinality(first..(stop - 1)) = stop - first
      BY <3>1, <3>2, <2>8
    <3> HIDE DEF S
    <3>4. QED
      BY <3>3, <2>7
  <2>10. QED
    BY <2>3, <2>9 DEF n
<1>4. QED
  BY <1>2, <1>3

\* A list seen as a map from starts to ends.
MapOf(list) ==
  [o \in Starts(list) |-> (CHOOSE m \in Elements(list) : m.start = o).end]

\* A sorted list has one match for each of its starts.
LEMMA MapOfElement ==
  ASSUME NEW list \in Seq(Match), SortedByStart(list), NEW x \in Elements(list)
  PROVE  x.start \in Starts(list) /\ MapOf(list)[x.start] = x.end
<1>1. PICK i \in 1..Len(list) : x = list[i]
  BY DEF Elements
<1>2. Len(list) \in Nat /\ \A j \in 1..Len(list) : list[j].start \in Nat
  <2>1. Len(list) \in Nat /\ \A j \in 1..Len(list) : list[j] \in Match
    BY LenProperties, ElementOfSeq
  <2>2. QED
    BY <2>1 DEF Match
<1>3. x.start \in Starts(list)
  BY <1>1 DEF Starts
<1>4. ASSUME NEW y \in Elements(list), y.start = x.start PROVE y = x
  <2>1. PICK j \in 1..Len(list) : y = list[j]
    BY DEF Elements
  <2>2. ~(i < j) /\ ~(j < i)
    BY <1>1, <1>2, <1>4, <2>1 DEF SortedByStart
  <2>3. i = j
    BY <2>2, <1>2
  <2>4. QED
    BY <1>1, <2>1, <2>3
<1>5. (CHOOSE m \in Elements(list) : m.start = x.start) = x
  BY <1>4
<1>6. QED
  BY <1>3, <1>5 DEF MapOf

\* Every start of a list is the start of one of its matches.
LEMMA StartOfElement ==
  ASSUME NEW list \in Seq(Match), NEW o \in Starts(list)
  PROVE  \E x \in Elements(list) : x.start = o
BY DEF Starts, Elements

\* A sorted list has as many matches as starts.
LEMMA StartsAreCounted ==
  ASSUME NEW list \in Seq(Match), SortedByStart(list)
  PROVE  Cardinality(Starts(list)) = Len(list)
<1> DEFINE n == Len(list)
<1> DEFINE f == [i \in 1..n |-> list[i].start]
<1>1. n \in Nat /\ \A i \in 1..n : list[i].start \in Nat
  <2>1. n \in Nat /\ \A j \in 1..n : list[j] \in Match
    BY LenProperties, ElementOfSeq
  <2>2. QED
    BY <2>1 DEF Match
<1>2. f \in [1..n -> Starts(list)] /\ \A t \in Starts(list) : \E i \in 1..n : f[i] = t
  BY DEF Starts
<1>3. ASSUME NEW i \in 1..n, NEW j \in 1..n, f[i] = f[j] PROVE i = j
  <2>1. ~(i < j) /\ ~(j < i)
    BY <1>1, <1>3 DEF SortedByStart
  <2>2. QED
    BY <1>1, <2>1
<1>4. f \in Bijection(1..n, Starts(list))
  <2> HIDE DEF f
  <2>1. QED
    BY <1>2, <1>3 DEF Bijection, Injection, Surjection, IsInjective
<1>5. IsFiniteSet(1..n) /\ Cardinality(1..n) = n
  <2>1. IsFiniteSet(1..n) /\ Cardinality(1..n) = IF 1 > n THEN 0 ELSE n - 1 + 1
    BY <1>1, FS_Interval
  <2>2. QED
    BY <2>1, <1>1
<1> HIDE DEF f
<1>6. ExistsBijection(1..n, Starts(list))
  BY <1>4 DEF ExistsBijection
<1>7. QED
  BY <1>5, <1>6, FS_Bijection

\* A known offset gets the new end: the call asks for it and the end is a later
\* one or the offset is the greatest.
MayReplace(list, m, replace) ==
  /\ replace
  /\ m.end > MapOf(list)[m.start] \/ \A o \in Starts(list) : o <= m.start

\* An addition seen as a change of the map: a new offset, the new end at a
\* known offset, or nothing.
LEMMA AddMaps ==
  ASSUME NEW list \in Seq(Match), SortedByStart(list), NEW m \in Match,
         NEW replace \in BOOLEAN
  PROVE  LET r == Add(list, m, replace) IN
           \/ /\ m.start \notin Starts(list)
              /\ MapOf(r) = [o \in Starts(list) \cup {m.start} |->
                               IF o = m.start THEN m.end ELSE MapOf(list)[o]]
           \/ m.start \in Starts(list) /\ r = list /\ ~MayReplace(list, m, replace)
           \/ /\ m.start \in Starts(list) /\ MayReplace(list, m, replace)
              /\ MapOf(r) = [MapOf(list) EXCEPT ![m.start] = m.end]
<1> DEFINE r == Add(list, m, replace)
<1>1. r \in Seq(Match) /\ SortedByStart(r) /\ Starts(r) = Starts(list) \cup {m.start}
  BY AddPreservesSorted
<1>2. CASE m.start \notin Starts(list) /\ Elements(r) = Elements(list) \cup {m}
  <2> HIDE DEF r
  <2>1. m \in Elements(r)
    BY <1>2
  <2>2. MapOf(r)[m.start] = m.end
    BY <2>1, <1>1, MapOfElement
  <2>3. ASSUME NEW o \in Starts(list) PROVE MapOf(r)[o] = MapOf(list)[o]
    <3>1. PICK x \in Elements(list) : x.start = o
      BY StartOfElement
    <3>2. MapOf(list)[x.start] = x.end
      BY MapOfElement
    <3>3. x \in Elements(r)
      BY <1>2
    <3>4. MapOf(r)[x.start] = x.end
      BY <3>3, <1>1, MapOfElement
    <3>5. QED
      BY <3>1, <3>2, <3>4
  <2>4. MapOf(r) = [o \in Starts(list) \cup {m.start} |-> MapOf(r)[o]]
    BY <1>1 DEF MapOf
  <2>5. MapOf(r) = [o \in Starts(list) \cup {m.start} |->
                      IF o = m.start THEN m.end ELSE MapOf(list)[o]]
    BY <2>2, <2>3, <2>4
  <2>6. QED
    BY <1>2, <2>5 DEF r
<1>3. ASSUME NEW k \in 1..Len(list), list[k].start = m.start, r = [list EXCEPT ![k].end = m.end]
      PROVE  m.start \in Starts(list) /\ MapOf(r) = [MapOf(list) EXCEPT ![m.start] = m.end]
  <2> DEFINE e == [list[k] EXCEPT !.end = m.end]
  <2>1. list[k] \in Match
    BY ElementOfSeq
  <2>2. e \in Match /\ e.start = m.start /\ e.end = m.end
    BY <1>3, <2>1 DEF Match
  <2>3. r = [list EXCEPT ![k] = e]
    BY <1>3
  <2> HIDE DEF e, r
  <2>4. Len(r) = Len(list) /\ \A j \in 1..Len(list) : r[j] = IF j = k THEN e ELSE list[j]
    BY <2>2, <2>3, ExceptSeq
  <2>5. m.start \in Starts(list)
    BY <1>3 DEF Starts
  <2>6. e \in Elements(r)
    BY <2>4 DEF Elements
  <2>7. MapOf(r)[m.start] = m.end
    BY <2>6, <2>2, <1>1, MapOfElement
  <2>8. ASSUME NEW o \in Starts(list), o # m.start PROVE MapOf(r)[o] = MapOf(list)[o]
    <3>1. PICK x \in Elements(list) : x.start = o
      BY StartOfElement
    <3>2. MapOf(list)[x.start] = x.end
      BY MapOfElement
    <3>3. x \in Elements(r)
      <4>1. PICK j \in 1..Len(list) : x = list[j]
        BY DEF Elements
      <4>2. j # k
        BY <4>1, <3>1, <2>8, <1>3
      <4>3. x = r[j]
        BY <4>1, <4>2, <2>4
      <4>4. QED
        BY <4>3, <2>4 DEF Elements
    <3>4. MapOf(r)[x.start] = x.end
      BY <3>3, <1>1, MapOfElement
    <3>5. QED
      BY <3>1, <3>2, <3>4
  <2>9. MapOf(r) = [o \in Starts(list) |-> MapOf(r)[o]] /\ DOMAIN MapOf(list) = Starts(list)
    <3>1. Starts(r) = Starts(list)
      BY <1>1, <2>5
    <3>2. QED
      BY <3>1 DEF MapOf
  <2>10. MapOf(r) = [MapOf(list) EXCEPT ![m.start] = m.end]
    BY <2>7, <2>8, <2>9, <2>5
  <2>11. QED
    BY <2>5, <2>10
<1>4. ASSUME NEW k \in 1..Len(list), list[k].start = m.start
      PROVE  /\ MapOf(list)[m.start] = list[k].end /\ list[k].end \in Nat /\ m.end \in Nat
             /\ (\A o \in Starts(list) : o <= m.start) <=> k = Len(list)
  <2>1. list[k] \in Elements(list) /\ list[k] \in Match
    BY ElementOfSeq DEF Elements
  <2>2. MapOf(list)[m.start] = list[k].end
    BY <1>4, <2>1, MapOfElement
  <2>3. Len(list) \in Nat /\ \A j \in 1..Len(list) : list[j].start \in Nat
    <3>1. Len(list) \in Nat /\ \A j \in 1..Len(list) : list[j] \in Match
      BY LenProperties, ElementOfSeq
    <3>2. QED
      BY <3>1 DEF Match
  <2>4. CASE k = Len(list)
    <3>1. ASSUME NEW j \in 1..Len(list) PROVE list[j].start <= m.start
      <4>1. j < k \/ j = k
        BY <2>3, <2>4
      <4>2. QED
        BY <1>4, <2>3, <4>1 DEF SortedByStart
    <3>2. QED
      BY <2>1, <2>2, <2>4, <3>1 DEF Starts, Match
  <2>5. CASE k # Len(list)
    <3>1. Len(list) \in 1..Len(list) /\ k < Len(list)
      BY <2>3, <2>5
    <3>2. list[Len(list)].start \in Starts(list) /\ list[k].start < list[Len(list)].start
      BY <3>1 DEF Starts, SortedByStart
    <3>3. ~(list[Len(list)].start <= m.start)
      BY <1>4, <2>3, <3>1, <3>2
    <3>4. QED
      BY <2>1, <2>2, <2>5, <3>2, <3>3 DEF Match
  <2>6. QED
    BY <2>4, <2>5
<1>5. QED
  <2>1. \/ m.start \notin Starts(list) /\ Elements(r) = Elements(list) \cup {m}
        \/ /\ m.start \in Starts(list) /\ r = list
           /\ replace => \E k \in 1..Len(list) : /\ list[k].start = m.start /\ list[k].end >= m.end
                                                  /\ k < Len(list)
        \/ \E k \in 1..Len(list) : /\ replace /\ list[k].start = m.start
                                   /\ r = [list EXCEPT ![k].end = m.end]
                                   /\ k < Len(list) => list[k].end < m.end
    BY AddEffect, Zenon
  <2>2. ASSUME m.start \in Starts(list), r = list,
               replace => \E k \in 1..Len(list) : /\ list[k].start = m.start /\ list[k].end >= m.end
                                                  /\ k < Len(list)
        PROVE  ~MayReplace(list, m, replace)
    <3>1. CASE ~replace
      BY <3>1 DEF MayReplace
    <3>2. CASE replace
      <4>1. PICK k \in 1..Len(list) : list[k].start = m.start /\ list[k].end >= m.end /\ k < Len(list)
        BY <2>2, <3>2
      <4>2. k # Len(list)
        BY <4>1, LenProperties
      <4>3. ~(m.end > MapOf(list)[m.start]) /\ ~(\A o \in Starts(list) : o <= m.start)
        BY <1>4, <4>1, <4>2
      <4>4. QED
        BY <4>3 DEF MayReplace
    <3>3. QED
      BY <3>1, <3>2
  <2>3. ASSUME NEW k \in 1..Len(list), replace, list[k].start = m.start,
               k < Len(list) => list[k].end < m.end
        PROVE  MayReplace(list, m, replace)
    <3>1. k < Len(list) \/ k = Len(list)
      BY LenProperties
    <3>2. QED
      BY <1>4, <2>3, <3>1 DEF MayReplace
  <2>4. QED
    BY <2>1, <2>2, <2>3, <1>2, <1>3

\* The empty list is the empty map.
LEMMA MapOfEmpty == MapOf(<<>>) = <<>>
<1>1. Starts(<<>>) = {}
  BY DEF Starts
<1>2. QED
  BY <1>1 DEF MapOf

\* What a list holds after an addition: what it held, or the new match.  A
\* match that is not replaced stays as it is; one that may be replaced does
\* not end before the new one does.
LEMMA AddEnds ==
  ASSUME NEW list \in Seq(Match), SortedByStart(list), NEW m \in Match,
         NEW replace \in BOOLEAN, NEW x \in Elements(Add(list, m, replace))
  PROVE  /\ x.start \in Nat /\ x.end \in Nat
         /\ \/ x \in Elements(list)
            \/ x.start = m.start /\ x.end = m.end /\ (~replace => m.start \notin Starts(list))
         /\ replace /\ x.start = m.start => x.end >= m.end
<1> DEFINE r == Add(list, m, replace)
<1>1. r \in Seq(Match) /\ SortedByStart(r)
  BY AddPreservesSorted
<1>2. PICK j \in 1..Len(r) : x = r[j]
  BY DEF Elements
<1>3. x \in Match /\ x.start \in Nat /\ x.end \in Nat /\ m.start \in Nat /\ m.end \in Nat
  <2>1. x \in Match
    BY <1>1, <1>2, ElementOfSeq
  <2>2. QED
    BY <2>1 DEF Match
<1>4. CASE m.start \notin Starts(list) /\ Elements(r) = Elements(list) \cup {m}
  <2>1. CASE x = m
    BY <1>3, <1>4, <2>1
  <2>2. CASE x \in Elements(list)
    <3>1. x.start \in Starts(list)
      BY <2>2, MapOfElement
    <3>2. QED
      BY <1>3, <1>4, <2>2, <3>1
  <2>3. QED
    BY <1>4, <2>1, <2>2
<1>5. CASE /\ m.start \in Starts(list) /\ r = list
           /\ replace => \E k \in 1..Len(list) : list[k].start = m.start /\ list[k].end >= m.end
  <2>1. x \in Elements(list)
    BY <1>5
  <2>2. ASSUME replace, x.start = m.start PROVE x.end >= m.end
    <3>1. PICK k \in 1..Len(list) : list[k].start = m.start /\ list[k].end >= m.end
      BY <1>5, <2>2
    <3>2. list[k] \in Elements(list)
      BY DEF Elements
    <3>3. MapOf(list)[m.start] = x.end /\ MapOf(list)[m.start] = list[k].end
      BY <2>1, <2>2, <3>1, <3>2, MapOfElement
    <3>4. QED
      BY <3>1, <3>3
  <2>3. QED
    BY <1>3, <2>1, <2>2
<1>6. ASSUME NEW k \in 1..Len(list), replace, list[k].start = m.start,
             r = [list EXCEPT ![k].end = m.end]
      PROVE  \/ x \in Elements(list) /\ x.start # m.start
             \/ x.start = m.start /\ x.end = m.end
  <2> DEFINE e == [list[k] EXCEPT !.end = m.end]
  <2>1. list[k] \in Match
    BY ElementOfSeq
  <2>2. e \in Match /\ e.start = list[k].start /\ e.end = m.end
    BY <1>3, <2>1 DEF Match
  <2>3. r = [list EXCEPT ![k] = e]
    BY <1>6
  <2> HIDE DEF e, r
  <2>4. Len(r) = Len(list) /\ r[j] = IF j = k THEN e ELSE list[j]
    BY <1>2, <2>2, <2>3, ExceptSeq
  <2>5. CASE j = k
    BY <1>2, <1>6, <2>2, <2>4, <2>5
  <2>6. CASE j # k
    <3>1. x = list[j] /\ j \in 1..Len(list) /\ Len(list) \in Nat
      BY <1>2, <2>4, <2>6, LenProperties
    <3>2. j < k \/ k < j
      BY <2>6, <3>1
    <3>3. list[j].start < list[k].start \/ list[k].start < list[j].start
      BY <3>1, <3>2 DEF SortedByStart
    <3>4. x.start # m.start
      BY <1>3, <1>6, <3>1, <3>3
    <3>5. QED
      BY <3>1, <3>4 DEF Elements
  <2>7. QED
    BY <2>5, <2>6
<1>7. QED
  <2>1. \/ m.start \notin Starts(list) /\ Elements(r) = Elements(list) \cup {m}
        \/ /\ m.start \in Starts(list) /\ r = list
           /\ replace => \E k \in 1..Len(list) : list[k].start = m.start /\ list[k].end >= m.end
        \/ \E k \in 1..Len(list) : /\ replace /\ list[k].start = m.start
                                   /\ r = [list EXCEPT ![k].end = m.end]
                                   /\ k < Len(list) => list[k].end < m.end
    BY AddEffect, Zenon
  <2>2. CASE \E k \in 1..Len(list) : /\ replace /\ list[k].start = m.start
                                     /\ r = [list EXCEPT ![k].end = m.end]
    <3>1. replace /\ (\/ x \in Elements(list) /\ x.start # m.start
                      \/ x.start = m.start /\ x.end = m.end)
      BY <1>6, <2>2
    <3>2. QED
      BY <1>3, <3>1
  <2>3. QED
    BY <1>4, <1>5, <2>1, <2>2

\* An addition keeps the start and the base of every match, and changes at most
\* the one that starts where the new one does.  There is a match at that start
\* afterwards, which reaches as far as the new one unless it may not be replaced.
LEMMA AddKeeps ==
  ASSUME NEW list \in Seq(Match), SortedByStart(list), NEW m \in Match, NEW replace \in BOOLEAN
  PROVE  LET r == Add(list, m, replace) IN
           /\ \A x \in Elements(list) : \E y \in Elements(r) :
                y.start = x.start /\ y.base = x.base /\ (x.start # m.start => y = x)
           /\ \E y \in Elements(r) :
                y.start = m.start /\ (y.end >= m.end \/ (~replace /\ y \in Elements(list)))
           /\ \A y \in Elements(r) :
                \/ y \in Elements(list) \/ y = m
                \/ /\ y.start = m.start /\ y.end = m.end
                   /\ \E x \in Elements(list) : x.start = y.start /\ y.base = x.base
<1> DEFINE r == Add(list, m, replace)
<1>1. Len(list) \in Nat /\ m.start \in Nat /\ m.end \in Nat
      /\ \A k \in 1..Len(list) : list[k] \in Match /\ list[k].start \in Nat /\ list[k].end \in Nat
  <2>1. Len(list) \in Nat /\ \A k \in 1..Len(list) : list[k] \in Match
    BY LenProperties, ElementOfSeq
  <2> QED
    BY <2>1 DEF Match
<1>2. \/ Elements(r) = Elements(list) \cup {m}
      \/ /\ m.start \in Starts(list) /\ r = list
         /\ replace => \E k \in 1..Len(list) : list[k].start = m.start /\ list[k].end >= m.end
      \/ \E k \in 1..Len(list) : list[k].start = m.start /\ r = [list EXCEPT ![k].end = m.end]
  BY AddEffect, Zenon
<1> HIDE DEF r
<1>3. CASE Elements(r) = Elements(list) \cup {m}
  <2>1. m \in Elements(r) /\ m.end >= m.end
    BY <1>1, <1>3
  <2> QED
    BY <1>3, <2>1 DEF r
<1>4. CASE /\ m.start \in Starts(list) /\ r = list
           /\ replace => \E k \in 1..Len(list) : list[k].start = m.start /\ list[k].end >= m.end
  <2>1. \E y \in Elements(list) : y.start = m.start /\ (y.end >= m.end \/ ~replace)
    <3>1. CASE replace
      BY <1>4, <3>1 DEF Elements
    <3>2. CASE ~replace
      BY <1>4, <3>2, StartOfElement
    <3> QED
      BY <3>1, <3>2
  <2> QED
    BY <1>4, <2>1 DEF r
<1>5. ASSUME NEW k \in 1..Len(list), list[k].start = m.start, r = [list EXCEPT ![k].end = m.end]
      PROVE  /\ \A x \in Elements(list) : \E y \in Elements(r) :
                  y.start = x.start /\ y.base = x.base /\ (x.start # m.start => y = x)
             /\ \E y \in Elements(r) : y.start = m.start /\ y.end >= m.end
             /\ \A y \in Elements(r) :
                  \/ y \in Elements(list)
                  \/ /\ y.start = m.start /\ y.end = m.end
                     /\ \E x \in Elements(list) : x.start = y.start /\ y.base = x.base
  <2> DEFINE e == [list[k] EXCEPT !.end = m.end]
  <2>0. list[k] \in Match
    BY <1>1
  <2>0a. e \in Match /\ e.start = list[k].start /\ e.base = list[k].base /\ e.end = m.end
    BY <2>0 DEF Match
  <2>1. e \in Match /\ e.start = m.start /\ e.base = list[k].base /\ e.end = m.end /\ e.end >= m.end
    <3> HIDE DEF e
    <3> QED
      BY <1>1, <1>5, <2>0a
  <2>2. r = [list EXCEPT ![k] = e]
    BY <1>5
  <2> HIDE DEF e
  <2>3. Len(r) = Len(list) /\ \A j \in 1..Len(list) : r[j] = IF j = k THEN e ELSE list[j]
    BY <2>1, <2>2, ExceptSeq
  <2>4. \A j \in 1..Len(list) : r[j] \in Elements(r) /\ list[j] \in Elements(list)
    BY <2>3 DEF Elements
  <2>5. ASSUME NEW x \in Elements(list)
        PROVE  \E y \in Elements(r) : y.start = x.start /\ y.base = x.base /\ (x.start # m.start => y = x)
    <3>1. PICK j \in 1..Len(list) : x = list[j]
      BY DEF Elements
    <3>2. CASE j = k
      BY <1>5, <2>1, <2>3, <2>4, <3>1, <3>2
    <3>3. CASE j # k
      BY <2>3, <2>4, <3>1, <3>3
    <3> QED
      BY <3>2, <3>3
  <2>6. ASSUME NEW y \in Elements(r)
        PROVE  \/ y \in Elements(list)
               \/ /\ y.start = m.start /\ y.end = m.end
                  /\ \E x \in Elements(list) : x.start = y.start /\ y.base = x.base
    <3>1. PICK j \in 1..Len(list) : y = r[j]
      BY <2>3 DEF Elements
    <3>2. CASE j = k
      BY <1>5, <2>1, <2>3, <2>4, <3>1, <3>2
    <3>3. CASE j # k
      BY <2>3, <2>4, <3>1, <3>3
    <3> QED
      BY <3>2, <3>3
  <2>7. \E y \in Elements(r) : y.start = m.start /\ y.end >= m.end
    BY <2>1, <2>3, <2>4
  <2> QED
    BY <2>5, <2>6, <2>7
<1>6. CASE \E k \in 1..Len(list) : list[k].start = m.start /\ r = [list EXCEPT ![k].end = m.end]
  BY <1>5, <1>6, Zenon DEF r
<1> QED
  BY <1>2, <1>3, <1>4, <1>6

=============================================================================
