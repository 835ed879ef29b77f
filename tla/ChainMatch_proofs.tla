---------------------------- MODULE ChainMatch_proofs ----------------------------
(***************************************************************************)
(* For any chain of links, gaps, lengths, limit and number of blocks, and  *)
(* links found in any order the search allows: the matches of the pattern  *)
(* are the chains in what was found (ChainsAreExact), with the right ends  *)
(* (EndIsTheRightOne).                                                     *)
(***************************************************************************)
EXTENDS ChainMatch, MatchList_proofs

-----------------------------------------------------------------------------
(* Induction, recursive functions and ranks                                *)

\* before[i] is the set of the elements before i in a linear order of S.
IsOrder(S, before) ==
  /\ IsFiniteSet(S) /\ before \in [S -> SUBSET S]
  /\ \A i \in S : i \notin before[i]
  /\ \A i, j \in S : i # j => i \in before[j] \/ j \in before[i]
  /\ \A i, j \in S : i \in before[j] => before[i] \subseteq before[j]

Ranked(S, before) ==
  [n \in 1..Cardinality(S) |-> CHOOSE i \in S : Cardinality(before[i]) = n - 1]

\* The elements of an ordered set listed by their rank are all of them.
LEMMA RankedIs ==
  ASSUME NEW S, NEW before, IsOrder(S, before)
  PROVE  LET q == Ranked(S, before)
         IN  /\ Cardinality(S) \in Nat /\ q \in [1..Cardinality(S) -> S]
             /\ \A i \in S : \E n \in 1..Cardinality(S) : q[n] = i
<1> DEFINE N == Cardinality(S)
           rank == [i \in S |-> Cardinality(before[i])]
           q == [n \in 1..N |-> CHOOSE i \in S : Cardinality(before[i]) = n - 1]
<1>1. IsFiniteSet(S) /\ N \in Nat
  BY FS_CardinalityType DEF IsOrder
<1>2. ASSUME NEW i \in S
      PROVE  IsFiniteSet(before[i]) /\ Cardinality(before[i]) \in 0..(N - 1)
  <2>1. before[i] \in SUBSET S /\ i \notin before[i] /\ i \in S
    BY DEF IsOrder
  <2>2. IsFiniteSet(before[i]) /\ Cardinality(before[i]) <= N /\ (N = Cardinality(before[i]) => S = before[i])
    BY <1>1, <2>1, FS_Subset, Zenon
  <2>3. S # before[i]
    BY <2>1, Zenon
  <2>4. Cardinality(before[i]) \in Nat
    BY <2>2, FS_CardinalityType
  <2> HIDE DEF N
  <2> QED
    BY <1>1, <2>2, <2>3, <2>4
<1>3. ASSUME NEW i \in S, NEW j \in S, i \in before[j]
      PROVE  Cardinality(before[i]) # Cardinality(before[j])
  <2>1. before[i] \in SUBSET before[j] /\ i \notin before[i]
    BY <1>3 DEF IsOrder
  <2>2. Cardinality(before[j]) = Cardinality(before[i]) => before[j] = before[i]
    BY <1>2, <2>1, FS_Subset
  <2> QED
    BY <1>3, <2>1, <2>2, Zenon
<1>4. ASSUME NEW i \in S, NEW j \in S, Cardinality(before[i]) = Cardinality(before[j]) PROVE i = j
  <2>1. i # j => i \in before[j] \/ j \in before[i]
    BY DEF IsOrder
  <2> QED
    BY <1>3, <1>4, <2>1, Zenon
<1>5. IsFiniteSet(0..(N - 1)) /\ Cardinality(0..(N - 1)) = N
  <2> HIDE DEF N
  <2>1. N - 1 \in Int /\ 0 \in Int
    BY <1>1
  <2>2. IsFiniteSet(0..(N - 1)) /\ Cardinality(0..(N - 1)) = IF 0 > N - 1 THEN 0 ELSE (N - 1) - 0 + 1
    BY <2>1, FS_Interval
  <2> QED
    BY <1>1, <2>2
<1>6. rank \in Injection(S, 0..(N - 1))
  <2>1. rank \in [S -> 0..(N - 1)]
    BY <1>2
  <2>2. \A i, j \in S : rank[i] = rank[j] => i = j
    BY <1>4
  <2> QED
    BY <2>1, <2>2 DEF Injection, IsInjective
<1>7. rank \in Surjection(S, 0..(N - 1))
  <2> HIDE DEF rank
  <2> QED
    BY <1>5, <1>6, FS_Injection
<1>8. ASSUME NEW n \in 1..N PROVE \E i \in S : Cardinality(before[i]) = n - 1
  <2>1. n - 1 \in 0..(N - 1)
    BY <1>1
  <2>2. \A t \in 0..(N - 1) : \E i \in S : rank[i] = t
    BY <1>7 DEF Surjection
  <2> QED
    BY <2>1, <2>2
<1>9. q \in [1..N -> S]
  BY <1>8
<1>10. ASSUME NEW i \in S PROVE \E n \in 1..N : q[n] = i
  <2> DEFINE n == Cardinality(before[i]) + 1
  <2>1. n \in 1..N /\ n - 1 = Cardinality(before[i])
    BY <1>1, <1>2
  <2>2. q[n] = i
    BY <1>4, <2>1
  <2> QED
    BY <2>1, <2>2
<1>11. q = Ranked(S, before)
  BY Zenon DEF Ranked
<1> HIDE DEF q
<1> QED
  BY <1>1, <1>9, <1>10, <1>11

-----------------------------------------------------------------------------
(* The queue of verify_chain_of_matches                                    *)

\* The types of the constants and of the vectors of unconfirmed matches.
VectorsOK == unconfirmed \in [1..(Links - 1) -> Seq(Unconfirmed)]

StartOf(k, j, start) == IF k = Links THEN start ELSE unconfirmed[k][j].start

\* The positions in the stretch of link k + 1 that push match i of link k.
From(k, later, start, i) ==
  {p \in 1..Len(later) : InGap(k + 1, unconfirmed[k][i], StartOf(k + 1, later[p], start))}

Pushed(k, later, start) ==
  {i \in 1..Len(unconfirmed[k]) :
     unconfirmed[k][i].chain_length <= Links - k /\ From(k, later, start, i) # {}}

\* A stretch of the queue holds the matches that are pushed, and no others.
LEMMA StretchIs ==
  ASSUME VectorsOK, NEW k \in 1..(Links - 1), NEW later, Len(later) \in Nat, NEW start
  PROVE  LET q == Stretch(k, later, start)
             S == Pushed(k, later, start)
         IN  /\ q \in Seq(Nat) /\ \A n \in 1..Len(q) : q[n] \in S
             /\ \A i \in S : \E n \in 1..Len(q) : q[n] = i
<1> DEFINE q == Stretch(k, later, start)
           S == Pushed(k, later, start)
           from(i) == From(k, later, start, i)
           first(i) == CHOOSE p \in from(i) : \A r \in from(i) : p <= r
           before == [i \in S |->
                        {j \in S : first(j) < first(i) \/ (first(j) = first(i) /\ j < i)}]
<1>1. Len(unconfirmed[k]) \in Nat
  <2>1. unconfirmed[k] \in Seq(Unconfirmed)
    BY DEF VectorsOK
  <2> QED
    BY <2>1, LenProperties
<1>2. q = Ranked(S, before)
  BY Zenon DEF Ranked, Stretch, Pushed, From, StartOf
<1>3. S \in SUBSET (1..Len(unconfirmed[k])) /\ IsFiniteSet(1..Len(unconfirmed[k]))
  <2>1. Len(unconfirmed[k]) \in Int /\ 1 \in Int
    BY <1>1
  <2>2. IsFiniteSet(1..Len(unconfirmed[k]))
    BY <2>1, FS_Interval
  <2> QED
    BY <2>2 DEF Pushed
<1>4. ASSUME NEW i \in S PROVE first(i) \in Nat
  <2>1. from(i) \subseteq Nat /\ from(i) # {}
    BY DEF Pushed, From
  <2>2. PICK p \in from(i) : \A r \in from(i) : ~(r < p)
    BY <2>1, LeastNat
  <2>3. \A r \in from(i) : p <= r
    BY <2>1, <2>2
  <2>4. first(i) \in from(i)
    BY <2>3
  <2> QED
    BY <2>1, <2>4
<1>5. ASSUME NEW i \in S PROVE i \in Nat
  BY <1>1, <1>3
<1>6. IsOrder(S, before)
  <2>1. IsFiniteSet(S)
    BY <1>3, FS_Subset
  <2> HIDE DEF S, first
  <2>2. before \in [S -> SUBSET S]
    OBVIOUS
  <2>3. \A i \in S : i \notin before[i]
    BY <1>4, <1>5
  <2>4. \A i, j \in S : i # j => i \in before[j] \/ j \in before[i]
    BY <1>4, <1>5
  <2>5. ASSUME NEW i \in S, NEW j \in S, i \in before[j], NEW x \in before[i] PROVE x \in before[j]
    <3>1. /\ x \in S /\ (first(x) < first(i) \/ (first(x) = first(i) /\ x < i))
          /\ (first(i) < first(j) \/ (first(i) = first(j) /\ i < j))
      BY <2>5
    <3>2. first(x) < first(j) \/ (first(x) = first(j) /\ x < j)
      BY <1>4, <1>5, <3>1
    <3> QED
      BY <3>1, <3>2
  <2> HIDE DEF before
  <2> QED
    BY <2>1, <2>2, <2>3, <2>4, <2>5, Zenon DEF IsOrder
<1> HIDE DEF q, S, before
<1>7. /\ Cardinality(S) \in Nat /\ q \in [1..Cardinality(S) -> S]
      /\ \A i \in S : \E n \in 1..Cardinality(S) : q[n] = i
  BY <1>2, <1>6, RankedIs
<1>8. q \in Seq(Nat) /\ Len(q) = Cardinality(S)
  <2>1. q \in [1..Cardinality(S) -> Nat]
    BY <1>5, <1>7
  <2> QED
    BY <1>7, <2>1
<1> QED
  BY <1>7, <1>8 DEF q, S

\* The queue satisfies its recursive definition.
LEMMA QueueIs ==
  ASSUME VectorsOK, NEW start
  PROVE  LET Q == ConfirmedBy(start)
         IN  /\ Q \in [1..Links -> Seq(Nat)] /\ Q[Links] = <<1>>
             /\ \A k \in 1..(Links - 1) : Q[k] = Stretch(k, Q[k + 1], start)
<1> DEFINE Q == ConfirmedBy(start)
           N == Links - 1
           D == Seq(Nat)
           step == [n \in 1..N |-> [d \in D |-> Stretch(Links - n, d, start)]]
           Body(g, k) == IF k = Links THEN <<1>> ELSE Stretch(k, g[k + 1], start)
<1>1. Links \in Nat /\ Links >= 2 /\ N \in Nat
  BY ChainAssumption
<1>2. \A k \in 1..(Links - 1), d \in D : Stretch(k, d, start) \in D
  BY StretchIs, LenProperties
<1>3. step \in [1..N -> [D -> D]]
  <2>1. ASSUME NEW n \in 1..N PROVE [d \in D |-> Stretch(Links - n, d, start)] \in [D -> D]
    <3>1. Links - n \in 1..(Links - 1)
      BY <1>1
    <3> QED
      BY <1>2, <3>1
  <2> QED
    BY <2>1
<1>4. <<1>> \in D
  OBVIOUS
<1>5. \A n \in 1..N : \A d \in D : step[n][d] = Stretch(Links - n, d, start)
  OBVIOUS
<1> HIDE DEF step, D, N
<1>6. PICK f \in [0..N -> D] : f[0] = <<1>> /\ \A n \in 1..N : f[n] = step[n][f[n - 1]]
  <2>1. PICK b : b = <<1>>
    BY Zenon
  <2>2. b \in D
    BY <1>4, <2>1, Zenon
  <2>3. \E f : IsRecursive(f, D, N, b, step)
    BY <1>1, <1>3, <2>2, RecursionExists
  <2> QED
    BY <2>1, <2>3, Zenon DEF IsRecursive
<1> DEFINE g == [k \in 1..Links |-> f[Links - k]]
<1>7. ASSUME NEW k \in 1..Links PROVE Links - k \in 0..N /\ g[k] = f[Links - k] /\ g[k] \in D
  <2>1. Links - k \in 0..N
    BY <1>1 DEF N
  <2> QED
    BY <2>1
<1>8. ASSUME NEW k \in 1..Links PROVE g[k] = Body(g, k)
  <2>1. CASE k = Links
    <3>1. Links - k = 0
      BY <1>1, <2>1
    <3> QED
      BY <1>6, <1>7, <2>1, <3>1
  <2>2. CASE k # Links
    <3>1. /\ Links - k \in 1..N /\ k + 1 \in 1..Links /\ (Links - k) - 1 = Links - (k + 1)
          /\ Links - (Links - k) = k
      BY <1>1, <2>2 DEF N
    <3>2. f[Links - k] = step[Links - k][f[(Links - k) - 1]]
      BY <1>6, <3>1
    <3>3. f[(Links - k) - 1] = g[k + 1] /\ g[k + 1] \in D
      BY <1>7, <3>1
    <3>4. step[Links - k][g[k + 1]] = Stretch(k, g[k + 1], start)
      BY <1>5, <3>1, <3>3
    <3> HIDE DEF g
    <3>5. g[k] = Stretch(k, g[k + 1], start)
      BY <1>7, <3>2, <3>3, <3>4
    <3> QED
      BY <2>2, <3>5
  <2> QED
    BY <2>1, <2>2
<1>9. g = [k \in 1..Links |-> g[k]]
  OBVIOUS
<1> HIDE DEF g
<1>10. g = [k \in 1..Links |-> Body(g, k)]
  BY <1>8, <1>9, Zenon
<1>11. Q = [k \in 1..Links |-> Body(Q, k)]
  <2>1. Q = CHOOSE h : h = [k \in 1..Links |-> Body(h, k)]
    BY Zenon DEF ConfirmedBy
  <2> HIDE DEF Q
  <2> QED
    BY <1>10, <2>1, Zenon
<1> HIDE DEF Q
<1>12. \A k \in 1..Links : Q[k] = Body(Q, k)
  BY <1>11
<1>13. Q[Links] = <<1>> /\ \A k \in 1..(Links - 1) : Q[k] = Stretch(k, Q[k + 1], start)
  <2>1. Links \in 1..Links /\ \A k \in 1..(Links - 1) : k \in 1..Links /\ k # Links
    BY <1>1
  <2> QED
    BY <1>12, <2>1
<1>14. ASSUME NEW k \in 1..Links PROVE Q[k] \in D
  <2> DEFINE S == {n \in 0..N : Q[Links - n] \in D}
  <2>1. 0 \in S
    BY <1>1, <1>4, <1>13
  <2>2. ASSUME NEW n \in 0..(N - 1), n \in S PROVE n + 1 \in S
    <3>1. /\ n + 1 \in 0..N /\ Links - (n + 1) \in 1..(Links - 1)
          /\ (Links - (n + 1)) + 1 = Links - n
      BY <1>1 DEF N
    <3>2. Q[Links - (n + 1)] = Stretch(Links - (n + 1), Q[Links - n], start)
      BY <1>13, <3>1
    <3>3. Q[Links - n] \in D
      BY <2>2
    <3>4. Q[Links - (n + 1)] \in D
      BY <1>2, <3>1, <3>2, <3>3
    <3> QED
      BY <3>1, <3>4
  <2> HIDE DEF S
  <2>3. 0..N \subseteq S
    BY <1>1, <2>1, <2>2, UpTo
  <2>4. Links - k \in S /\ Links - (Links - k) = k
    BY <1>1, <2>3 DEF N
  <2> QED
    BY <2>4 DEF S
<1>15. Q \in [1..Links -> D]
  BY <1>11, <1>14
<1> QED
  BY <1>13, <1>15 DEF Q, D

-----------------------------------------------------------------------------
(* track_match for the heads of the queue                                  *)

Limit == IF MaxMatches = 0 THEN 1 ELSE MaxMatches

HeadMatch(h, base, end) == [base |-> base, start |-> unconfirmed[1][h].start, end |-> end]

TrackOne(t, h, base, end) ==
  IF t.list # <<>> /\ Len(t.list) >= MaxMatches
  THEN [t EXCEPT !.disabled = TRUE]
  ELSE [t EXCEPT !.list = Add(@, HeadMatch(h, base, end), greedy)]

Tracks == [list : Seq(Match), disabled : BOOLEAN]

\* What has become of the list of matches when the first n heads are tracked.
Tracked(t, heads, end, n) ==
  /\ t \in Tracks /\ SortedByStart(t.list) /\ Len(t.list) <= Limit
  /\ Starts(matches) \subseteq Starts(t.list)
  /\ ~t.disabled => \A i \in 1..n : unconfirmed[1][heads[i]].start \in Starts(t.list)
  /\ \A x \in Elements(t.list) :
       /\ x.start \in Nat /\ x.end \in Nat
       /\ \/ x \in Elements(matches)
          \/ /\ x.end = end /\ \E i \in 1..n : x.start = unconfirmed[1][heads[i]].start
             /\ ~greedy => x.start \notin Starts(matches)
       /\ greedy /\ ~t.disabled =>
            \A i \in 1..n : x.start = unconfirmed[1][heads[i]].start => x.end >= end

\* The state that TrackMatches begins with.
TrackStart ==
  /\ VectorsOK /\ greedy \in BOOLEAN /\ disabled \in BOOLEAN
  /\ matches \in Seq(Match) /\ SortedByStart(matches) /\ Len(matches) <= Limit

LEMMA HeadIsMatch ==
  ASSUME TrackStart, NEW h \in 1..Len(unconfirmed[1]), NEW base \in Nat, NEW end \in Nat
  PROVE  /\ HeadMatch(h, base, end) \in Match /\ unconfirmed[1][h].start \in Nat
         /\ HeadMatch(h, base, end).start = unconfirmed[1][h].start
         /\ HeadMatch(h, base, end).end = end
<1>1. Links \in Nat /\ Links >= 2
  BY ChainAssumption
<1>2. unconfirmed[1] \in Seq(Unconfirmed)
  BY <1>1 DEF TrackStart, VectorsOK
<1>3. unconfirmed[1][h] \in Unconfirmed
  BY <1>2, ElementOfSeq
<1>4. unconfirmed[1][h].start \in Nat
  BY <1>3 DEF Unconfirmed
<1> QED
  BY <1>4 DEF HeadMatch, Match

\* The type of one step.
LEMMA TrackOneType ==
  ASSUME TrackStart, NEW t \in Tracks, SortedByStart(t.list),
         NEW h \in 1..Len(unconfirmed[1]), NEW base \in Nat, NEW end \in Nat
  PROVE  LET m == HeadMatch(h, base, end)
             u == TrackOne(t, h, base, end)
         IN  /\ u \in Tracks /\ SortedByStart(u.list)
             /\ \/ u.list = t.list /\ u.disabled = TRUE
                \/ /\ u.list = Add(t.list, m, greedy) /\ u.disabled = t.disabled
                   /\ t.list = <<>> \/ ~(Len(t.list) >= MaxMatches)
<1> DEFINE m == HeadMatch(h, base, end)
           u == TrackOne(t, h, base, end)
<1>1. m \in Match
  BY HeadIsMatch
<1>2. t = [list |-> t.list, disabled |-> t.disabled] /\ t.list \in Seq(Match) /\ t.disabled \in BOOLEAN
  BY DEF Tracks
<1>3. CASE t.list # <<>> /\ Len(t.list) >= MaxMatches
  <2>1. u = [t EXCEPT !.disabled = TRUE]
    BY <1>3, Zenon DEF TrackOne
  <2>2. u = [list |-> t.list, disabled |-> TRUE]
    BY <1>2, <2>1
  <2> HIDE DEF u
  <2>3. u \in Tracks /\ u.list = t.list /\ u.disabled = TRUE
    BY <1>2, <2>2 DEF Tracks
  <2> QED
    BY <2>3 DEF u
<1>4. CASE ~(t.list # <<>> /\ Len(t.list) >= MaxMatches)
  <2> DEFINE r == Add(t.list, m, greedy)
  <2>1. r \in Seq(Match) /\ SortedByStart(r)
    BY <1>1, <1>2, AddPreservesSorted DEF TrackStart
  <2>2. u = [t EXCEPT !.list = r]
    BY <1>4, Zenon DEF TrackOne
  <2> HIDE DEF r, u
  <2>3. u = [list |-> r, disabled |-> t.disabled]
    BY <1>2, <2>2
  <2>4. u \in Tracks /\ u.list = r /\ u.disabled = t.disabled
    BY <1>2, <2>1, <2>3 DEF Tracks
  <2> QED
    BY <1>4, <2>1, <2>4 DEF r, u
<1> QED
  BY <1>3, <1>4

LEMMA TrackOneIs ==
  ASSUME TrackStart, NEW heads, NEW base \in Nat, NEW end \in Nat, NEW n \in Nat,
         heads[n + 1] \in 1..Len(unconfirmed[1]), NEW t, Tracked(t, heads, end, n)
  PROVE  Tracked(TrackOne(t, heads[n + 1], base, end), heads, end, n + 1)
<1> DEFINE h == heads[n + 1]
           m == HeadMatch(h, base, end)
           u == TrackOne(t, h, base, end)
           s == unconfirmed[1][h].start
<1>1. m \in Match /\ s \in Nat /\ m.start = s /\ m.end = end
  BY HeadIsMatch
<1>2. t \in Tracks /\ t.list \in Seq(Match) /\ SortedByStart(t.list) /\ Len(t.list) \in Nat
  BY LenProperties DEF Tracked, Tracks
<1>3. /\ u \in Tracks /\ SortedByStart(u.list)
      /\ \/ u.list = t.list /\ u.disabled = TRUE
         \/ /\ u.list = Add(t.list, m, greedy) /\ u.disabled = t.disabled
            /\ t.list = <<>> \/ ~(Len(t.list) >= MaxMatches)
  BY <1>2, TrackOneType
<1>4. greedy \in BOOLEAN /\ MaxMatches \in Nat
  BY ChainAssumption DEF TrackStart
<1>5. \A i \in 1..(n + 1) : i \in 1..n \/ i = n + 1
  OBVIOUS
<1>6. \A i \in 1..n : i \in 1..(n + 1)
  OBVIOUS
<1>7. n + 1 \in 1..(n + 1)
  OBVIOUS
<1> HIDE DEF u, m
<1>8. ASSUME u.list = t.list /\ u.disabled = TRUE
      PROVE  Tracked(u, heads, end, n + 1)
  <2>1. ASSUME NEW x \in Elements(t.list)
        PROVE  /\ x.start \in Nat /\ x.end \in Nat
               /\ \/ x \in Elements(matches)
                  \/ /\ x.end = end /\ \E i \in 1..(n + 1) : x.start = unconfirmed[1][heads[i]].start
                     /\ ~greedy => x.start \notin Starts(matches)
    BY <1>6 DEF Tracked
  <2>2. Len(t.list) <= Limit /\ Starts(matches) \subseteq Starts(t.list)
    BY DEF Tracked
  <2> QED
    BY <1>3, <1>8, <2>1, <2>2 DEF Tracked
<1>9. ASSUME /\ u.list = Add(t.list, m, greedy) /\ u.disabled = t.disabled
             /\ t.list = <<>> \/ ~(Len(t.list) >= MaxMatches)
      PROVE  Tracked(u, heads, end, n + 1)
  <2> DEFINE r == Add(t.list, m, greedy)
  <2>1. Len(r) \in {Len(t.list), Len(t.list) + 1} /\ Starts(r) = Starts(t.list) \cup {s}
    BY <1>1, <1>2, <1>4, AddPreservesSorted
  <2>2. Len(u.list) <= Limit
    <3>1. Len(t.list) <= Limit /\ Limit \in Nat /\ (t.list = <<>> => Len(t.list) = 0)
      BY <1>4 DEF Tracked, Limit
    <3> HIDE DEF r
    <3>2. Len(u.list) = Len(t.list) \/ Len(u.list) = Len(t.list) + 1
      BY <1>9, <2>1 DEF r
    <3>3. Len(t.list) + 1 <= Limit
      BY <1>2, <1>4, <1>9, <3>1 DEF Limit
    <3> QED
      BY <1>2, <3>1, <3>2, <3>3
  <2>3. Starts(u.list) = Starts(t.list) \cup {s} /\ Starts(matches) \subseteq Starts(t.list)
    BY <1>9, <2>1 DEF Tracked
  <2>4. ~u.disabled => \A i \in 1..(n + 1) : unconfirmed[1][heads[i]].start \in Starts(u.list)
    <3>1. ~u.disabled => \A i \in 1..n : unconfirmed[1][heads[i]].start \in Starts(t.list)
      BY <1>9 DEF Tracked
    <3> QED
      BY <1>5, <2>3, <3>1
  <2>5. ASSUME NEW x \in Elements(u.list)
        PROVE  /\ x.start \in Nat /\ x.end \in Nat
               /\ \/ x \in Elements(matches)
                  \/ /\ x.end = end /\ \E i \in 1..(n + 1) : x.start = unconfirmed[1][heads[i]].start
                     /\ ~greedy => x.start \notin Starts(matches)
               /\ greedy /\ ~u.disabled =>
                    \A i \in 1..(n + 1) : x.start = unconfirmed[1][heads[i]].start => x.end >= end
    <3>1. /\ x.start \in Nat /\ x.end \in Nat
          /\ \/ x \in Elements(t.list)
             \/ x.start = m.start /\ x.end = m.end /\ (~greedy => m.start \notin Starts(t.list))
          /\ greedy /\ x.start = m.start => x.end >= m.end
      BY <1>1, <1>2, <1>4, <1>9, <2>5, AddEnds
    <3>2. CASE x \in Elements(t.list)
      <4>1. /\ \/ x \in Elements(matches)
               \/ /\ x.end = end /\ \E i \in 1..n : x.start = unconfirmed[1][heads[i]].start
                  /\ ~greedy => x.start \notin Starts(matches)
            /\ greedy /\ ~u.disabled =>
                 \A i \in 1..n : x.start = unconfirmed[1][heads[i]].start => x.end >= end
        BY <1>9, <3>2 DEF Tracked
      <4>2. ASSUME greedy, ~u.disabled, NEW i \in 1..(n + 1), x.start = unconfirmed[1][heads[i]].start
            PROVE  x.end >= end
        <5>1. CASE i = n + 1
          BY <1>1, <3>1, <4>2, <5>1
        <5>2. CASE i \in 1..n
          BY <4>1, <4>2, <5>2
        <5> QED
          BY <1>5, <5>1, <5>2
      <4> QED
        BY <1>6, <3>1, <4>1, <4>2
    <3>3. CASE x.start = m.start /\ x.end = m.end /\ (~greedy => m.start \notin Starts(t.list))
      <4>1. x.end = end /\ x.start = unconfirmed[1][heads[n + 1]].start /\ x.end >= end
        BY <1>1, <3>1, <3>3
      <4>2. ~greedy => x.start \notin Starts(matches)
        BY <2>3, <3>3
      <4> QED
        BY <1>7, <3>1, <4>1, <4>2
    <3> QED
      BY <3>1, <3>2, <3>3
  <2> QED
    BY <1>3, <2>2, <2>3, <2>4, <2>5 DEF Tracked
<1>10. Tracked(u, heads, end, n + 1)
  BY <1>3, <1>8, <1>9
<1> QED
  BY <1>10 DEF u

LEMMA TrackedAtFirst ==
  ASSUME TrackStart, NEW heads, NEW end
  PROVE  Tracked([list |-> matches, disabled |-> disabled], heads, end, 0)
<1> DEFINE t == [list |-> matches, disabled |-> disabled]
<1>1. t \in Tracks /\ t.list = matches /\ t.disabled = disabled
  BY DEF Tracks, TrackStart
<1> HIDE DEF t
<1>2. ASSUME NEW x \in Elements(matches) PROVE x.start \in Nat /\ x.end \in Nat
  <2>1. PICK i \in 1..Len(matches) : x = matches[i]
    BY DEF Elements
  <2>2. x \in Match
    BY <2>1, ElementOfSeq DEF TrackStart
  <2> QED
    BY <2>2 DEF Match
<1>3. \A i \in 1..0 : FALSE
  OBVIOUS
<1>4. Tracked(t, heads, end, 0)
  BY <1>1, <1>2, <1>3 DEF Tracked, TrackStart
<1> QED
  BY <1>4 DEF t

LEMMA TrackMatchesIs ==
  ASSUME TrackStart, NEW heads, Len(heads) \in Nat,
         \A n \in 1..Len(heads) : heads[n] \in 1..Len(unconfirmed[1]),
         NEW base \in Nat, NEW end \in Nat
  PROVE  Tracked(TrackMatches(heads, base, end), heads, end, Len(heads))
<1> DEFINE N == Len(heads)
           b == [list |-> matches, disabled |-> disabled]
           D == {t \in Tracks : SortedByStart(t.list)}
           step == [n \in 1..N |-> [t \in D |-> TrackOne(t, heads[n], base, end)]]
           Body(g, n) == IF n = 0 THEN b ELSE TrackOne(g[n - 1], heads[n], base, end)
           T == CHOOSE g : g = [n \in 0..N |-> Body(g, n)]
<1>1. TrackMatches(heads, base, end) = T[N]
  BY Zenon DEF TrackMatches, TrackOne, HeadMatch
<1>2. Tracked(b, heads, end, 0)
  BY TrackedAtFirst
<1> HIDE DEF b
<1>3. b \in D
  BY <1>2 DEF Tracked
<1>4. step \in [1..N -> [D -> D]]
  <2>1. ASSUME NEW n \in 1..N, NEW t \in D PROVE TrackOne(t, heads[n], base, end) \in D
    BY TrackOneType
  <2> HIDE DEF D
  <2> QED
    BY <2>1
<1>5. \A n \in 1..N : \A t \in D : step[n][t] = TrackOne(t, heads[n], base, end)
  OBVIOUS
<1> HIDE DEF step, D
<1>6. \E f : IsRecursive(f, D, N, b, step)
  BY <1>3, <1>4, RecursionExists
<1>7. PICK f : f \in [0..N -> D] /\ f[0] = b /\ \A n \in 1..N : f[n] = step[n][f[n - 1]]
  BY <1>6, Zenon DEF IsRecursive
<1>8. ASSUME NEW n \in 0..N PROVE f[n] = Body(f, n)
  <2>1. CASE n = 0
    BY <1>7, <2>1
  <2>2. CASE n # 0
    <3>1. n \in 1..N /\ n - 1 \in 0..N
      BY <2>2
    <3>2. f[n - 1] \in D
      BY <1>7, <3>1
    <3> QED
      BY <1>5, <1>7, <2>2, <3>1, <3>2
  <2> QED
    BY <2>1, <2>2
<1>9. f = [n \in 0..N |-> f[n]]
  BY <1>7
<1>10. f = [n \in 0..N |-> Body(f, n)]
  BY <1>8, <1>9, Zenon
<1>11. T = [n \in 0..N |-> Body(T, n)]
  BY <1>10, Zenon
<1> HIDE DEF T
<1>12. \A n \in 0..N : T[n] = Body(T, n)
  BY <1>11
<1> DEFINE S == {n \in 0..N : Tracked(T[n], heads, end, n)}
<1>13. 0 \in S
  <2>1. 0 \in 0..N
    OBVIOUS
  <2>2. T[0] = b
    BY <1>12, <2>1
  <2> QED
    BY <1>2, <2>1, <2>2
<1>14. ASSUME NEW n \in 0..(N - 1), n \in S PROVE n + 1 \in S
  <2>1. n \in Nat /\ n + 1 \in 0..N /\ n + 1 # 0 /\ (n + 1) - 1 = n /\ n + 1 \in 1..N
    OBVIOUS
  <2>2. T[n + 1] = TrackOne(T[n], heads[n + 1], base, end)
    BY <1>12, <2>1
  <2>3. Tracked(T[n], heads, end, n) /\ heads[n + 1] \in 1..Len(unconfirmed[1])
    BY <1>14, <2>1
  <2>4. Tracked(TrackOne(T[n], heads[n + 1], base, end), heads, end, n + 1)
    BY <2>1, <2>3, TrackOneIs
  <2> QED
    BY <2>1, <2>2, <2>4
<1>15. N \in S
  <2> HIDE DEF S
  <2>1. 0..N \subseteq S
    BY <1>13, <1>14, UpTo
  <2> QED
    BY <2>1
<1> QED
  BY <1>1, <1>15

-----------------------------------------------------------------------------
(* The inductive invariant                                                 *)

Item == [link : 1..Links, block : 1..Blocks, start : Nat, end : Nat]

Here(n) == found[n].block = block

SameRange(a, b) == a.start = b.start /\ a.end = b.end

\* Match i of link k was pushed by an earlier tail.
Marked(k, i) == unconfirmed[k][i].chain_length > Links - k

\* What was found at position n is among the unconfirmed matches of its link.
Kept(n) ==
  \E i \in 1..Len(unconfirmed[found[n].link]) : SameRange(unconfirmed[found[n].link][i], found[n])

Ranges == \A n \in 1..Len(found) : found[n].start < found[n].end /\ found[n].block <= block

\* Unconfirmed matches are matches of their link in the current block.
UnconfirmedFound ==
  \A k \in 1..(Links - 1) : \A i \in 1..Len(unconfirmed[k]) :
    \E n \in 1..Len(found) : found[n].link = k /\ Here(n) /\ SameRange(unconfirmed[k][i], found[n])

\* A link that continues a chain of matches that are kept is kept.
LinksKept ==
  \A n \in 1..Len(found) : Here(n) /\ found[n].link < Links =>
    /\ found[n].link = 1 => Kept(n)
    /\ \A m \in 1..Len(found) :
         Here(m) /\ found[m].link = found[n].link - 1 /\ Kept(m)
           /\ InGap(found[n].link, found[m], found[n].start) => Kept(n)

\* What comes before a match that was pushed was pushed.
MarksClosed ==
  \A k \in 2..(Links - 1) : \A i \in 1..Len(unconfirmed[k]), j \in 1..Len(unconfirmed[k - 1]) :
    Marked(k, i) /\ InGap(k, unconfirmed[k - 1][j], unconfirmed[k][i].start) => Marked(k - 1, j)

\* A head that was pushed is a match of the pattern; a greedy pattern has none.
HeadsTracked ==
  ~disabled => \A i \in 1..Len(unconfirmed[1]) :
    Marked(1, i) => ~greedy /\ unconfirmed[1][i].start \in Starts(matches)

\* A match of the pattern is a chain.
Sound ==
  \A x \in Elements(matches) :
    \E c \in Chains : found[c[1]].start = x.start /\ found[c[Links]].end = x.end

\* A chain is a match of the pattern.
Complete == ~disabled => \A c \in Chains : found[c[1]].start \in Starts(matches)

VectorsInv == Ranges /\ UnconfirmedFound /\ LinksKept /\ MarksClosed /\ HeadsTracked

IInv == TypeOK /\ SortedByStart(matches) /\ VectorsInv /\ Sound /\ Complete /\ EndIsTheRightOne

-----------------------------------------------------------------------------
(* A link is found                                                         *)

\* What the search says of a match of a link, and what is recorded of it.
Founds(k, start, end) ==
  /\ k \in 1..Links /\ start \in Nat /\ end \in Nat /\ start < end
  /\ ~disabled /\ InOrder(end)
  /\ found' = Append(found, [link |-> k, block |-> block, start |-> start, end |-> end])
  /\ UNCHANGED <<greedy, block>>

LEMMA Constants ==
  /\ Links \in Nat /\ Links >= 2 /\ MaxMatches \in Nat /\ Blocks \in Nat /\ BlockSize \in Nat
  /\ 1 \in 1..(Links - 1) /\ 1 \in 1..Links /\ Links \in 1..Links /\ Links - 1 \in 1..(Links - 1)
  /\ \A k \in 2..Links : Gap[k].min \in Nat /\ Gap[k].max \in Nat
<1>1. /\ Links \in Nat /\ Links >= 2 /\ MaxMatches \in Nat /\ Blocks \in Nat /\ BlockSize \in Nat
      /\ Gap \in [2..Links -> [min : Nat, max : Nat]]
  BY ChainAssumption
<1>2. \A k \in 2..Links : Gap[k].min \in Nat /\ Gap[k].max \in Nat
  BY <1>1
<1> QED
  BY <1>1, <1>2

LEMMA FoundNext ==
  ASSUME TypeOK, NEW k, NEW start, NEW end, Founds(k, start, end)
  PROVE  /\ Len(found) \in Nat /\ Len(found') = Len(found) + 1 /\ found' \in Seq(Item)
         /\ \A n \in 1..Len(found) : found[n] \in Item /\ found'[n] = found[n]
         /\ found'[Len(found) + 1] = [link |-> k, block |-> block, start |-> start, end |-> end]
         /\ found'[Len(found) + 1].link = k /\ found'[Len(found) + 1].block = block
         /\ found'[Len(found) + 1].start = start /\ found'[Len(found) + 1].end = end
         /\ \A n \in 1..(Len(found) + 1) : n \in 1..Len(found) \/ n = Len(found) + 1
         /\ \A n \in 1..Len(found) : n \in 1..(Len(found) + 1) /\ n # Len(found) + 1
         /\ Len(found) + 1 \in 1..(Len(found) + 1)
<1> DEFINE e == [link |-> k, block |-> block, start |-> start, end |-> end]
<1>1. found \in Seq(Item) /\ e \in Item
  BY DEF TypeOK, Item, Founds
<1>2. found' = Append(found, e)
  BY DEF Founds
<1>7. e.link = k /\ e.block = block /\ e.start = start /\ e.end = end
  OBVIOUS
<1> HIDE DEF e
<1>3. Len(found) \in Nat
  BY <1>1, LenProperties
<1>4. \A n \in 1..Len(found) : found[n] \in Item
  BY <1>1, ElementOfSeq
<1>5. /\ Len(found') = Len(found) + 1 /\ found' \in Seq(Item) /\ found'[Len(found) + 1] = e
      /\ \A n \in 1..Len(found) : found'[n] = found[n]
  BY <1>1, <1>2, AppendProperties
<1>6. /\ \A n \in 1..(Len(found) + 1) : n \in 1..Len(found) \/ n = Len(found) + 1
      /\ \A n \in 1..Len(found) : n \in 1..(Len(found) + 1) /\ n # Len(found) + 1
      /\ Len(found) + 1 \in 1..(Len(found) + 1)
  BY <1>3
<1>8. found'[Len(found) + 1] = [link |-> k, block |-> block, start |-> start, end |-> end]
  BY <1>5, Zenon DEF e
<1> QED
  BY <1>3, <1>4, <1>5, <1>6, <1>7, <1>8

\* The types of what was found and of what is kept of it.
LEMMA ItemIs ==
  ASSUME TypeOK, Ranges, NEW n \in 1..Len(found)
  PROVE  /\ found[n].link \in 1..Links /\ found[n].start \in Nat /\ found[n].end \in Nat
         /\ found[n].start < found[n].end /\ found[n].block \in Nat
<1>1. found[n] \in Item
  BY ElementOfSeq DEF TypeOK, Item
<1> QED
  BY <1>1 DEF Item, Ranges

LEMMA VectorIs ==
  ASSUME TypeOK, NEW k \in 1..(Links - 1)
  PROVE  /\ unconfirmed[k] \in Seq(Unconfirmed) /\ Len(unconfirmed[k]) \in Nat
         /\ \A i \in 1..Len(unconfirmed[k]) :
              /\ unconfirmed[k][i] \in Unconfirmed
              /\ unconfirmed[k][i].start \in Nat /\ unconfirmed[k][i].end \in Nat
              /\ unconfirmed[k][i].chain_length \in 0..Links
<1>1. unconfirmed[k] \in Seq(Unconfirmed)
  BY DEF TypeOK
<1>2. \A i \in 1..Len(unconfirmed[k]) : unconfirmed[k][i] \in Unconfirmed
  BY <1>1, ElementOfSeq
<1> QED
  BY <1>1, <1>2, LenProperties DEF Unconfirmed

\* Nothing found before, in this block, comes after what is found now.
LEMMA NotBefore ==
  ASSUME TypeOK, Ranges, NEW end \in Nat, InOrder(end), NEW n \in 1..Len(found), Here(n),
         NEW m, m.end = end, NEW k \in 2..Links
  PROVE  ~InGap(k, m, found[n].start)
<1>1. found[n].start \in Nat /\ found[n].start < end
  BY ItemIs DEF InOrder, Here
<1>2. Gap[k].min \in Nat
  BY Constants
<1> QED
  BY <1>1, <1>2 DEF InGap

\* InGap looks at the end of the match before only.
LEMMA InGapSame ==
  ASSUME NEW k, NEW a, NEW b, SameRange(a, b), NEW start, InGap(k, a, start)
  PROVE  InGap(k, b, start)
BY DEF InGap, SameRange

\* A match that is kept and comes before another is within distance of it.
LEMMA Within ==
  ASSUME TypeOK, Ranges, NEW k \in 2..Links, NEW start \in Nat, NEW n \in 1..Len(found),
         found[n].link = k - 1, Kept(n), InGap(k, found[n], start)
  PROVE  WithinValidDistance(k, start)
<1>1. PICK i \in 1..Len(unconfirmed[k - 1]) : SameRange(unconfirmed[k - 1][i], found[n])
  BY DEF Kept
<1> DEFINE m == unconfirmed[k - 1][i]
<1>2. m.start = found[n].start /\ m.end = found[n].end
  BY <1>1 DEF SameRange
<1>3. found[n].start \in Nat /\ found[n].end \in Nat /\ found[n].start < found[n].end
  BY ItemIs
<1>4. Gap[k].min \in Nat
  BY Constants
<1>5. InGap(k, m, start)
  BY <1>2 DEF InGap
<1>6. m.start + Gap[k].min <= start
  BY <1>2, <1>3, <1>4, <1>5 DEF InGap
<1>7. IF Gap[k].max = Unbounded THEN m.start + Gap[k].min <= start ELSE InGap(k, m, start)
  BY <1>5, <1>6
<1> QED
  BY <1>7 DEF WithinValidDistance

-----------------------------------------------------------------------------
(* The chains in what was found, after a link is found                     *)

IsChain(F, c) ==
  /\ c \in [1..Links -> 1..Len(F)]
  /\ \A k \in 1..Links : F[c[k]].link = k /\ F[c[k]].block = F[c[1]].block
  /\ \A k \in 2..Links : InGap(k, F[c[k - 1]], F[c[k]].start)

LEMMA ChainsAre == Chains = {c \in [1..Links -> 1..Len(found)] : IsChain(found, c)}
BY DEF Chains, IsChain

LEMMA InChains == \A c : c \in Chains <=> IsChain(found, c)
BY DEF Chains, IsChain

LEMMA InChainsNext == \A c : c \in Chains' <=> IsChain(found', c)
BY DEF Chains, IsChain

\* A chain but for its last link, all of it in the current block.
ButLast(c) ==
  /\ \A j \in 1..(Links - 1) : c[j] \in 1..Len(found) /\ found[c[j]].link = j /\ Here(c[j])
  /\ \A j \in 2..(Links - 1) : InGap(j, found[c[j - 1]], found[c[j]].start)

\* No chain is lost.
LEMMA OldChain ==
  ASSUME TypeOK, NEW k, NEW start, NEW end, Founds(k, start, end), NEW c \in Chains
  PROVE  /\ c \in Chains' /\ c[1] \in 1..Len(found) /\ c[Links] \in 1..Len(found)
         /\ found'[c[1]] = found[c[1]] /\ found'[c[Links]] = found[c[Links]]
<1>1. IsChain(found, c)
  BY InChains
<1>2. \A j \in 1..Links : c[j] \in 1..Len(found)
  BY <1>1 DEF IsChain
<1>3. \A j \in 1..Links : c[j] \in 1..Len(found') /\ found'[c[j]] = found[c[j]]
  BY <1>2, FoundNext
<1>4. \A j \in 2..Links : j \in 1..Links /\ j - 1 \in 1..Links
  BY Constants
<1>5. c \in [1..Links -> 1..Len(found')]
  BY <1>1, <1>3 DEF IsChain
<1>6. IsChain(found', c)
  <2>1. \A j \in 1..Links : found'[c[j]].link = j /\ found'[c[j]].block = found'[c[1]].block
    BY <1>1, <1>3, Constants DEF IsChain
  <2>2. ASSUME NEW j \in 2..Links PROVE InGap(j, found'[c[j - 1]], found'[c[j]].start)
    <3>1. found'[c[j - 1]] = found[c[j - 1]] /\ found'[c[j]] = found[c[j]]
      BY <1>3, <1>4
    <3> QED
      BY <1>1, <3>1 DEF IsChain
  <2> QED
    BY <1>5, <2>1, <2>2 DEF IsChain
<1> QED
  BY <1>2, <1>3, <1>6, InChainsNext, Constants

\* A new chain ends in what is found now.
LEMMA NewChain ==
  ASSUME TypeOK, Ranges, NEW k, NEW start, NEW end, Founds(k, start, end), NEW c \in Chains'
  PROVE  \/ c \in Chains
         \/ /\ k = Links /\ c[Links] = Len(found) + 1 /\ ButLast(c)
            /\ InGap(Links, found[c[Links - 1]], start)
<1> DEFINE N == Len(found) + 1
<1>1. IsChain(found', c)
  BY InChainsNext
<1>2. /\ Len(found) \in Nat /\ Len(found') = N
      /\ \A n \in 1..Len(found) : found'[n] = found[n]
      /\ found'[N].link = k /\ found'[N].block = block /\ found'[N].start = start /\ found'[N].end = end
      /\ \A n \in 1..N : n \in 1..Len(found) \/ n = N
  BY FoundNext
<1>3. k \in 1..Links /\ end \in Nat /\ InOrder(end)
  BY DEF Founds
<1> HIDE DEF N
<1>4. \A j \in 1..Links : c[j] \in 1..N /\ found'[c[j]].link = j /\ found'[c[j]].block = found'[c[1]].block
  BY <1>1, <1>2 DEF IsChain
<1>5. \A j \in 2..Links : InGap(j, found'[c[j - 1]], found'[c[j]].start)
  BY <1>1 DEF IsChain
<1>6. CASE \A j \in 1..Links : c[j] \in 1..Len(found)
  <2>1. \A j \in 1..Links : found'[c[j]] = found[c[j]]
    BY <1>2, <1>6
  <2>2. \A j \in 2..Links : j \in 1..Links /\ j - 1 \in 1..Links
    BY Constants
  <2>3. c \in [1..Links -> 1..Len(found)]
    BY <1>1, <1>6 DEF IsChain
  <2>4. \A j \in 1..Links : found[c[j]].link = j /\ found[c[j]].block = found[c[1]].block
    BY <1>4, <2>1, Constants
  <2>5. \A j \in 2..Links : InGap(j, found[c[j - 1]], found[c[j]].start)
    BY <1>5, <2>1, <2>2
  <2>6. IsChain(found, c)
    BY <2>3, <2>4, <2>5 DEF IsChain
  <2> QED
    BY <2>6, InChains
<1>7. ASSUME NEW j \in 1..Links, c[j] \notin 1..Len(found)
      PROVE  /\ k = Links /\ c[Links] = N /\ ButLast(c)
             /\ InGap(Links, found[c[Links - 1]], start)
  <2>1. c[j] = N /\ j = k
    BY <1>2, <1>4, <1>7
  <2>2. ASSUME NEW i \in 1..Links, i # k
        PROVE  c[i] \in 1..Len(found) /\ found'[c[i]] = found[c[i]] /\ found[c[i]].link = i /\ Here(c[i])
    <3>1. c[i] # N
      BY <1>2, <1>4, <2>2
    <3>2. c[i] \in 1..Len(found)
      BY <1>2, <1>4, <3>1
    <3>3. found'[c[i]].block = block
      BY <1>2, <1>4, <2>1
    <3> QED
      BY <1>2, <1>4, <3>2, <3>3 DEF Here
  <2>3. k = Links
    <3> SUFFICES ASSUME k # Links PROVE FALSE
      OBVIOUS
    <3>1. k + 1 \in 1..Links /\ k + 1 # k /\ k + 1 \in 2..Links /\ (k + 1) - 1 = k
      BY <1>3, Constants
    <3>2. InGap(k + 1, found'[c[k]], found'[c[k + 1]].start)
      BY <1>5, <3>1
    <3>3. c[k + 1] \in 1..Len(found) /\ found'[c[k + 1]] = found[c[k + 1]] /\ Here(c[k + 1])
      BY <2>2, <3>1
    <3>4. found'[c[k]].end = end
      BY <1>2, <2>1
    <3>5. ~InGap(k + 1, found'[c[k]], found[c[k + 1]].start)
      BY <1>3, <3>1, <3>3, <3>4, NotBefore
    <3> QED
      BY <3>2, <3>3, <3>5
  <2>4. \A i \in 1..(Links - 1) : i \in 1..Links /\ i # k
    BY <2>3, Constants
  <2>5. \A i \in 2..(Links - 1) : i \in 2..Links /\ i - 1 \in 1..(Links - 1) /\ i \in 1..(Links - 1)
    BY Constants
  <2>6. ButLast(c)
    <3>1. \A i \in 1..(Links - 1) :
            c[i] \in 1..Len(found) /\ found[c[i]].link = i /\ Here(c[i]) /\ found'[c[i]] = found[c[i]]
      BY <2>2, <2>4
    <3>2. ASSUME NEW i \in 2..(Links - 1) PROVE InGap(i, found[c[i - 1]], found[c[i]].start)
      <4>1. InGap(i, found'[c[i - 1]], found'[c[i]].start)
        BY <1>5, <2>5
      <4>2. found'[c[i - 1]] = found[c[i - 1]] /\ found'[c[i]] = found[c[i]]
        BY <2>5, <3>1
      <4> QED
        BY <4>1, <4>2
    <3> QED
      BY <3>1, <3>2 DEF ButLast
  <2>7. InGap(Links, found[c[Links - 1]], start)
    <3>1. Links \in 2..Links /\ Links - 1 \in 1..Links /\ Links - 1 # k
      BY <2>3, Constants
    <3>2. InGap(Links, found'[c[Links - 1]], found'[c[Links]].start)
      BY <1>5, <3>1
    <3>3. found'[c[Links - 1]] = found[c[Links - 1]] /\ found'[c[Links]].start = start
      BY <1>2, <2>1, <2>2, <2>3, <3>1
    <3> QED
      BY <3>2, <3>3
  <2> QED
    BY <2>1, <2>3, <2>6, <2>7
<1> QED
  BY <1>6, <1>7 DEF N

-----------------------------------------------------------------------------
(* A tail confirms the chains that it completes                            *)

\* The links of a chain in the current block are kept.
LEMMA ChainKept ==
  ASSUME TypeOK, LinksKept, NEW c, ButLast(c)
  PROVE  \A j \in 1..(Links - 1) : Kept(c[j])
<1> DEFINE S == {n \in 0..(Links - 2) : Kept(c[n + 1])}
<1>1. Links \in Nat /\ Links - 2 \in Nat
  BY Constants
<1>2. \A j \in 1..(Links - 1) : c[j] \in 1..Len(found) /\ found[c[j]].link = j /\ Here(c[j])
  BY DEF ButLast
<1>3. \A j \in 2..(Links - 1) : InGap(j, found[c[j - 1]], found[c[j]].start)
  BY DEF ButLast
<1>4. 0 \in S
  <2>1. 1 \in 1..(Links - 1) /\ 1 < Links /\ 0 \in 0..(Links - 2) /\ 0 + 1 = 1
    BY <1>1
  <2>2. Kept(c[1])
    BY <1>2, <2>1 DEF LinksKept
  <2> QED
    BY <2>1, <2>2
<1>5. ASSUME NEW n \in 0..(Links - 2 - 1), n \in S PROVE n + 1 \in S
  <2> DEFINE i == n + 1
             j == n + 2
  <2>1. /\ i \in 1..(Links - 1) /\ j \in 1..(Links - 1) /\ j \in 2..(Links - 1) /\ j - 1 = i /\ j < Links
        /\ n + 1 \in 0..(Links - 2) /\ (n + 1) + 1 = j
    BY <1>1
  <2>2. Kept(c[i])
    BY <1>5
  <2> HIDE DEF i, j
  <2>3. InGap(j, found[c[i]], found[c[j]].start)
    BY <1>3, <2>1
  <2>4. /\ c[i] \in 1..Len(found) /\ found[c[i]].link = i /\ Here(c[i])
        /\ c[j] \in 1..Len(found) /\ found[c[j]].link = j /\ Here(c[j])
    BY <1>2, <2>1
  <2>5. Kept(c[j])
    BY <2>1, <2>2, <2>3, <2>4 DEF LinksKept
  <2>6. n + 1 \in 0..(Links - 2) /\ Kept(c[(n + 1) + 1])
    BY <2>1, <2>5
  <2> QED
    BY <2>6
<1> HIDE DEF S
<1>6. 0..(Links - 2) \subseteq S
  BY <1>1, <1>4, <1>5, UpTo
<1>7. ASSUME NEW j \in 1..(Links - 1) PROVE Kept(c[j])
  <2>1. j - 1 \in 0..(Links - 2) /\ (j - 1) + 1 = j
    BY <1>1
  <2>2. j - 1 \in S
    BY <1>6, <2>1
  <2>3. Kept(c[(j - 1) + 1])
    BY <2>2 DEF S
  <2> QED
    BY <2>1, <2>3
<1> QED
  BY <1>7

InQueue(Q, k, i) == \E n \in 1..Len(Q[k]) : Q[k][n] = i

\* Q is the queue of a tail at `start`.
IsQueue(Q, start) ==
  /\ Q \in [1..Links -> Seq(Nat)] /\ Q[Links] = <<1>>
  /\ \A k \in 1..(Links - 1) :
       /\ \A i \in 1..Len(unconfirmed[k]) :
            InQueue(Q, k, i) <=> /\ unconfirmed[k][i].chain_length <= Links - k
                                 /\ \E p \in 1..Len(Q[k + 1]) :
                                      InGap(k + 1, unconfirmed[k][i], StartOf(k + 1, Q[k + 1][p], start))
       /\ \A n \in 1..Len(Q[k]) : Q[k][n] \in 1..Len(unconfirmed[k])

LEMMA ConfirmedByIs ==
  ASSUME TypeOK, NEW start
  PROVE  IsQueue(ConfirmedBy(start), start)
<1> DEFINE Q == ConfirmedBy(start)
<1>1. VectorsOK
  BY DEF TypeOK, VectorsOK
<1>2. /\ Q \in [1..Links -> Seq(Nat)] /\ Q[Links] = <<1>>
      /\ \A k \in 1..(Links - 1) : Q[k] = Stretch(k, Q[k + 1], start)
  BY <1>1, QueueIs
<1> HIDE DEF Q
<1>3. ASSUME NEW k \in 1..(Links - 1)
      PROVE  /\ \A i \in 1..Len(unconfirmed[k]) :
                  InQueue(Q, k, i) <=> /\ unconfirmed[k][i].chain_length <= Links - k
                                       /\ \E p \in 1..Len(Q[k + 1]) :
                                            InGap(k + 1, unconfirmed[k][i], StartOf(k + 1, Q[k + 1][p], start))
             /\ \A n \in 1..Len(Q[k]) : Q[k][n] \in 1..Len(unconfirmed[k])
  <2> DEFINE S == Pushed(k, Q[k + 1], start)
  <2>1. k + 1 \in 1..Links
    BY Constants
  <2>2. Q[k + 1] \in Seq(Nat)
    BY <1>2, <2>1
  <2>3. Len(Q[k + 1]) \in Nat
    BY <2>2, LenProperties
  <2>4. /\ \A n \in 1..Len(Stretch(k, Q[k + 1], start)) : Stretch(k, Q[k + 1], start)[n] \in S
        /\ \A i \in S : \E n \in 1..Len(Stretch(k, Q[k + 1], start)) : Stretch(k, Q[k + 1], start)[n] = i
    BY <1>1, <2>3, StretchIs
  <2>5. /\ \A n \in 1..Len(Q[k]) : Q[k][n] \in S
        /\ \A i \in S : \E n \in 1..Len(Q[k]) : Q[k][n] = i
    BY <1>2, <2>4, Zenon
  <2>6. \A i : i \in S <=> /\ i \in 1..Len(unconfirmed[k])
                           /\ unconfirmed[k][i].chain_length <= Links - k
                           /\ \E p \in 1..Len(Q[k + 1]) :
                                InGap(k + 1, unconfirmed[k][i], StartOf(k + 1, Q[k + 1][p], start))
    BY DEF Pushed, From
  <2> HIDE DEF S
  <2>7. \A i : InQueue(Q, k, i) <=> i \in S
    BY <2>5, Zenon DEF InQueue
  <2> QED
    BY <2>5, <2>6, <2>7, Zenon
<1>4. IsQueue(Q, start)
  BY <1>2, <1>3, Zenon DEF IsQueue
<1> QED
  BY <1>4 DEF Q

\* What comes before a match of the queue, or before the tail, is pushed now
\* or was pushed before.
LEMMA PushedBefore ==
  ASSUME TypeOK, NEW start, NEW Q, IsQueue(Q, start), NEW k \in 1..(Links - 1),
         NEW i \in 1..Len(unconfirmed[k]), NEW p \in 1..Len(Q[k + 1]),
         InGap(k + 1, unconfirmed[k][i], StartOf(k + 1, Q[k + 1][p], start))
  PROVE  InQueue(Q, k, i) \/ Marked(k, i)
<1>1. unconfirmed[k][i].chain_length <= Links - k \/ Marked(k, i)
  BY VectorIs, Constants DEF Marked
<1> QED
  BY <1>1 DEF IsQueue

\* The head of a chain that a tail completes is pushed, or was before.
LEMMA Confirms ==
  ASSUME TypeOK, LinksKept, MarksClosed, NEW start \in Nat, NEW Q, IsQueue(Q, start),
         NEW c, ButLast(c), InGap(Links, found[c[Links - 1]], start)
  PROVE  \E h \in 1..Len(unconfirmed[1]) :
           unconfirmed[1][h].start = found[c[1]].start /\ (InQueue(Q, 1, h) \/ Marked(1, h))
<1> DEFINE R(j) == \E i \in 1..Len(unconfirmed[j]) :
                     SameRange(unconfirmed[j][i], found[c[j]]) /\ (InQueue(Q, j, i) \/ Marked(j, i))
           S == {n \in 0..(Links - 2) : R(Links - 1 - n)}
<1>1. Links \in Nat /\ Links - 2 \in Nat
  BY Constants
<1>2. \A j \in 1..(Links - 1) : c[j] \in 1..Len(found) /\ found[c[j]].link = j /\ Here(c[j])
  BY DEF ButLast
<1>3. \A j \in 2..(Links - 1) : InGap(j, found[c[j - 1]], found[c[j]].start)
  BY DEF ButLast
<1>4. ASSUME NEW j \in 1..(Links - 1)
      PROVE  \E i \in 1..Len(unconfirmed[j]) : SameRange(unconfirmed[j][i], found[c[j]])
  BY <1>2, ChainKept DEF Kept
<1>5. R(Links - 1)
  <2> DEFINE k == Links - 1
  <2>1. k \in 1..(Links - 1) /\ k + 1 = Links
    BY <1>1
  <2>2. PICK i \in 1..Len(unconfirmed[k]) : SameRange(unconfirmed[k][i], found[c[k]])
    BY <1>4, <2>1
  <2> HIDE DEF k
  <2>3. Q[k + 1] = <<1>>
    BY <2>1 DEF IsQueue
  <2>4. 1 \in 1..Len(Q[k + 1])
    BY <2>3
  <2>5. SameRange(found[c[k]], unconfirmed[k][i]) /\ InGap(k + 1, found[c[k]], start)
    BY <2>1, <2>2 DEF SameRange, k
  <2>6. InGap(k + 1, unconfirmed[k][i], start)
    BY <2>5, InGapSame
  <2>7. StartOf(k + 1, Q[k + 1][1], start) = start
    BY <2>1 DEF StartOf
  <2>8. InQueue(Q, k, i) \/ Marked(k, i)
    BY <2>1, <2>4, <2>6, <2>7, PushedBefore
  <2> QED
    BY <2>2, <2>8 DEF k
<1>6. ASSUME NEW k \in 1..(Links - 1), k # Links - 1, R(k + 1) PROVE R(k)
  <2>1. /\ k + 1 \in 1..(Links - 1) /\ k + 1 \in 2..(Links - 1) /\ (k + 1) - 1 = k /\ k + 1 # Links
    BY <1>1, <1>6
  <2>2. PICK i \in 1..Len(unconfirmed[k]) : SameRange(unconfirmed[k][i], found[c[k]])
    BY <1>4
  <2>3. PICK j \in 1..Len(unconfirmed[k + 1]) :
          /\ SameRange(unconfirmed[k + 1][j], found[c[k + 1]])
          /\ InQueue(Q, k + 1, j) \/ Marked(k + 1, j)
    BY <1>6
  <2>4. InGap(k + 1, found[c[k]], found[c[k + 1]].start)
    BY <1>3, <2>1
  <2>5. InGap(k + 1, unconfirmed[k][i], unconfirmed[k + 1][j].start)
    <3>1. SameRange(found[c[k]], unconfirmed[k][i]) /\ unconfirmed[k + 1][j].start = found[c[k + 1]].start
      BY <2>2, <2>3 DEF SameRange
    <3> QED
      BY <2>4, <3>1, InGapSame
  <2>6. CASE InQueue(Q, k + 1, j)
    <3>1. PICK p \in 1..Len(Q[k + 1]) : Q[k + 1][p] = j
      BY <2>6 DEF InQueue
    <3>2. StartOf(k + 1, Q[k + 1][p], start) = unconfirmed[k + 1][j].start
      BY <2>1, <3>1 DEF StartOf
    <3>3. InQueue(Q, k, i) \/ Marked(k, i)
      BY <2>5, <3>2, PushedBefore
    <3> QED
      BY <2>2, <3>3
  <2>7. CASE Marked(k + 1, j)
    <3>1. Marked(k, i)
      BY <2>1, <2>5, <2>7 DEF MarksClosed
    <3> QED
      BY <2>2, <3>1
  <2> QED
    BY <2>3, <2>6, <2>7
<1> HIDE DEF R
<1>7. 0 \in S
  <2>1. 0 \in 0..(Links - 2) /\ Links - 1 - 0 = Links - 1
    BY <1>1
  <2> QED
    BY <1>5, <2>1
<1>8. ASSUME NEW n \in 0..(Links - 2 - 1), n \in S PROVE n + 1 \in S
  <2> DEFINE k == Links - 1 - (n + 1)
  <2>1. k \in 1..(Links - 1) /\ k # Links - 1 /\ k + 1 = Links - 1 - n /\ n + 1 \in 0..(Links - 2)
    BY <1>1
  <2>2. R(Links - 1 - n)
    BY <1>8
  <2>3. R(k + 1)
    BY <2>1, <2>2
  <2>4. R(k)
    BY <1>6, <2>1, <2>3
  <2> QED
    BY <2>1, <2>4
<1> HIDE DEF S
<1>9. 0..(Links - 2) \subseteq S
  BY <1>1, <1>7, <1>8, UpTo
<1>10. Links - 2 \in S /\ Links - 1 - (Links - 2) = 1
  BY <1>1, <1>9
<1>11. R(1)
  BY <1>10 DEF S
<1> QED
  BY <1>11 DEF R, SameRange

\* From link k on, c is a chain in F that ends at position N.
IsTailOf(F, c, k, N, b) ==
  /\ c \in [1..Links -> 1..N] /\ c[Links] = N
  /\ \A j \in k..Links : F[c[j]].link = j /\ F[c[j]].block = b
  /\ \A j \in (k + 1)..Links : InGap(j, F[c[j - 1]], F[c[j]].start)

\* A match of the queue is on a chain that the tail completes.
LEMMA QueueSound ==
  ASSUME TypeOK, UnconfirmedFound, NEW start, NEW end, Founds(Links, start, end),
         NEW Q, IsQueue(Q, start), NEW h, InQueue(Q, 1, h)
  PROVE  \E c \in Chains' : /\ found'[c[1]].start = unconfirmed[1][h].start
                            /\ c[Links] = Len(found) + 1
<1> DEFINE N == Len(found) + 1
           F == found'
           R(k) == \A i : InQueue(Q, k, i) =>
                     \E c : IsTailOf(F, c, k, N, block) /\ F[c[k]].start = StartOf(k, i, start)
           S == {n \in 0..(Links - 1) : R(Links - n)}
<1>1. Links \in Nat /\ Links - 1 \in Nat /\ Links >= 2
  BY Constants
<1>2. /\ Len(found) \in Nat /\ Len(F) = N /\ N \in 1..N
      /\ \A n \in 1..Len(found) : F[n] = found[n] /\ n \in 1..N
      /\ F[N].link = Links /\ F[N].block = block /\ F[N].start = start
  BY FoundNext
<1> HIDE DEF F, N
<1>3. R(Links)
  <2> SUFFICES ASSUME NEW i, InQueue(Q, Links, i)
               PROVE  \E c : IsTailOf(F, c, Links, N, block) /\ F[c[Links]].start = StartOf(Links, i, start)
    OBVIOUS
  <2> DEFINE c == [j \in 1..Links |-> N]
  <2>1. c \in [1..Links -> 1..N] /\ c[Links] = N
    BY <1>1, <1>2
  <2> HIDE DEF c
  <2>2. \A j \in Links..Links : j = Links
    BY <1>1
  <2>3. \A j \in (Links + 1)..Links : FALSE
    BY <1>1
  <2>4. IsTailOf(F, c, Links, N, block)
    BY <1>2, <2>1, <2>2, <2>3 DEF IsTailOf
  <2>5. F[c[Links]].start = StartOf(Links, i, start)
    BY <1>2, <2>1 DEF StartOf
  <2> QED
    BY <2>4, <2>5
<1>4. ASSUME NEW k \in 1..(Links - 1), R(k + 1) PROVE R(k)
  <2> SUFFICES ASSUME NEW i, InQueue(Q, k, i)
               PROVE  \E c : IsTailOf(F, c, k, N, block) /\ F[c[k]].start = StartOf(k, i, start)
    OBVIOUS
  <2>1. i \in 1..Len(unconfirmed[k])
    BY DEF InQueue, IsQueue
  <2>2. PICK p \in 1..Len(Q[k + 1]) :
          InGap(k + 1, unconfirmed[k][i], StartOf(k + 1, Q[k + 1][p], start))
    BY <2>1 DEF IsQueue
  <2>3. InQueue(Q, k + 1, Q[k + 1][p])
    BY DEF InQueue
  <2>4. PICK c : /\ IsTailOf(F, c, k + 1, N, block)
                 /\ F[c[k + 1]].start = StartOf(k + 1, Q[k + 1][p], start)
    BY <1>4, <2>3
  <2>5. PICK n \in 1..Len(found) : /\ found[n].link = k /\ Here(n)
                                   /\ SameRange(unconfirmed[k][i], found[n])
    BY <2>1 DEF UnconfirmedFound
  <2> DEFINE d == [c EXCEPT ![k] = n]
  <2>6. /\ k \in 1..Links /\ k # Links /\ Links \in 1..Links /\ k \in Nat /\ k + 1 # k
        /\ \A j \in k..Links : j \in 1..Links /\ (j = k \/ (j \in (k + 1)..Links /\ j # k))
        /\ \A j \in (k + 1)..Links :
             j \in 1..Links /\ j - 1 \in 1..Links /\ j # k /\ (j = k + 1 \/ (j \in (k + 1 + 1)..Links /\ j - 1 # k))
        /\ (k + 1) - 1 = k
    BY <1>1
  <2>7. c \in [1..Links -> 1..N] /\ c[Links] = N
    BY <2>4 DEF IsTailOf
  <2>8. d \in [1..Links -> 1..N] /\ d[Links] = N /\ d[k] = n /\ \A j \in 1..Links : j # k => d[j] = c[j]
    BY <1>2, <2>6, <2>7
  <2> HIDE DEF d
  <2>9. F[n] = found[n] /\ F[n].link = k /\ F[n].block = block
    BY <1>2, <2>5 DEF Here
  <2>10. ASSUME NEW j \in k..Links PROVE F[d[j]].link = j /\ F[d[j]].block = block
    <3>1. CASE j = k
      BY <2>8, <2>9, <3>1
    <3>2. CASE j \in (k + 1)..Links /\ j # k
      <4>1. d[j] = c[j]
        BY <2>6, <2>8, <3>2
      <4> QED
        BY <2>4, <3>2, <4>1 DEF IsTailOf
    <3> QED
      BY <2>6, <3>1, <3>2
  <2>11. ASSUME NEW j \in (k + 1)..Links PROVE InGap(j, F[d[j - 1]], F[d[j]].start)
    <3>1. d[j] = c[j]
      BY <2>6, <2>8
    <3>2. CASE j = k + 1
      <4>1. InGap(k + 1, unconfirmed[k][i], F[c[k + 1]].start)
        BY <2>2, <2>4
      <4>2. InGap(k + 1, F[n], F[c[k + 1]].start)
        BY <2>5, <2>9, <4>1, InGapSame
      <4> QED
        BY <2>6, <2>8, <3>1, <3>2, <4>2
    <3>3. CASE j \in (k + 1 + 1)..Links /\ j - 1 # k
      <4>1. d[j - 1] = c[j - 1]
        BY <2>6, <2>8, <3>3
      <4> QED
        BY <2>4, <3>1, <3>3, <4>1 DEF IsTailOf
    <3> QED
      BY <2>6, <3>2, <3>3
  <2>12. IsTailOf(F, d, k, N, block)
    BY <2>8, <2>10, <2>11 DEF IsTailOf
  <2>13. F[d[k]].start = StartOf(k, i, start)
    BY <2>5, <2>6, <2>8, <2>9 DEF SameRange, StartOf
  <2> QED
    BY <2>12, <2>13
<1> HIDE DEF R
<1>5. 0 \in S
  <2>1. 0 \in 0..(Links - 1) /\ Links - 0 = Links
    BY <1>1
  <2> QED
    BY <1>3, <2>1
<1>6. ASSUME NEW n \in 0..(Links - 1 - 1), n \in S PROVE n + 1 \in S
  <2> DEFINE k == Links - (n + 1)
  <2>1. k \in 1..(Links - 1) /\ k + 1 = Links - n /\ n + 1 \in 0..(Links - 1)
    BY <1>1
  <2>2. R(Links - n)
    BY <1>6
  <2>3. R(k + 1)
    BY <2>1, <2>2
  <2>4. R(k)
    BY <1>4, <2>1, <2>3
  <2> QED
    BY <2>1, <2>4
<1> HIDE DEF S
<1>7. 0..(Links - 1) \subseteq S
  BY <1>1, <1>5, <1>6, UpTo
<1>8. Links - 1 \in S /\ Links - (Links - 1) = 1
  BY <1>1, <1>7
<1>9. R(1)
  BY <1>8 DEF S
<1>10. PICK c : IsTailOf(F, c, 1, N, block) /\ F[c[1]].start = StartOf(1, h, start)
  BY <1>9 DEF R
<1>11. IsChain(F, c)
  <2>1. 1 \in 1..Links /\ 1 + 1 = 2
    BY <1>1
  <2> QED
    BY <1>2, <1>10, <2>1 DEF IsTailOf, IsChain
<1>12. c \in Chains'
  BY <1>11, InChainsNext DEF F
<1>13. F[c[1]].start = unconfirmed[1][h].start /\ c[Links] = N
  BY <1>1, <1>10 DEF StartOf, IsTailOf
<1> QED
  BY <1>12, <1>13 DEF F, N

-----------------------------------------------------------------------------
(* One step                                                                *)

\* The vectors after a step: none of the ranges that are kept is lost, and
\* the new ones are that of what is found.
LEMMA RangesNext ==
  ASSUME TypeOK, Ranges, NEW k, NEW start, NEW end, Founds(k, start, end)
  PROVE  Ranges'
<1> DEFINE N == Len(found) + 1
<1>1. ASSUME NEW n \in 1..Len(found') PROVE (found[n].start < found[n].end /\ found[n].block <= block)'
  <2>1. CASE n \in 1..Len(found)
    BY <2>1, FoundNext DEF Ranges, Founds
  <2>2. CASE n = N
    <3>1. found'[n].start = start /\ found'[n].end = end /\ found'[n].block = block /\ block' = block
      BY <2>2, FoundNext DEF Founds
    <3>2. start < end /\ block <= block
      BY DEF Founds, TypeOK
    <3> QED
      BY <3>1, <3>2
  <2> QED
    BY <2>1, <2>2, FoundNext
<1> QED
  BY <1>1 DEF Ranges

LEMMA KeepVectors ==
  ASSUME IInv, NEW k, NEW start, NEW end, Founds(k, start, end), KeepUnconfirmed(k, start, end)
  PROVE  VectorsInv' /\ (unconfirmed \in [1..(Links - 1) -> Seq(Unconfirmed)])'
<1> DEFINE N == Len(found) + 1
           e == [start |-> start, end |-> end, chain_length |-> 0]
<1>0. TypeOK /\ Ranges /\ UnconfirmedFound /\ LinksKept /\ MarksClosed /\ HeadsTracked
  BY DEF IInv, VectorsInv
<1>1. /\ k \in 1..(Links - 1) /\ k \in Nat /\ k < Links /\ start \in Nat /\ end \in Nat /\ InOrder(end)
      /\ block' = block /\ greedy' = greedy /\ matches' = matches /\ disabled' = disabled
  BY Constants DEF Founds, KeepUnconfirmed
<1>2. /\ Len(found) \in Nat /\ Len(found') = N /\ N \in 1..N
      /\ \A n \in 1..Len(found) : found'[n] = found[n] /\ n \in 1..N
      /\ found'[N].link = k /\ found'[N].block = block /\ found'[N].start = start /\ found'[N].end = end
      /\ \A n \in 1..N : n \in 1..Len(found) \/ n = N
  BY <1>0, FoundNext
<1>3. e \in Unconfirmed /\ e.start = start /\ e.end = end /\ e.chain_length = 0
  BY <1>1, Constants DEF Unconfirmed
<1>4. unconfirmed' = [unconfirmed EXCEPT ![k] = Append(@, e)]
  BY DEF KeepUnconfirmed
<1>5. unconfirmed \in [1..(Links - 1) -> Seq(Unconfirmed)]
  BY <1>0 DEF TypeOK
<1> HIDE DEF e, N
<1> DEFINE v == Append(unconfirmed[k], e)
           L == Len(unconfirmed[k])
<1>6. /\ L \in Nat /\ v \in Seq(Unconfirmed) /\ Len(v) = L + 1 /\ v[L + 1] = e
      /\ \A i \in 1..L : v[i] = unconfirmed[k][i]
  BY <1>0, <1>1, <1>3, VectorIs, AppendProperties
<1>7. unconfirmed'[k] = v /\ \A j \in 1..(Links - 1) : j # k => unconfirmed'[j] = unconfirmed[j]
  BY <1>1, <1>4, <1>5
<1>8. unconfirmed' \in [1..(Links - 1) -> Seq(Unconfirmed)]
  BY <1>1, <1>4, <1>5, <1>6
<1> HIDE DEF v
\* An entry of a vector is one there was, or the new one.
<1>9. ASSUME NEW j \in 1..(Links - 1), NEW i \in 1..Len(unconfirmed'[j])
      PROVE  \/ i \in 1..Len(unconfirmed[j]) /\ unconfirmed'[j][i] = unconfirmed[j][i]
             \/ j = k /\ unconfirmed'[j][i] = e
  <2>1. CASE j # k
    BY <1>7, <2>1
  <2>2. CASE j = k
    <3>1. i \in 1..L \/ i = L + 1
      BY <1>6, <1>7, <2>2
    <3> QED
      BY <1>6, <1>7, <2>2, <3>1
  <2> QED
    BY <2>1, <2>2
<1>10. ASSUME NEW j \in 1..(Links - 1), NEW i \in 1..Len(unconfirmed[j])
       PROVE  i \in 1..Len(unconfirmed'[j]) /\ unconfirmed'[j][i] = unconfirmed[j][i]
  <2>1. CASE j # k
    BY <1>7, <2>1
  <2>2. CASE j = k
    BY <1>6, <1>7, <2>2
  <2> QED
    BY <2>1, <2>2
<1>11. L + 1 \in 1..Len(unconfirmed'[k]) /\ unconfirmed'[k][L + 1] = e
  BY <1>6, <1>7
<1> HIDE DEF L
<1>12. Ranges'
  BY <1>0, RangesNext
<1>13. UnconfirmedFound'
  <2> SUFFICES ASSUME NEW j \in 1..(Links - 1), NEW i \in 1..Len(unconfirmed'[j])
               PROVE  \E n \in 1..Len(found') : /\ found'[n].link = j /\ found'[n].block = block'
                                                /\ SameRange(unconfirmed'[j][i], found'[n])
    BY DEF UnconfirmedFound, Here, SameRange
  <2>1. CASE i \in 1..Len(unconfirmed[j]) /\ unconfirmed'[j][i] = unconfirmed[j][i]
    <3>1. PICK n \in 1..Len(found) : /\ found[n].link = j /\ Here(n)
                                     /\ SameRange(unconfirmed[j][i], found[n])
      BY <1>0, <2>1 DEF UnconfirmedFound
    <3> QED
      BY <1>1, <1>2, <2>1, <3>1 DEF Here
  <2>2. CASE j = k /\ unconfirmed'[j][i] = e
    <3>1. SameRange(e, found'[N])
      BY <1>2, <1>3 DEF SameRange
    <3> QED
      BY <1>1, <1>2, <2>2, <3>1
  <2> QED
    BY <1>9, <2>1, <2>2
<1>14. ASSUME NEW n \in 1..Len(found), found[n].link \in 1..(Links - 1), Kept(n) PROVE Kept(n)'
  <2> DEFINE j == found[n].link
  <2>1. PICK i \in 1..Len(unconfirmed[j]) : SameRange(unconfirmed[j][i], found[n])
    BY <1>14 DEF Kept
  <2>2. i \in 1..Len(unconfirmed'[j]) /\ unconfirmed'[j][i] = unconfirmed[j][i] /\ found'[n] = found[n]
    BY <1>2, <1>10, <1>14
  <2> QED
    BY <2>1, <2>2 DEF Kept, SameRange
<1>15. LinksKept'
  <2> SUFFICES ASSUME NEW n \in 1..Len(found'), found'[n].block = block', found'[n].link < Links
               PROVE  /\ found'[n].link = 1 => Kept(n)'
                      /\ \A m \in 1..Len(found') :
                           found'[m].block = block' /\ found'[m].link = found'[n].link - 1 /\ Kept(m)'
                             /\ InGap(found'[n].link, found'[m], found'[n].start) => Kept(n)'
    BY DEF LinksKept, Here, Kept, SameRange, InGap
  <2>1. CASE n = N
    <3>1. found'[n].link = k /\ SameRange(unconfirmed'[k][L + 1], found'[n])
      BY <1>2, <1>3, <1>11, <2>1 DEF SameRange
    <3>2. Kept(n)'
      BY <1>11, <3>1 DEF Kept, SameRange
    <3> QED
      BY <3>2
  <2>2. CASE n \in 1..Len(found)
    <3>1. found'[n] = found[n] /\ Here(n) /\ found[n].link \in 1..(Links - 1)
      <4>1. found[n].link \in 1..Links
        BY <1>0, <2>2, ItemIs
      <4> QED
        BY <1>1, <1>2, <2>2, <4>1, Constants DEF Here
    <3>2. found[n].link = 1 => Kept(n)
      BY <1>0, <2>2, <3>1, Constants DEF LinksKept
    <3>3. ASSUME NEW m \in 1..Len(found'), found'[m].block = block', found'[m].link = found[n].link - 1,
                 Kept(m)', InGap(found[n].link, found'[m], found[n].start)
          PROVE  Kept(n)'
      <4> DEFINE j == found[n].link - 1
      <4>1. found'[m].link \in 1..Links
        <5>1. CASE m = N
          BY <1>1, <1>2, <5>1, Constants
        <5>2. CASE m \in 1..Len(found)
          BY <1>0, <1>2, <5>2, ItemIs
        <5> QED
          BY <1>2, <3>3, <5>1, <5>2
      <4>2. found[n].link \in 2..Links /\ j \in 1..(Links - 1)
        BY <3>1, <3>3, <4>1, Constants
      <4>3. CASE found'[m].end = end
        <5>1. ~InGap(found[n].link, found'[m], found[n].start)
          BY <1>0, <1>1, <2>2, <3>1, <4>2, <4>3, NotBefore
        <5> QED
          BY <3>3, <5>1
      <4>4. CASE found'[m].end # end
        <5>1. m \in 1..Len(found) /\ found'[m] = found[m]
          BY <1>2, <4>4
        <5>2. PICK i \in 1..Len(unconfirmed'[j]) : SameRange(unconfirmed'[j][i], found[m])
          BY <3>3, <5>1 DEF Kept, SameRange
        <5>3. i \in 1..Len(unconfirmed[j]) /\ unconfirmed'[j][i] = unconfirmed[j][i]
          <6>1. unconfirmed'[j][i] # e
            BY <1>3, <4>4, <5>1, <5>2 DEF SameRange
          <6> QED
            BY <1>9, <4>2, <6>1
        <5>4. Kept(m) /\ Here(m) /\ found[m].link = j
          BY <1>1, <3>3, <5>1, <5>2, <5>3 DEF Kept, Here
        <5>5. found[n].link < Links /\ InGap(found[n].link, found[m], found[n].start)
          BY <3>1, <3>3, <5>1, Constants
        <5>6. Kept(n)
          BY <1>0, <2>2, <3>1, <5>1, <5>4, <5>5 DEF LinksKept
        <5> QED
          BY <1>14, <2>2, <3>1, <5>6
      <4> QED
        BY <4>3, <4>4
    <3> QED
      BY <1>14, <2>2, <3>1, <3>2, <3>3
  <2> QED
    BY <1>2, <2>1, <2>2
<1>16. ASSUME NEW j \in 1..(Links - 1), NEW i \in 1..Len(unconfirmed'[j]), Marked(j, i)'
       PROVE  /\ i \in 1..Len(unconfirmed[j]) /\ unconfirmed'[j][i] = unconfirmed[j][i] /\ Marked(j, i)
  <2>1. unconfirmed'[j][i].chain_length > Links - j
    BY <1>16 DEF Marked
  <2>2. CASE j = k /\ unconfirmed'[j][i] = e
    BY <1>1, <1>3, <2>1, <2>2, Constants
  <2>3. CASE i \in 1..Len(unconfirmed[j]) /\ unconfirmed'[j][i] = unconfirmed[j][i]
    BY <2>1, <2>3 DEF Marked
  <2> QED
    BY <1>9, <2>2, <2>3
<1>17. MarksClosed'
  <2> SUFFICES ASSUME NEW j \in 2..(Links - 1), NEW i \in 1..Len(unconfirmed'[j]),
                      NEW l \in 1..Len(unconfirmed'[j - 1]), Marked(j, i)',
                      InGap(j, unconfirmed'[j - 1][l], unconfirmed'[j][i].start)
               PROVE  Marked(j - 1, l)'
    BY DEF MarksClosed, InGap, Marked
  <2>1. j \in 1..(Links - 1) /\ j - 1 \in 1..(Links - 1) /\ j \in 2..Links
    BY Constants
  <2>2. i \in 1..Len(unconfirmed[j]) /\ unconfirmed'[j][i] = unconfirmed[j][i] /\ Marked(j, i)
    BY <1>16, <2>1
  <2>3. CASE unconfirmed'[j - 1][l] = e
    <3>1. PICK n \in 1..Len(found) : Here(n) /\ SameRange(unconfirmed[j][i], found[n])
      BY <1>0, <2>1, <2>2 DEF UnconfirmedFound
    <3>2. ~InGap(j, e, found[n].start)
      BY <1>0, <1>1, <1>3, <2>1, <3>1, NotBefore
    <3> QED
      BY <2>2, <2>3, <3>1, <3>2 DEF SameRange
  <2>4. CASE l \in 1..Len(unconfirmed[j - 1]) /\ unconfirmed'[j - 1][l] = unconfirmed[j - 1][l]
    <3>1. Marked(j - 1, l)
      BY <1>0, <2>2, <2>4 DEF MarksClosed
    <3> QED
      BY <2>4, <3>1 DEF Marked
  <2> QED
    BY <1>9, <2>1, <2>3, <2>4
<1>18. HeadsTracked'
  <2> SUFFICES ASSUME ~disabled', NEW i \in 1..Len(unconfirmed'[1]), Marked(1, i)'
               PROVE  ~greedy' /\ unconfirmed'[1][i].start \in Starts(matches')
    BY DEF HeadsTracked, Marked, Starts
  <2>1. i \in 1..Len(unconfirmed[1]) /\ unconfirmed'[1][i] = unconfirmed[1][i] /\ Marked(1, i)
    BY <1>16, Constants
  <2> QED
    BY <1>0, <1>1, <2>1 DEF HeadsTracked
<1> QED
  BY <1>8, <1>12, <1>13, <1>15, <1>17, <1>18 DEF VectorsInv

LEMMA DropVectors ==
  ASSUME IInv, NEW k, NEW start, NEW end, Founds(k, start, end), DropLink(k, start)
  PROVE  VectorsInv'
<1> DEFINE N == Len(found) + 1
<1>0. TypeOK /\ Ranges /\ UnconfirmedFound /\ LinksKept /\ MarksClosed /\ HeadsTracked
  BY DEF IInv, VectorsInv
<1>1. /\ k \in 2..Links /\ start \in Nat /\ end \in Nat /\ InOrder(end)
      /\ block' = block /\ greedy' = greedy /\ matches' = matches /\ disabled' = disabled
      /\ unconfirmed' = unconfirmed /\ ~WithinValidDistance(k, start)
  BY Constants DEF Founds, DropLink
<1>2. /\ Len(found) \in Nat /\ Len(found') = N /\ N \in 1..N
      /\ \A n \in 1..Len(found) : found'[n] = found[n] /\ n \in 1..N
      /\ found'[N].link = k /\ found'[N].block = block /\ found'[N].start = start /\ found'[N].end = end
      /\ \A n \in 1..N : n \in 1..Len(found) \/ n = N
  BY <1>0, FoundNext
<1> HIDE DEF N
<1>3. Ranges'
  BY <1>0, RangesNext
<1>4. UnconfirmedFound'
  <2> SUFFICES ASSUME NEW j \in 1..(Links - 1), NEW i \in 1..Len(unconfirmed[j])
               PROVE  \E n \in 1..Len(found') : /\ found'[n].link = j /\ found'[n].block = block'
                                                /\ SameRange(unconfirmed[j][i], found'[n])
    BY <1>1 DEF UnconfirmedFound, Here, SameRange
  <2>1. PICK n \in 1..Len(found) : /\ found[n].link = j /\ Here(n)
                                   /\ SameRange(unconfirmed[j][i], found[n])
    BY <1>0 DEF UnconfirmedFound
  <2> QED
    BY <1>1, <1>2, <2>1 DEF Here
<1>5. ASSUME NEW n \in 1..Len(found) PROVE Kept(n)' <=> Kept(n)
  BY <1>1, <1>2 DEF Kept, SameRange
<1>6. LinksKept'
  <2> SUFFICES ASSUME NEW n \in 1..Len(found'), found'[n].block = block', found'[n].link < Links
               PROVE  /\ found'[n].link = 1 => Kept(n)'
                      /\ \A m \in 1..Len(found') :
                           found'[m].block = block' /\ found'[m].link = found'[n].link - 1 /\ Kept(m)'
                             /\ InGap(found'[n].link, found'[m], found'[n].start) => Kept(n)'
    BY DEF LinksKept, Here, Kept, SameRange, InGap
  <2>1. CASE n = N
    <3>1. found'[n].link = k /\ found'[n].start = start
      BY <1>2, <2>1
    <3>2. ASSUME NEW m \in 1..Len(found'), found'[m].link = k - 1, Kept(m)', InGap(k, found'[m], start)
          PROVE  FALSE
      <4>1. m # N
        BY <1>1, <1>2, <3>2, Constants
      <4>2. m \in 1..Len(found) /\ found'[m] = found[m]
        BY <1>2, <4>1
      <4>3. Kept(m) /\ found[m].link = k - 1 /\ InGap(k, found[m], start)
        BY <1>5, <3>2, <4>2
      <4>4. WithinValidDistance(k, start)
        BY <1>0, <1>1, <4>2, <4>3, Within
      <4> QED
        BY <1>1, <4>4
    <3>3. k # 1
      BY <1>1, Constants
    <3> QED
      BY <3>1, <3>2, <3>3
  <2>2. CASE n \in 1..Len(found)
    <3>1. found'[n] = found[n] /\ Here(n) /\ found[n].link \in 1..(Links - 1)
      <4>1. found[n].link \in 1..Links
        BY <1>0, <2>2, ItemIs
      <4> QED
        BY <1>1, <1>2, <2>2, <4>1, Constants DEF Here
    <3>2. found[n].link = 1 => Kept(n)
      BY <1>0, <2>2, <3>1, Constants DEF LinksKept
    <3>3. ASSUME NEW m \in 1..Len(found'), found'[m].block = block', found'[m].link = found[n].link - 1,
                 Kept(m)', InGap(found[n].link, found'[m], found[n].start)
          PROVE  Kept(n)'
      <4>1. CASE m = N
        <5>1. found[n].link \in 2..Links /\ found'[m].end = end
          BY <1>1, <1>2, <3>1, <3>3, <4>1, Constants
        <5>2. ~InGap(found[n].link, found'[m], found[n].start)
          BY <1>0, <1>1, <2>2, <3>1, <5>1, NotBefore
        <5> QED
          BY <3>3, <5>2
      <4>2. CASE m \in 1..Len(found)
        <5>1. found'[m] = found[m] /\ Kept(m) /\ Here(m)
          BY <1>1, <1>2, <1>5, <3>3, <4>2 DEF Here
        <5>2. found[n].link < Links
          BY <3>1, Constants
        <5>3. Kept(n)
          BY <1>0, <2>2, <3>1, <3>3, <4>2, <5>1, <5>2 DEF LinksKept
        <5> QED
          BY <1>5, <2>2, <5>3
      <4> QED
        BY <1>2, <4>1, <4>2
    <3> QED
      BY <1>5, <2>2, <3>1, <3>2, <3>3
  <2> QED
    BY <1>2, <2>1, <2>2
<1>7. MarksClosed'
  BY <1>0, <1>1 DEF MarksClosed, Marked, InGap
<1>8. HeadsTracked'
  BY <1>0, <1>1 DEF HeadsTracked, Marked, Starts
<1> QED
  BY <1>3, <1>4, <1>6, <1>7, <1>8 DEF VectorsInv

\* The marks after a tail: none if the pattern is greedy and a head was
\* reached, else those there were and those of the queue.
Reopened(Q) == greedy /\ Q[1] # <<>>

LEMMA RelabelledIs ==
  ASSUME TypeOK, NEW start, NEW Q, IsQueue(Q, start), unconfirmed' = Relabelled(Q)
  PROVE  /\ unconfirmed' \in [1..(Links - 1) -> Seq(Unconfirmed)]
         /\ \A k \in 1..(Links - 1) :
              /\ Len(unconfirmed'[k]) = Len(unconfirmed[k])
              /\ \A i \in 1..Len(unconfirmed[k]) :
                   /\ SameRange(unconfirmed'[k][i], unconfirmed[k][i])
                   /\ Marked(k, i)' <=> ~Reopened(Q) /\ (InQueue(Q, k, i) \/ Marked(k, i))
<1>1. ASSUME NEW k \in 1..(Links - 1)
      PROVE  /\ unconfirmed'[k] \in Seq(Unconfirmed)
             /\ Len(unconfirmed'[k]) = Len(unconfirmed[k])
             /\ \A i \in 1..Len(unconfirmed[k]) :
                  /\ SameRange(unconfirmed'[k][i], unconfirmed[k][i])
                  /\ Marked(k, i)' <=> ~Reopened(Q) /\ (InQueue(Q, k, i) \/ Marked(k, i))
  <2> DEFINE u == unconfirmed[k]
             L == Len(u)
             length(i) == IF Reopened(Q) THEN 0
                          ELSE IF i \in ToSet(Q[k]) THEN Links - k + 1 ELSE u[i].chain_length
             w == unconfirmed'[k]
  <2>1. w = [i \in 1..L |-> [u[i] EXCEPT !.chain_length = length(i)]]
    BY DEF Relabelled, Reopened
  <2>2. L \in Nat /\ \A i \in 1..L : /\ u[i] \in Unconfirmed /\ u[i].start \in Nat /\ u[i].end \in Nat
                                     /\ u[i].chain_length \in 0..Links
    BY VectorIs
  <2>3. Links \in Nat /\ k \in Nat /\ 1 <= k /\ k < Links
    BY Constants
  <2>4. \A i : i \in ToSet(Q[k]) <=> InQueue(Q, k, i)
    <3>1. Q[k] \in Seq(Nat)
      BY Constants DEF IsQueue
    <3>2. DOMAIN Q[k] = 1..Len(Q[k])
      BY <3>1
    <3> QED
      BY <3>2 DEF ToSet, InQueue
  <2>5. \A i \in 1..L : length(i) \in 0..Links
    BY <2>2, <2>3
  <2> HIDE DEF u, w, L
  <2>6. ASSUME NEW i \in 1..L
        PROVE  w[i] = [start |-> u[i].start, end |-> u[i].end, chain_length |-> length(i)]
    <3>1. w[i] = [u[i] EXCEPT !.chain_length = length(i)]
      BY <2>1
    <3>2. u[i] = [start |-> u[i].start, end |-> u[i].end, chain_length |-> u[i].chain_length]
      BY <2>2 DEF Unconfirmed
    <3> HIDE DEF length
    <3> QED
      BY <3>1, <3>2
  <2>7. ASSUME NEW i \in 1..L
        PROVE  /\ w[i] \in Unconfirmed /\ w[i].start = u[i].start /\ w[i].end = u[i].end
               /\ w[i].chain_length = length(i)
    <3>1. PICK l \in 0..Links : l = length(i)
      BY <2>5
    <3>2. PICK a \in Nat, b \in Nat : a = u[i].start /\ b = u[i].end
      BY <2>2
    <3> HIDE DEF length
    <3>3. w[i] = [start |-> a, end |-> b, chain_length |-> l]
      BY <2>6, <3>1, <3>2
    <3>4. [start |-> a, end |-> b, chain_length |-> l] \in Unconfirmed
      BY DEF Unconfirmed
    <3>5. w[i].start = a /\ w[i].end = b /\ w[i].chain_length = l
      BY <3>3
    <3> QED
      BY <3>1, <3>2, <3>3, <3>4, <3>5
  <2>8. w \in Seq(Unconfirmed) /\ Len(w) = L
    <3>1. w \in [1..L -> Unconfirmed]
      BY <2>1, <2>7
    <3> QED
      BY <2>2, <3>1
  <2>9. ASSUME NEW i \in 1..L
        PROVE  w[i].chain_length > Links - k <=>
                 ~Reopened(Q) /\ (InQueue(Q, k, i) \/ u[i].chain_length > Links - k)
    <3>1. CASE Reopened(Q)
      <4>1. w[i].chain_length = 0
        BY <2>7, <3>1
      <4> QED
        BY <2>3, <3>1, <4>1
    <3>2. CASE ~Reopened(Q) /\ InQueue(Q, k, i)
      <4>1. w[i].chain_length = Links - k + 1
        BY <2>4, <2>7, <3>2
      <4> QED
        BY <2>3, <3>2, <4>1
    <3>3. CASE ~Reopened(Q) /\ ~InQueue(Q, k, i)
      <4>1. w[i].chain_length = u[i].chain_length
        BY <2>4, <2>7, <3>3
      <4> QED
        BY <3>3, <4>1
    <3> QED
      BY <3>1, <3>2, <3>3
  <2>10. ASSUME NEW i \in 1..L
         PROVE  /\ SameRange(w[i], u[i])
                /\ Marked(k, i)' <=> ~Reopened(Q) /\ (InQueue(Q, k, i) \/ Marked(k, i))
    BY <2>7, <2>9 DEF SameRange, Marked, w, u
  <2> QED
    BY <2>8, <2>10 DEF w, u, L
<1>2. unconfirmed' = [k \in 1..(Links - 1) |-> unconfirmed'[k]]
  BY DEF Relabelled
<1>3. unconfirmed' \in [1..(Links - 1) -> Seq(Unconfirmed)]
  BY <1>1, <1>2
<1> QED
  BY <1>1, <1>3

\* The step of a tail.
Verifies(start, end, Q, t) ==
  /\ Founds(Links, start, end) /\ IsQueue(Q, start) /\ unconfirmed' = Relabelled(Q)
  /\ matches' = t.list /\ disabled' = t.disabled /\ Tracked(t, Q[1], end, Len(Q[1]))

LEMMA VerifyIs ==
  ASSUME IInv, NEW k, NEW start, NEW end, Founds(k, start, end), VerifyChain(k, start, end)
  PROVE  k = Links /\ \E Q, t : Verifies(start, end, Q, t)
<1> DEFINE Q == ConfirmedBy(start)
           t == TrackMatches(Q[1], BlockBase(block), end)
<1>0. TypeOK /\ SortedByStart(matches)
  BY DEF IInv
<1>1. k = Links /\ unconfirmed' = Relabelled(Q) /\ matches' = t.list /\ disabled' = t.disabled
  BY DEF VerifyChain
<1>2. IsQueue(Q, start)
  BY <1>0, ConfirmedByIs
<1> HIDE DEF Q
<1>3. BlockBase(block) \in Nat
  <2>1. block - 1 \in Nat /\ BlockSize \in Nat
    BY <1>0, Constants DEF TypeOK
  <2>2. \A a, b \in Nat : a * b \in Nat
    OBVIOUS
  <2> QED
    BY <2>1, <2>2 DEF BlockBase
<1>4. TrackStart
  BY <1>0 DEF TrackStart, TypeOK, VectorsOK, Limit
<1>5. Q[1] \in Seq(Nat) /\ \A n \in 1..Len(Q[1]) : Q[1][n] \in 1..Len(unconfirmed[1])
  BY <1>2, Constants DEF IsQueue
<1>6. Len(Q[1]) \in Nat /\ end \in Nat
  BY <1>5, LenProperties DEF Founds
<1>7. Tracked(t, Q[1], end, Len(Q[1]))
  BY <1>3, <1>4, <1>5, <1>6, TrackMatchesIs
<1> HIDE DEF t
<1>8. Verifies(start, end, Q, t)
  BY <1>1, <1>2, <1>7 DEF Verifies
<1> QED
  BY <1>1, <1>8

LEMMA VerifyVectors ==
  ASSUME IInv, NEW start, NEW end, NEW Q, NEW t, Verifies(start, end, Q, t)
  PROVE  VectorsInv' /\ (unconfirmed \in [1..(Links - 1) -> Seq(Unconfirmed)])'
<1> DEFINE N == Len(found) + 1
<1>0. TypeOK /\ Ranges /\ UnconfirmedFound /\ LinksKept /\ MarksClosed /\ HeadsTracked
  BY DEF IInv, VectorsInv
<1>1. Founds(Links, start, end) /\ IsQueue(Q, start) /\ unconfirmed' = Relabelled(Q)
  BY DEF Verifies
<1>2. block' = block /\ greedy' = greedy /\ ~disabled /\ start \in Nat
  BY <1>1 DEF Founds
<1>3. /\ Len(found) \in Nat /\ Len(found') = N
      /\ \A n \in 1..Len(found) : found'[n] = found[n] /\ n \in 1..N
      /\ found'[N].link = Links
      /\ \A n \in 1..N : n \in 1..Len(found) \/ n = N
  BY <1>0, <1>1, FoundNext
<1> HIDE DEF N
<1>4. /\ unconfirmed' \in [1..(Links - 1) -> Seq(Unconfirmed)]
      /\ \A k \in 1..(Links - 1) :
           /\ Len(unconfirmed'[k]) = Len(unconfirmed[k])
           /\ \A i \in 1..Len(unconfirmed[k]) :
                /\ SameRange(unconfirmed'[k][i], unconfirmed[k][i])
                /\ Marked(k, i)' <=> ~Reopened(Q) /\ (InQueue(Q, k, i) \/ Marked(k, i))
  BY <1>0, <1>1, RelabelledIs
<1>5. Ranges'
  BY <1>0, <1>1, RangesNext
<1>6. UnconfirmedFound'
  <2> SUFFICES ASSUME NEW j \in 1..(Links - 1), NEW i \in 1..Len(unconfirmed'[j])
               PROVE  \E n \in 1..Len(found') : /\ found'[n].link = j /\ found'[n].block = block'
                                                /\ SameRange(unconfirmed'[j][i], found'[n])
    BY DEF UnconfirmedFound, Here, SameRange
  <2>1. i \in 1..Len(unconfirmed[j]) /\ SameRange(unconfirmed'[j][i], unconfirmed[j][i])
    BY <1>4
  <2>2. PICK n \in 1..Len(found) : /\ found[n].link = j /\ Here(n)
                                   /\ SameRange(unconfirmed[j][i], found[n])
    BY <1>0, <2>1 DEF UnconfirmedFound
  <2> QED
    BY <1>2, <1>3, <2>1, <2>2 DEF Here, SameRange
<1>7. ASSUME NEW n \in 1..Len(found), found[n].link \in 1..(Links - 1) PROVE Kept(n)' <=> Kept(n)
  <2> DEFINE j == found[n].link
  <2>1. Len(unconfirmed'[j]) = Len(unconfirmed[j])
        /\ \A i \in 1..Len(unconfirmed[j]) : SameRange(unconfirmed'[j][i], unconfirmed[j][i])
    BY <1>4, <1>7
  <2>2. found'[n] = found[n]
    BY <1>3
  <2>3. Kept(n)' <=> \E i \in 1..Len(unconfirmed'[j]) : SameRange(unconfirmed'[j][i], found[n])
    BY <2>2 DEF Kept, SameRange
  <2>4. Kept(n) <=> \E i \in 1..Len(unconfirmed[j]) : SameRange(unconfirmed[j][i], found[n])
    BY DEF Kept
  <2> HIDE DEF j
  <2> QED
    BY <2>1, <2>3, <2>4 DEF SameRange
<1>8. LinksKept'
  <2> SUFFICES ASSUME NEW n \in 1..Len(found'), found'[n].block = block', found'[n].link < Links
               PROVE  /\ found'[n].link = 1 => Kept(n)'
                      /\ \A m \in 1..Len(found') :
                           found'[m].block = block' /\ found'[m].link = found'[n].link - 1 /\ Kept(m)'
                             /\ InGap(found'[n].link, found'[m], found'[n].start) => Kept(n)'
    BY DEF LinksKept, Here, Kept, SameRange, InGap
  <2>1. n \in 1..Len(found)
    BY <1>3, Constants
  <2>2. found'[n] = found[n] /\ Here(n) /\ found[n].link \in 1..(Links - 1) /\ found[n].link < Links
    <3>1. found[n].link \in 1..Links
      BY <1>0, <2>1, ItemIs
    <3> QED
      BY <1>2, <1>3, <2>1, <3>1, Constants DEF Here
  <2>3. found[n].link = 1 => Kept(n)
    BY <1>0, <2>1, <2>2 DEF LinksKept
  <2>4. ASSUME NEW m \in 1..Len(found'), found'[m].block = block', found'[m].link = found[n].link - 1,
               Kept(m)', InGap(found[n].link, found'[m], found[n].start)
        PROVE  Kept(n)'
    <3>1. m \in 1..Len(found)
      BY <1>3, <2>2, <2>4, Constants
    <3>2. found'[m] = found[m] /\ Here(m) /\ found[m].link \in 1..Links
      BY <1>0, <1>2, <1>3, <2>4, <3>1, ItemIs DEF Here
    <3>3. found[m].link \in 1..(Links - 1)
      BY <2>2, <2>4, <3>2, Constants
    <3>4. Kept(m)
      BY <1>7, <2>4, <3>1, <3>3
    <3>5. Kept(n)
      BY <1>0, <2>1, <2>2, <2>4, <3>1, <3>2, <3>4 DEF LinksKept
    <3> QED
      BY <1>7, <2>1, <2>2, <3>5
  <2> QED
    BY <1>7, <2>1, <2>2, <2>3, <2>4
<1>9. MarksClosed'
  <2> SUFFICES ASSUME NEW j \in 2..(Links - 1), NEW i \in 1..Len(unconfirmed'[j]),
                      NEW l \in 1..Len(unconfirmed'[j - 1]), Marked(j, i)',
                      InGap(j, unconfirmed'[j - 1][l], unconfirmed'[j][i].start)
               PROVE  Marked(j - 1, l)'
    BY DEF MarksClosed, InGap, Marked
  <2> DEFINE k == j - 1
  <2>1. j \in 1..(Links - 1) /\ k \in 1..(Links - 1) /\ k + 1 = j /\ j # Links
    BY Constants
  <2> HIDE DEF k
  <2>2. /\ i \in 1..Len(unconfirmed[j]) /\ SameRange(unconfirmed'[j][i], unconfirmed[j][i])
        /\ l \in 1..Len(unconfirmed[k]) /\ SameRange(unconfirmed'[k][l], unconfirmed[k][l])
    BY <1>4, <2>1 DEF k
  <2>3. InGap(j, unconfirmed[k][l], unconfirmed[j][i].start)
    BY <2>2 DEF InGap, SameRange, k
  <2>4. ~Reopened(Q) /\ (InQueue(Q, j, i) \/ Marked(j, i))
    BY <1>4, <2>1, <2>2
  <2>5. CASE InQueue(Q, j, i)
    <3>1. PICK p \in 1..Len(Q[k + 1]) : Q[k + 1][p] = i
      BY <2>1, <2>5 DEF InQueue
    <3>2. StartOf(k + 1, Q[k + 1][p], start) = unconfirmed[j][i].start
      BY <2>1, <3>1 DEF StartOf
    <3>3. InGap(k + 1, unconfirmed[k][l], StartOf(k + 1, Q[k + 1][p], start))
      BY <2>1, <2>3, <3>2
    <3>4. InQueue(Q, k, l) \/ Marked(k, l)
      BY <1>0, <1>1, <2>1, <2>2, <3>3, PushedBefore
    <3> QED
      BY <1>4, <2>1, <2>2, <2>4, <3>4 DEF k
  <2>6. CASE Marked(j, i)
    <3>1. Marked(k, l)
      BY <1>0, <2>2, <2>3, <2>6 DEF MarksClosed, k
    <3> QED
      BY <1>4, <2>1, <2>2, <2>4, <3>1 DEF k
  <2> QED
    BY <2>4, <2>5, <2>6
<1>10. HeadsTracked'
  <2> SUFFICES ASSUME ~disabled', NEW i \in 1..Len(unconfirmed'[1]), Marked(1, i)'
               PROVE  ~greedy' /\ unconfirmed'[1][i].start \in Starts(matches')
    BY DEF HeadsTracked, Marked, Starts
  <2>1. /\ i \in 1..Len(unconfirmed[1]) /\ unconfirmed'[1][i].start = unconfirmed[1][i].start
        /\ ~Reopened(Q) /\ (InQueue(Q, 1, i) \/ Marked(1, i))
    BY <1>4, Constants DEF SameRange
  <2>2. matches' = t.list /\ ~t.disabled
    BY DEF Verifies
  <2>3. /\ Starts(matches) \subseteq Starts(t.list)
        /\ \A n \in 1..Len(Q[1]) : unconfirmed[1][Q[1][n]].start \in Starts(t.list)
    BY <2>2 DEF Verifies, Tracked
  <2>4. CASE InQueue(Q, 1, i)
    <3>1. PICK n \in 1..Len(Q[1]) : Q[1][n] = i
      BY <2>4 DEF InQueue
    <3>2. Q[1] # <<>>
      BY <3>1
    <3> QED
      BY <1>2, <2>1, <2>2, <2>3, <3>1, <3>2 DEF Reopened
  <2>5. CASE Marked(1, i)
    BY <1>0, <1>2, <2>1, <2>2, <2>3, <2>5 DEF HeadsTracked
  <2> QED
    BY <2>1, <2>4, <2>5
<1> QED
  BY <1>4, <1>5, <1>6, <1>8, <1>9, <1>10 DEF VectorsInv

-----------------------------------------------------------------------------
(* The matches are the chains, and end where they should                   *)

\* Where a match ends is right.
EndFor(x) ==
  IF greedy
  THEN \A t \in TailsFrom(x.start) : (\A u \in TailsFrom(x.start) : u <= t) => x.end >= found[t].end
  ELSE \A t \in TailsFrom(x.start) : (\A u \in TailsFrom(x.start) : t <= u) => x.end = found[t].end

LEMMA EndsAre == EndIsTheRightOne <=> (~disabled => \A x \in Elements(matches) : EndFor(x))
BY DEF EndIsTheRightOne, EndFor, Elements

LEMMA EndsAreNext ==
  (\A x \in Elements(matches') : EndFor(x)') => EndIsTheRightOne'
BY DEF EndIsTheRightOne, EndFor, Elements

LEMMA InTails ==
  \A t, s : t \in TailsFrom(s) <=> \E c \in Chains : found[c[1]].start = s /\ c[Links] = t
BY DEF TailsFrom

LEMMA InTailsNext ==
  \A t, s : t \in TailsFrom(s)' <=> \E c \in Chains' : found'[c[1]].start = s /\ c[Links] = t
BY DEF TailsFrom

\* The tails of an offset after a step.
LEMMA TailsNext ==
  ASSUME TypeOK, Ranges, NEW k, NEW start, NEW end, Founds(k, start, end), NEW s
  PROVE  /\ \A t \in TailsFrom(s) : t \in TailsFrom(s)' /\ t \in 1..Len(found) /\ found'[t] = found[t]
         /\ \A t \in TailsFrom(s)' : t \in TailsFrom(s) \/ (t = Len(found) + 1 /\ k = Links)
<1>1. ASSUME NEW t \in TailsFrom(s)
      PROVE  t \in TailsFrom(s)' /\ t \in 1..Len(found) /\ found'[t] = found[t]
  <2>1. PICK c \in Chains : found[c[1]].start = s /\ c[Links] = t
    BY InTails
  <2>2. /\ c \in Chains' /\ c[Links] \in 1..Len(found)
        /\ found'[c[1]] = found[c[1]] /\ found'[c[Links]] = found[c[Links]]
    BY OldChain
  <2> QED
    BY <2>1, <2>2, InTailsNext
<1>2. ASSUME NEW t \in TailsFrom(s)' PROVE t \in TailsFrom(s) \/ (t = Len(found) + 1 /\ k = Links)
  <2>1. PICK c \in Chains' : found'[c[1]].start = s /\ c[Links] = t
    BY InTailsNext
  <2>2. CASE c \in Chains
    <3>1. found'[c[1]] = found[c[1]]
      BY <2>2, OldChain
    <3> QED
      BY <2>1, <2>2, <3>1, InTails
  <2>3. CASE c \notin Chains
    BY <2>1, <2>3, NewChain
  <2> QED
    BY <2>2, <2>3
<1> QED
  BY <1>1, <1>2

\* A step that completes no chain and adds no match.
LEMMA SameChains ==
  ASSUME IInv, NEW k, NEW start, NEW end, Founds(k, start, end), \A c \in Chains' : c \in Chains,
         matches' = matches, disabled' = disabled
  PROVE  Sound' /\ Complete' /\ EndIsTheRightOne'
<1>0. TypeOK /\ Ranges /\ Sound /\ Complete /\ EndIsTheRightOne
  BY DEF IInv, VectorsInv
<1>1. ~disabled /\ greedy' = greedy
  BY DEF Founds
<1>2. \A c \in Chains : /\ c \in Chains' /\ found'[c[1]] = found[c[1]]
                        /\ found'[c[Links]] = found[c[Links]]
  BY <1>0, OldChain
<1>3. Sound'
  <2> SUFFICES ASSUME NEW x \in Elements(matches')
               PROVE  \E c \in Chains' : found'[c[1]].start = x.start /\ found'[c[Links]].end = x.end
    BY DEF Sound
  <2>1. x \in Elements(matches)
    BY DEF Elements
  <2>2. PICK c \in Chains : found[c[1]].start = x.start /\ found[c[Links]].end = x.end
    BY <1>0, <2>1 DEF Sound
  <2> QED
    BY <1>2, <2>2
<1>4. Complete'
  <2> SUFFICES ASSUME NEW c \in Chains' PROVE found'[c[1]].start \in Starts(matches')
    BY DEF Complete
  <2>1. c \in Chains /\ found'[c[1]] = found[c[1]]
    BY <1>2
  <2>2. found[c[1]].start \in Starts(matches)
    BY <1>0, <1>1, <2>1 DEF Complete
  <2> QED
    BY <2>1, <2>2
<1>5. EndIsTheRightOne'
  <2> SUFFICES ASSUME NEW x \in Elements(matches') PROVE EndFor(x)'
    BY EndsAreNext
  <2>1. x \in Elements(matches) /\ EndFor(x)
    <3>1. x \in Elements(matches)
      BY DEF Elements
    <3> QED
      BY <1>0, <1>1, <3>1, EndsAre
  <2>2. PICK s : s = x.start
    OBVIOUS
  <2>3. \A t : t \in TailsFrom(s)' <=> t \in TailsFrom(s)
    BY <1>2, InTails, InTailsNext
  <2>4. \A t \in TailsFrom(s) : found'[t] = found[t]
    BY <1>0, TailsNext
  <2> QED
    BY <1>1, <2>1, <2>2, <2>3, <2>4 DEF EndFor
<1> QED
  BY <1>3, <1>4, <1>5

\* Only the last link completes a chain, and not when it is too far away.
LEMMA NoNewChain ==
  ASSUME IInv, NEW k, NEW start, NEW end, Founds(k, start, end),
         k < Links \/ ~WithinValidDistance(k, start)
  PROVE  \A c \in Chains' : c \in Chains
<1>0. TypeOK /\ Ranges /\ LinksKept
  BY DEF IInv, VectorsInv
<1>1. k \in 1..Links /\ start \in Nat
  BY DEF Founds
<1> SUFFICES ASSUME NEW c \in Chains', c \notin Chains PROVE FALSE
  OBVIOUS
<1>2. k = Links /\ ButLast(c) /\ InGap(Links, found[c[Links - 1]], start)
  BY <1>0, NewChain
<1>3. Links \in 2..Links /\ Links - 1 \in 1..(Links - 1) /\ ~(Links < Links)
  BY Constants
<1>4. Kept(c[Links - 1])
  BY <1>0, <1>2, <1>3, ChainKept
<1>5. c[Links - 1] \in 1..Len(found) /\ found[c[Links - 1]].link = Links - 1
  BY <1>2, <1>3 DEF ButLast
<1>6. WithinValidDistance(Links, start)
  BY <1>0, <1>1, <1>2, <1>3, <1>4, <1>5, Within
<1> QED
  BY <1>2, <1>3, <1>6

\* A tail adds the chains that it completes.
LEMMA VerifySound ==
  ASSUME IInv, NEW start, NEW end, NEW Q, NEW t, Verifies(start, end, Q, t)
  PROVE  Sound'
<1>0. TypeOK /\ UnconfirmedFound /\ Sound
  BY DEF IInv, VectorsInv
<1>1. /\ Founds(Links, start, end) /\ IsQueue(Q, start) /\ matches' = t.list
      /\ Tracked(t, Q[1], end, Len(Q[1]))
  BY DEF Verifies
<1> SUFFICES ASSUME NEW x \in Elements(matches')
             PROVE  \E c \in Chains' : found'[c[1]].start = x.start /\ found'[c[Links]].end = x.end
  BY DEF Sound
<1>2. \/ x \in Elements(matches)
      \/ x.end = end /\ \E i \in 1..Len(Q[1]) : x.start = unconfirmed[1][Q[1][i]].start
  BY <1>1 DEF Tracked
<1>3. CASE x \in Elements(matches)
  <2>1. PICK c \in Chains : found[c[1]].start = x.start /\ found[c[Links]].end = x.end
    BY <1>0, <1>3 DEF Sound
  <2> QED
    BY <1>0, <1>1, <2>1, OldChain
<1>4. ASSUME x.end = end, NEW i \in 1..Len(Q[1]), x.start = unconfirmed[1][Q[1][i]].start
      PROVE  \E c \in Chains' : found'[c[1]].start = x.start /\ found'[c[Links]].end = x.end
  <2>1. InQueue(Q, 1, Q[1][i])
    BY DEF InQueue
  <2>2. PICK c \in Chains' : found'[c[1]].start = unconfirmed[1][Q[1][i]].start
                             /\ c[Links] = Len(found) + 1
    BY <1>0, <1>1, <2>1, QueueSound
  <2>3. found'[Len(found) + 1].end = end
    BY <1>0, <1>1, FoundNext
  <2> QED
    BY <1>4, <2>2, <2>3
<1> QED
  BY <1>2, <1>3, <1>4

\* A head of a chain that the tail completes is in the queue, or, if the
\* pattern is not greedy, a match already.
LEMMA HeadOfNew ==
  ASSUME IInv, NEW start, NEW end, NEW Q, NEW t, Verifies(start, end, Q, t),
         NEW c \in Chains', c \notin Chains
  PROVE  /\ found'[c[1]].start = found[c[1]].start
         /\ \/ \E n \in 1..Len(Q[1]) : unconfirmed[1][Q[1][n]].start = found[c[1]].start
            \/ ~greedy /\ found[c[1]].start \in Starts(matches)
<1>0. TypeOK /\ Ranges /\ LinksKept /\ MarksClosed /\ HeadsTracked
  BY DEF IInv, VectorsInv
<1>1. Founds(Links, start, end) /\ IsQueue(Q, start) /\ start \in Nat /\ ~disabled
  BY DEF Verifies, Founds
<1>2. ButLast(c) /\ InGap(Links, found[c[Links - 1]], start)
  BY <1>0, <1>1, NewChain
<1>3. c[1] \in 1..Len(found)
  BY <1>2, Constants DEF ButLast
<1>4. found'[c[1]] = found[c[1]]
  BY <1>0, <1>1, <1>3, FoundNext
<1>5. PICK h \in 1..Len(unconfirmed[1]) :
        unconfirmed[1][h].start = found[c[1]].start /\ (InQueue(Q, 1, h) \/ Marked(1, h))
  BY <1>0, <1>1, <1>2, Confirms
<1>6. CASE InQueue(Q, 1, h)
  BY <1>4, <1>5, <1>6 DEF InQueue
<1>7. CASE Marked(1, h)
  BY <1>0, <1>1, <1>4, <1>5, <1>7 DEF HeadsTracked
<1> QED
  BY <1>5, <1>6, <1>7

LEMMA VerifyComplete ==
  ASSUME IInv, NEW start, NEW end, NEW Q, NEW t, Verifies(start, end, Q, t)
  PROVE  Complete'
<1>0. TypeOK /\ Complete
  BY DEF IInv
<1>1. /\ Founds(Links, start, end) /\ matches' = t.list /\ disabled' = t.disabled /\ ~disabled
      /\ Tracked(t, Q[1], end, Len(Q[1]))
  BY DEF Verifies, Founds
<1> SUFFICES ASSUME ~disabled', NEW c \in Chains' PROVE found'[c[1]].start \in Starts(matches')
  BY DEF Complete
<1>2. /\ Starts(matches) \subseteq Starts(matches')
      /\ \A n \in 1..Len(Q[1]) : unconfirmed[1][Q[1][n]].start \in Starts(matches')
  <2>1. /\ Starts(matches) \subseteq Starts(t.list)
        /\ \A n \in 1..Len(Q[1]) : unconfirmed[1][Q[1][n]].start \in Starts(t.list)
    BY <1>1 DEF Tracked
  <2> QED
    BY <1>1, <2>1
<1>3. CASE c \in Chains
  <2>1. found[c[1]].start \in Starts(matches)
    BY <1>0, <1>1, <1>3 DEF Complete
  <2>2. found'[c[1]] = found[c[1]]
    BY <1>0, <1>1, <1>3, OldChain
  <2> QED
    BY <1>2, <2>1, <2>2
<1>4. CASE c \notin Chains
  BY <1>2, <1>4, HeadOfNew
<1> QED
  BY <1>3, <1>4

LEMMA VerifyEnds ==
  ASSUME IInv, NEW start, NEW end, NEW Q, NEW t, Verifies(start, end, Q, t)
  PROVE  EndIsTheRightOne'
<1> DEFINE N == Len(found) + 1
<1>0. TypeOK /\ Ranges /\ UnconfirmedFound /\ Sound /\ Complete /\ EndIsTheRightOne
  BY DEF IInv, VectorsInv
<1>1. /\ Founds(Links, start, end) /\ IsQueue(Q, start) /\ matches' = t.list
      /\ disabled' = t.disabled /\ ~disabled /\ greedy' = greedy /\ end \in Nat
      /\ Tracked(t, Q[1], end, Len(Q[1]))
  BY DEF Verifies, Founds
<1>2. Len(found) \in Nat /\ found'[N].end = end /\ \A n \in 1..Len(found) : n \in Nat /\ n < N
  <2>1. Len(found) \in Nat /\ found'[N].end = end
    BY <1>0, <1>1, FoundNext
  <2> QED
    BY <2>1
<1> SUFFICES ASSUME ~disabled', NEW x \in Elements(matches') PROVE EndFor(x)'
  <2>1. (~disabled' => \A x \in Elements(matches') : EndFor(x)') => EndIsTheRightOne'
    BY EndsAreNext DEF EndIsTheRightOne
  <2> QED
    BY <2>1
<1>3. /\ x.start \in Nat /\ x.end \in Nat
      /\ \/ x \in Elements(matches)
         \/ /\ x.end = end /\ \E i \in 1..Len(Q[1]) : x.start = unconfirmed[1][Q[1][i]].start
            /\ ~greedy => x.start \notin Starts(matches)
      /\ greedy => \A i \in 1..Len(Q[1]) : x.start = unconfirmed[1][Q[1][i]].start => x.end >= end
  <2>1. x \in Elements(t.list) /\ ~t.disabled
    BY <1>1
  <2> QED
    BY <1>1, <2>1 DEF Tracked
<1>4. PICK s : s = x.start
  OBVIOUS
<1>5. /\ \A u \in TailsFrom(s) : u \in TailsFrom(s)' /\ u \in 1..Len(found) /\ found'[u] = found[u]
      /\ \A u \in TailsFrom(s)' : u \in TailsFrom(s) \/ u = N
  BY <1>0, <1>1, TailsNext
<1>6. x \in Elements(matches) => EndFor(x)
  BY <1>0, <1>1, EndsAre
<1> HIDE DEF N
<1>7. CASE ~greedy
  <2> SUFFICES ASSUME NEW u \in TailsFrom(s)', \A v \in TailsFrom(s)' : u <= v
               PROVE  x.end = found'[u].end
    BY <1>1, <1>4, <1>7 DEF EndFor
  <2>1. CASE x \in Elements(matches)
    <3>1. PICK c \in Chains : found[c[1]].start = s
      BY <1>0, <1>4, <2>1 DEF Sound
    <3>2. c[Links] \in TailsFrom(s)
      BY <3>1, InTails
    <3>3. u # N
      <4> SUFFICES ASSUME u = N PROVE FALSE
        OBVIOUS
      <4>1. N <= c[Links] /\ c[Links] \in Nat /\ c[Links] < N
        BY <1>2, <1>5, <3>2
      <4> QED
        BY <1>2, <4>1 DEF N
    <3>4. u \in TailsFrom(s) /\ found'[u] = found[u] /\ \A v \in TailsFrom(s) : u <= v
      BY <1>5, <3>3
    <3> QED
      BY <1>4, <1>6, <1>7, <2>1, <3>4 DEF EndFor
  <2>2. CASE x \notin Elements(matches)
    <3>1. x.end = end /\ s \notin Starts(matches)
      BY <1>3, <1>4, <1>7, <2>2
    <3>2. u \notin TailsFrom(s)
      BY <1>0, <1>1, <3>1, InTails DEF Complete
    <3>3. u = N
      BY <1>5, <3>2
    <3> QED
      BY <1>2, <3>1, <3>3
  <2> QED
    BY <2>1, <2>2
<1>8. CASE greedy
  <2> SUFFICES ASSUME NEW u \in TailsFrom(s)', \A v \in TailsFrom(s)' : v <= u
               PROVE  x.end >= found'[u].end
    BY <1>1, <1>4, <1>8 DEF EndFor
  <2>1. CASE N \in TailsFrom(s)'
    <3>1. PICK c \in Chains' : found'[c[1]].start = s /\ c[Links] = N
      BY <2>1, InTailsNext
    <3>2. c \notin Chains
      <4>1. ~(N < N)
        BY <1>2 DEF N
      <4> QED
        BY <1>0, <1>1, <1>2, <3>1, <4>1, OldChain
    <3>3. PICK n \in 1..Len(Q[1]) : unconfirmed[1][Q[1][n]].start = s
      BY <1>8, <3>1, <3>2, HeadOfNew
    <3>4. x.end >= end
      BY <1>3, <1>4, <1>8, <3>3
    <3>5. u = N
      <4>1. N <= u
        BY <2>1
      <4>2. u \in 1..Len(found) \/ u = N
        BY <1>5
      <4> QED
        BY <1>2, <4>1, <4>2 DEF N
    <3> QED
      BY <1>2, <3>4, <3>5
  <2>2. CASE N \notin TailsFrom(s)'
    <3>1. ASSUME NEW i \in 1..Len(Q[1]), s = unconfirmed[1][Q[1][i]].start PROVE FALSE
      <4>1. InQueue(Q, 1, Q[1][i])
        BY DEF InQueue
      <4>2. \E c \in Chains' : found'[c[1]].start = unconfirmed[1][Q[1][i]].start
                               /\ c[Links] = Len(found) + 1
        BY <1>0, <1>1, <4>1, QueueSound
      <4> QED
        BY <2>2, <3>1, <4>2, InTailsNext DEF N
    <3>2. x \in Elements(matches)
      BY <1>3, <1>4, <3>1
    <3>3. u \in TailsFrom(s) /\ found'[u] = found[u] /\ \A v \in TailsFrom(s) : v <= u
      BY <1>5, <2>2
    <3> QED
      BY <1>4, <1>6, <1>8, <3>2, <3>3 DEF EndFor
  <2> QED
    BY <2>1, <2>2
<1> QED
  BY <1>7, <1>8

\* What a step of each kind leaves true.
LEMMA LinkFoundNext ==
  ASSUME IInv, NEW k, NEW start, NEW end, Founds(k, start, end),
         \/ KeepUnconfirmed(k, start, end) \/ VerifyChain(k, start, end) \/ DropLink(k, start)
  PROVE  IInv'
<1>0. TypeOK /\ SortedByStart(matches)
  BY DEF IInv
<1>1. /\ greedy' = greedy /\ block' = block /\ greedy \in BOOLEAN /\ block \in 1..Blocks
      /\ found' \in Seq([link : 1..Links, block : 1..Blocks, start : Nat, end : Nat])
      /\ k \in 1..Links
  BY <1>0, FoundNext DEF Founds, TypeOK, Item
<1>2. /\ disabled \in BOOLEAN /\ unconfirmed \in [1..(Links - 1) -> Seq(Unconfirmed)]
      /\ matches \in Seq(Match) /\ Len(matches) <= (IF MaxMatches = 0 THEN 1 ELSE MaxMatches)
  BY <1>0 DEF TypeOK
<1>3. CASE KeepUnconfirmed(k, start, end)
  <2>1. matches' = matches /\ disabled' = disabled /\ k < Links
    BY <1>3 DEF KeepUnconfirmed
  <2>2. VectorsInv' /\ (unconfirmed \in [1..(Links - 1) -> Seq(Unconfirmed)])'
    BY <1>3, KeepVectors
  <2>3. \A c \in Chains' : c \in Chains
    BY <2>1, NoNewChain
  <2>4. Sound' /\ Complete' /\ EndIsTheRightOne'
    BY <2>1, <2>3, SameChains
  <2>5. TypeOK'
    BY <1>1, <1>2, <2>1, <2>2 DEF TypeOK
  <2>6. SortedByStart(matches')
    BY <1>0, <2>1
  <2> QED
    BY <2>2, <2>4, <2>5, <2>6 DEF IInv
<1>4. CASE DropLink(k, start)
  <2>1. /\ matches' = matches /\ disabled' = disabled /\ unconfirmed' = unconfirmed
        /\ ~WithinValidDistance(k, start)
    BY <1>4 DEF DropLink
  <2>2. VectorsInv'
    BY <1>4, DropVectors
  <2>3. \A c \in Chains' : c \in Chains
    BY <2>1, NoNewChain
  <2>4. Sound' /\ Complete' /\ EndIsTheRightOne'
    BY <2>1, <2>3, SameChains
  <2>5. TypeOK'
    BY <1>1, <1>2, <2>1 DEF TypeOK
  <2>6. SortedByStart(matches')
    BY <1>0, <2>1
  <2> QED
    BY <2>2, <2>4, <2>5, <2>6 DEF IInv
<1>5. CASE VerifyChain(k, start, end)
  <2>1. PICK Q, t : Verifies(start, end, Q, t)
    BY <1>5, VerifyIs
  <2>2. VectorsInv' /\ (unconfirmed \in [1..(Links - 1) -> Seq(Unconfirmed)])'
    BY <2>1, VerifyVectors
  <2>3. Sound' /\ Complete' /\ EndIsTheRightOne'
    BY <2>1, VerifySound, VerifyComplete, VerifyEnds
  <2>4. matches' = t.list /\ disabled' = t.disabled /\ Tracked(t, Q[1], end, Len(Q[1]))
    BY <2>1 DEF Verifies
  <2>5. /\ t.list \in Seq(Match) /\ t.disabled \in BOOLEAN /\ SortedByStart(t.list)
        /\ Len(t.list) <= (IF MaxMatches = 0 THEN 1 ELSE MaxMatches)
    BY <2>4 DEF Tracked, Tracks, Limit
  <2>6. TypeOK' /\ SortedByStart(matches')
    BY <1>1, <2>2, <2>4, <2>5 DEF TypeOK
  <2> QED
    BY <2>2, <2>3, <2>6 DEF IInv
<1> QED
  BY <1>3, <1>4, <1>5

\* In a new block nothing was found yet, and nothing is kept.
LEMMA NextBlockNext ==
  ASSUME IInv, NextBlock
  PROVE  IInv'
<1>0. TypeOK /\ SortedByStart(matches) /\ Ranges /\ Sound /\ Complete /\ EndIsTheRightOne
  BY DEF IInv, VectorsInv
<1>1. /\ block < Blocks /\ block' = block + 1 /\ unconfirmed' = NoneConfirmed
      /\ greedy' = greedy /\ matches' = matches /\ disabled' = disabled /\ found' = found
  BY DEF NextBlock
<1>2. /\ \A k \in 1..(Links - 1) : unconfirmed'[k] = <<>> /\ Len(unconfirmed'[k]) = 0
      /\ unconfirmed' \in [1..(Links - 1) -> Seq(Unconfirmed)]
  BY <1>1 DEF NoneConfirmed
<1>3. block \in Nat /\ block + 1 \in 1..Blocks
  BY <1>0, <1>1, Constants DEF TypeOK
<1>4. ASSUME NEW n \in 1..Len(found) PROVE found[n].block <= block + 1 /\ found[n].block # block + 1
  BY <1>0, <1>3, <1>4, ItemIs DEF Ranges
<1>5. Ranges'
  BY <1>0, <1>1, <1>4 DEF Ranges
<1>6. UnconfirmedFound' /\ MarksClosed'
  <2>1. \A j \in 2..(Links - 1) : j \in 1..(Links - 1)
    BY Constants
  <2> QED
    BY <1>2, <2>1 DEF UnconfirmedFound, MarksClosed
<1>7. LinksKept'
  BY <1>1, <1>4 DEF LinksKept, Here
<1>8. HeadsTracked'
  BY <1>2, Constants DEF HeadsTracked
<1>9. TypeOK'
  BY <1>0, <1>1, <1>2, <1>3 DEF TypeOK
<1>10. Chains' = Chains
  BY <1>1 DEF Chains, InGap
<1>11. \A s : TailsFrom(s)' = TailsFrom(s)
  BY <1>1, <1>10 DEF TailsFrom
<1>12. Sound' /\ Complete'
  BY <1>0, <1>1, <1>10 DEF Sound, Complete
<1>13. EndIsTheRightOne'
  <2>1. ASSUME NEW x, EndFor(x) PROVE EndFor(x)'
    BY <1>1, <1>11, <2>1, Zenon DEF EndFor
  <2>2. CASE disabled
    BY <1>1, <2>2 DEF EndIsTheRightOne
  <2>3. CASE ~disabled
    <3>1. \A x \in Elements(matches') : EndFor(x)'
      BY <1>0, <1>1, <2>1, <2>3, EndsAre
    <3> QED
      BY <3>1, EndsAreNext
  <2> QED
    BY <2>2, <2>3
<1> QED
  BY <1>0, <1>1, <1>5, <1>6, <1>7, <1>8, <1>9, <1>12, <1>13 DEF IInv, VectorsInv

-----------------------------------------------------------------------------

LEMMA IInvInit == ASSUME Init PROVE IInv
<1>1. /\ greedy \in BOOLEAN /\ unconfirmed = NoneConfirmed /\ matches = <<>> /\ disabled = FALSE
      /\ block = 1 /\ found = <<>>
  BY DEF Init
<1>2. Len(found) = 0 /\ Len(matches) = 0
  BY <1>1
<1>3. /\ \A k \in 1..(Links - 1) : unconfirmed[k] = <<>> /\ Len(unconfirmed[k]) = 0
      /\ unconfirmed \in [1..(Links - 1) -> Seq(Unconfirmed)]
  BY <1>1 DEF NoneConfirmed
<1>4. TypeOK
  <2>1. 0 <= (IF MaxMatches = 0 THEN 1 ELSE MaxMatches) /\ 1 \in 1..Blocks
    BY ChainAssumption
  <2>2. <<>> \in Seq(Match) /\ <<>> \in Seq([link : 1..Links, block : 1..Blocks, start : Nat, end : Nat])
    BY EmptySeq
  <2> QED
    BY <1>1, <1>2, <1>3, <2>1, <2>2 DEF TypeOK
<1>5. VectorsInv
  <2>1. \A j \in 2..(Links - 1) : j \in 1..(Links - 1)
    BY Constants
  <2> QED
    BY <1>2, <1>3, <2>1, Constants
    DEF VectorsInv, Ranges, UnconfirmedFound, LinksKept, MarksClosed, HeadsTracked
<1>6. Elements(matches) = {} /\ SortedByStart(matches)
  BY <1>2 DEF Elements, SortedByStart
<1>7. Sound /\ EndIsTheRightOne
  BY <1>2, <1>6 DEF Sound, EndIsTheRightOne
<1>8. Complete
  <2> SUFFICES ASSUME NEW c \in Chains PROVE FALSE
    BY DEF Complete
  <2>1. c[1] \in 1..0
    BY <1>2, Constants DEF Chains
  <2> QED
    BY <2>1
<1> QED
  BY <1>4, <1>5, <1>6, <1>7, <1>8 DEF IInv

LEMMA IInvNext == ASSUME IInv, [Next]_vars PROVE IInv'
<1>0. TypeOK
  BY DEF IInv
<1>1. ASSUME NEW k \in 1..Links, NEW len \in Lengths[k], NEW start \in 0..(BlockSize - 1),
             LinkFound(k, BlockBase(block) + start, BlockBase(block) + start + len)
      PROVE  IInv'
  <2>1. BlockBase(block) \in Nat
    <3>1. block - 1 \in Nat /\ BlockSize \in Nat
      BY <1>0, Constants DEF TypeOK
    <3>2. \A a, b \in Nat : a * b \in Nat
      OBVIOUS
    <3> QED
      BY <3>1, <3>2 DEF BlockBase
  <2>2. len \in Nat /\ len > 0
    <3>1. Lengths[k] \subseteq Nat \ {0}
      BY ChainAssumption
    <3> QED
      BY <3>1
  <2>3. PICK a \in Nat, b \in Nat : /\ a = BlockBase(block) + start
                                    /\ b = BlockBase(block) + start + len /\ a < b
    BY <2>1, <2>2, Constants
  <2>4. LinkFound(k, a, b)
    BY <1>1, <2>3
  <2>5. Founds(k, a, b)
    BY <2>3, <2>4 DEF LinkFound, Founds
  <2>6. KeepUnconfirmed(k, a, b) \/ VerifyChain(k, a, b) \/ DropLink(k, a)
    BY <2>4 DEF LinkFound
  <2> QED
    BY <2>5, <2>6, LinkFoundNext
<1>2. CASE NextBlock
  BY <1>2, NextBlockNext
<1>3. CASE UNCHANGED vars
  <2>1. /\ greedy' = greedy /\ unconfirmed' = unconfirmed /\ matches' = matches
        /\ disabled' = disabled /\ block' = block /\ found' = found
    BY <1>3 DEF vars
  <2>2. Chains' = Chains /\ \A s : TailsFrom(s)' = TailsFrom(s)
    BY <2>1 DEF Chains, InGap, TailsFrom
  <2>3. Sound' /\ Complete'
    BY <2>1, <2>2 DEF IInv, Sound, Complete
  <2>4. EndIsTheRightOne'
    BY <2>1, <2>2, Zenon DEF IInv, EndIsTheRightOne
  <2>5. TypeOK' /\ SortedByStart(matches')
    BY <2>1 DEF IInv, TypeOK
  <2>6. Ranges' /\ UnconfirmedFound' /\ LinksKept'
    BY <2>1 DEF IInv, VectorsInv, Ranges, UnconfirmedFound, LinksKept, Kept, Here, InGap
  <2>7. MarksClosed' /\ HeadsTracked'
    BY <2>1 DEF IInv, VectorsInv, MarksClosed, HeadsTracked, Marked, InGap
  <2> QED
    BY <2>3, <2>4, <2>5, <2>6, <2>7 DEF IInv, VectorsInv
<1> QED
  BY <1>1, <1>2, <1>3 DEF Next

LEMMA IInvAlways == Spec => []IInv
<1>1. Init => IInv
  BY IInvInit
<1>2. IInv /\ [Next]_vars => IInv'
  BY IInvNext
<1> QED
  BY <1>1, <1>2, PTL DEF Spec

\* The matches of the pattern are the chains in what was found: every match is
\* a chain of links of one block with the gaps of the pattern, and, unless
\* the limit was hit, every offset where a chain begins has a match
\* (handle_sub_pattern_match and verify_chain_of_matches).
THEOREM ChainsAlwaysExact == Spec => []ChainsAreExact
<1>1. IInv => ChainsAreExact
  <2> SUFFICES ASSUME IInv PROVE ChainsAreExact
    OBVIOUS
  <2>1. TypeOK /\ Sound /\ Complete
    BY DEF IInv
  <2>2. ASSUME NEW i \in 1..Len(matches)
        PROVE  \E t \in TailsFrom(matches[i].start) : matches[i].end = found[t].end
    <3>1. matches[i] \in Elements(matches)
      BY DEF Elements
    <3>2. PICK c \in Chains : found[c[1]].start = matches[i].start /\ found[c[Links]].end = matches[i].end
      BY <2>1, <3>1 DEF Sound
    <3> QED
      BY <3>2, InTails
  <2>3. ASSUME ~disabled PROVE Starts(matches) = {found[c[1]].start : c \in Chains}
    <3>1. ASSUME NEW s \in Starts(matches) PROVE s \in {found[c[1]].start : c \in Chains}
      <4>1. PICK i \in 1..Len(matches) : s = matches[i].start
        BY DEF Starts
      <4>2. matches[i] \in Elements(matches)
        BY DEF Elements
      <4>3. PICK c \in Chains : found[c[1]].start = matches[i].start
        BY <2>1, <4>2 DEF Sound
      <4> QED
        BY <4>1, <4>3
    <3>2. \A c \in Chains : found[c[1]].start \in Starts(matches)
      BY <2>1, <2>3 DEF Complete
    <3> QED
      BY <3>1, <3>2
  <2> QED
    BY <2>1, <2>2, <2>3 DEF ChainsAreExact
<1> QED
  BY <1>1, IInvAlways, PTL

\* Unless the limit was hit, a match ends where the first tail that completed
\* it does and, if the pattern is greedy, not before the last one does
\* (verify_chain_of_matches and the chain lengths it leaves behind).
THEOREM EndsAlwaysRight == Spec => []EndIsTheRightOne
<1>1. IInv => EndIsTheRightOne
  BY DEF IInv
<1> QED
  BY <1>1, IInvAlways, PTL
====
