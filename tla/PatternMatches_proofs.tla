----------------------- MODULE PatternMatches_proofs -----------------------
(***************************************************************************)
(* For any finite set of patterns and any matches, limits and capacities:  *)
(* the match lists stay sorted with one match per starting offset; between *)
(* two calls of `clear` they lose no offset and never grow at the limit;   *)
(* the count of matches in a range is exact; the running total of          *)
(* capacities is their sum; and the store implements OffsetMap.  The       *)
(* inductive invariant is TypeOK /\ AllSorted /\ VacantIsEmpty; the heart  *)
(* of the proof is that Add inserts one offset in a sorted list, which     *)
(* needs the position that the binary search returns to exist.             *)
(*                                                                         *)
(* The last part is about BlockSnippets, the snippets that a block scanner *)
(* takes of the matches in such lists: every match that a searched block   *)
(* with its base contains can be read, whatever else the blocks contain.   *)
(***************************************************************************)
EXTENDS PatternMatches, BlockSnippets, MatchList_proofs

\* A pattern without an entry in the hash map has no matches.
VacantIsEmpty == \A p \in Patterns \ occupied : lists[p] = <<>>

IInv == TypeOK /\ AllSorted /\ VacantIsEmpty

LEMMA IInvInit == Init => IInv
BY DEF Init, IInv, TypeOK, AllSorted, SortedByStart, VacantIsEmpty

LEMMA IInvNext == IInv /\ [Next]_vars => IInv'
<1> SUFFICES ASSUME IInv, [Next]_vars PROVE IInv'
  OBVIOUS
<1> USE PatternMatchesAssumption DEF IInv, TypeOK
<1>1. ASSUME NEW p \in Patterns, NEW m \in Matches, NEW replace \in BOOLEAN,
             AddVacant(p, m, replace)
      PROVE  IInv'
  <2> DEFINE new == Add(<<>>, m, replace)
  <2>1. new \in Seq(Match) /\ SortedByStart(new)
    BY DEF Add, SortedByStart
  <2> HIDE DEF new
  <2>2. /\ lists' = [lists EXCEPT ![p] = new]
        /\ caps' = [caps EXCEPT ![p] = InitialCapacity]
        /\ capacity' = capacity + InitialCapacity
        /\ occupied' = occupied \cup {p}
        /\ max_matches_per_pattern' = max_matches_per_pattern
    BY <1>1 DEF AddVacant, new
  <2>3. TypeOK'
    BY <2>1, <2>2
  <2>4. AllSorted'
    BY <2>1, <2>2 DEF AllSorted
  <2>5. VacantIsEmpty'
    BY <2>2 DEF VacantIsEmpty
  <2>6. QED
    BY <2>3, <2>4, <2>5
<1>2. ASSUME NEW p \in Patterns, NEW m \in Matches, NEW replace \in BOOLEAN,
             AddOccupied(p, m, replace)
      PROVE  IInv'
  <2> DEFINE new == Add(lists[p], m, replace)
  <2>1. new \in Seq(Match) /\ SortedByStart(new) /\ Len(new) \in Nat
    BY AddPreservesSorted DEF AllSorted
  <2> HIDE DEF new
  <2>2. /\ lists' = [lists EXCEPT ![p] = new]
        /\ caps' = [caps EXCEPT ![p] = Grown(caps[p], Len(new))]
        /\ capacity' = (capacity - caps[p]) + caps'[p]
        /\ occupied' = occupied /\ p \in occupied
        /\ max_matches_per_pattern' = max_matches_per_pattern
    BY <1>2 DEF AddOccupied, new
  <2>3. /\ Grown(caps[p], Len(new)) \in Nat
        /\ Grown(caps[p], Len(new)) >= caps[p]
    BY <2>1 DEF Grown
  <2>4. TypeOK'
    BY <2>1, <2>2, <2>3
  <2>5. AllSorted'
    BY <2>1, <2>2 DEF AllSorted
  <2>6. VacantIsEmpty'
    BY <2>2 DEF VacantIsEmpty
  <2>7. QED
    BY <2>4, <2>5, <2>6
<1>3. CASE Clear
  BY <1>3 DEF Clear, AllSorted, SortedByStart, VacantIsEmpty
<1>4. ASSUME NEW n \in Limits, SetMax(n) PROVE IInv'
  BY <1>4 DEF SetMax, AllSorted, VacantIsEmpty
<1>5. CASE UNCHANGED vars
  BY <1>5 DEF vars, AllSorted, VacantIsEmpty
<1>6. ASSUME NEW p \in Patterns, NEW m \in Matches, NEW replace \in BOOLEAN,
             AddRejected(p, m, replace)
      PROVE  IInv'
  BY <1>6 DEF AddRejected, AllSorted, VacantIsEmpty
<1>7. QED
  BY <1>1, <1>2, <1>3, <1>4, <1>5, <1>6 DEF Next

\* Whatever is added, in whatever order, every match list of the store is
\* sorted by start with at most one match per offset.
THEOREM AlwaysSorted == Spec => []AllSorted
<1>1. IInv => AllSorted
  BY DEF IInv
<1>2. QED
  BY IInvInit, IInvNext, <1>1, PTL DEF Spec

\* The store is well typed: in particular the running total of capacities
\* never becomes negative.
THEOREM AlwaysTyped == Spec => []TypeOK
<1>1. IInv => TypeOK
  BY DEF IInv
<1>2. QED
  BY IInvInit, IInvNext, <1>1, PTL DEF Spec

\* One addition to a list below the limit: no reported offset is lost.
LEMMA StepGrowsToTheLimit ==
  ASSUME 0 \notin Limits, IInv, [Next]_vars, ~Clear, NEW p \in Patterns
  PROVE  /\ Starts(lists[p]) \subseteq Starts(lists'[p])
         /\ Len(lists'[p]) <= Len(lists[p]) \/ Len(lists[p]) < max_matches_per_pattern
<1> USE PatternMatchesAssumption DEF IInv, TypeOK
<1>1. ASSUME NEW q \in Patterns, NEW m \in Matches, NEW replace \in BOOLEAN,
             AddVacant(q, m, replace), q = p
      PROVE  /\ Starts(lists[p]) \subseteq Starts(lists'[p])
             /\ Len(lists[p]) < max_matches_per_pattern
  <2>1. lists[p] = <<>>
    BY <1>1 DEF AddVacant, VacantIsEmpty
  <2>2. Starts(lists[p]) = {} /\ Len(lists[p]) = 0
    BY <2>1 DEF Starts
  <2>3. QED
    BY <2>2
<1>2. ASSUME NEW q \in Patterns, NEW m \in Matches, NEW replace \in BOOLEAN,
             AddOccupied(q, m, replace), q = p
      PROVE  /\ Starts(lists[p]) \subseteq Starts(lists'[p])
             /\ Len(lists[p]) < max_matches_per_pattern
  <2>1. lists'[p] = Add(lists[p], m, replace) /\ Len(lists[p]) < max_matches_per_pattern
    BY <1>2 DEF AddOccupied
  <2>2. Starts(Add(lists[p], m, replace)) = Starts(lists[p]) \cup {m.start}
    BY AddPreservesSorted DEF AllSorted
  <2>3. QED
    BY <2>1, <2>2
<1>3. CASE lists'[p] = lists[p]
  BY <1>3
<1>4. QED
  <2>1. ASSUME NEW q \in Patterns, NEW m \in Matches, NEW replace \in BOOLEAN,
               AddVacant(q, m, replace) \/ AddOccupied(q, m, replace), q # p
        PROVE  lists'[p] = lists[p]
    BY <2>1 DEF AddVacant, AddOccupied
  <2>2. ASSUME NEW n \in Limits, SetMax(n)
        PROVE  lists'[p] = lists[p]
    BY <2>2 DEF SetMax
  <2>3. QED
    BY <1>1, <1>2, <1>3, <2>1, <2>2 DEF Next, AddRejected, vars

\* With no limit of 0, an offset that was reported stays reported until the
\* lists are cleared, and a list that is at the limit does not grow.
THEOREM AlwaysGrowsToTheLimit ==
  ASSUME 0 \notin Limits
  PROVE  Spec => ListsGrowToTheLimit
<1>1. IInv /\ [Next]_vars =>
        [~Clear => \A p \in Patterns :
           /\ Starts(lists[p]) \subseteq Starts(lists'[p])
           /\ Len(lists'[p]) <= Len(lists[p])
                \/ Len(lists[p]) < max_matches_per_pattern]_vars
  BY StepGrowsToTheLimit
<1>2. QED
  BY IInvInit, IInvNext, <1>1, PTL DEF Spec, ListsGrowToTheLimit

-----------------------------------------------------------------------------

LEMMA StepMatchesGrow ==
  ASSUME IInv, [Next]_vars, ~Clear, NEW p \in Patterns, NEW i \in 1..(Len(lists[p]) - 1)
  PROVE  Survives(lists[p][i], lists'[p])
<1> USE PatternMatchesAssumption DEF IInv, TypeOK
<1>0. lists[p] \in Seq(Match) /\ Len(lists[p]) \in Nat /\ i \in 1..Len(lists[p])
      /\ lists[p][i] \in Match /\ lists[p][i].end \in Nat
  <2>1. lists[p] \in Seq(Match) /\ Len(lists[p]) \in Nat
    BY LenProperties
  <2>2. i \in 1..Len(lists[p])
    BY <2>1
  <2>3. lists[p][i] \in Match
    BY <2>1, <2>2, ElementOfSeq
  <2>4. QED
    BY <2>1, <2>2, <2>3 DEF Match
<1>1. ASSUME NEW m \in Matches, NEW replace \in BOOLEAN PROVE ~AddVacant(p, m, replace)
  <2>1. p \notin occupied => Len(lists[p]) = 0
    BY DEF VacantIsEmpty
  <2>2. p \in occupied
    BY <1>0, <2>1
  <2>3. QED
    BY <2>2 DEF AddVacant
<1>2. ASSUME NEW m \in Matches, NEW replace \in BOOLEAN, AddOccupied(p, m, replace)
      PROVE  Survives(lists[p][i], lists'[p])
  <2>1. lists'[p] = Add(lists[p], m, replace)
    BY <1>2 DEF AddOccupied
  <2>2. m \in Match /\ SortedByStart(lists[p])
    BY DEF AllSorted
  <2>3. QED
    BY <1>0, <2>1, <2>2, AddOnlyGrows
<1>3. CASE lists'[p] = lists[p]
  BY <1>0, <1>3 DEF Survives
<1>4. QED
  <2>1. ASSUME NEW q \in Patterns, NEW m \in Matches, NEW replace \in BOOLEAN,
               AddVacant(q, m, replace) \/ AddOccupied(q, m, replace), q # p
        PROVE  lists'[p] = lists[p]
    BY <2>1 DEF AddVacant, AddOccupied
  <2>2. ASSUME NEW n \in Limits, SetMax(n)
        PROVE  lists'[p] = lists[p]
    BY <2>2 DEF SetMax
  <2>3. QED
    BY <1>1, <1>2, <1>3, <2>1, <2>2 DEF Next, AddRejected, vars

\* Between two calls of `clear` no match that is not the last of its list gets
\* shorter, moves to another block or disappears, whatever is added.
THEOREM MatchesAlwaysGrow == Spec => MatchesOnlyGrow
<1>1. IInv /\ [Next]_vars =>
        [~Clear => \A p \in Patterns : \A i \in 1..(Len(lists[p]) - 1) :
           \E j \in 1..Len(lists'[p]) :
              /\ lists'[p][j].start = lists[p][i].start
              /\ lists'[p][j].base = lists[p][i].base
              /\ lists'[p][j].end >= lists[p][i].end]_vars
  BY StepMatchesGrow DEF Survives
<1>2. QED
  BY IInvInit, IInvNext, <1>1, PTL DEF Spec, MatchesOnlyGrow

-----------------------------------------------------------------------------

\* Whatever was added before, and for any bounds, the count that
\* `#a in (lo..hi)` gets from its binary search is the number of matches that
\* start in the range.
THEOREM RangeCountsAreExact == Spec => []RangeCountIsExact
<1>1. IInv => RangeCountIsExact
  <2>1. SUFFICES ASSUME IInv, NEW p \in Patterns,
                        NEW lo \in Bounds, NEW hi \in Bounds
                 PROVE  MatchesInRange(lists[p], lo, hi)
                          = Cardinality({i \in 1..Len(lists[p]) : lists[p][i].start \in lo..hi})
    BY DEF RangeCountIsExact
  <2>2. lists[p] \in Seq(Match) /\ SortedByStart(lists[p]) /\ Len(lists[p]) \in Nat
    BY <2>1, LenProperties DEF IInv, TypeOK, AllSorted
  <2>3. lo \in Int /\ hi \in Int
    BY PatternMatchesAssumption
  <2>4. QED
    BY <2>2, <2>3, RangeCount
<1>2. QED
  BY IInvInit, IInvNext, <1>1, PTL DEF Spec

-----------------------------------------------------------------------------

\* The refinement mapping is MapOf, list by list.
LEMMA FoundMapIsMapOf == FoundMap = [p \in Patterns |-> MapOf(lists[p])]
BY DEF FoundMap, MapOf, Elements

LEMMA FoundMapPrime == FoundMap' = [p \in Patterns |-> MapOf(lists'[p])]
BY DEF FoundMap, MapOf, Elements, Starts

LEMMA RefinementInit == Init => Abstract!Init
<1> SUFFICES ASSUME Init PROVE Abstract!Init
  OBVIOUS
<1>1. \A p \in Patterns : lists[p] = <<>>
  BY DEF Init
<1>2. FoundMap = [p \in Patterns |-> <<>>]
  BY <1>1, FoundMapIsMapOf, MapOfEmpty
<1>3. QED
  BY <1>2 DEF Init, Abstract!Init, NotAnOffer, Abstract!NotAnOffer

\* The abstract map of p after an offer, in terms of p's list.
LEMMA AfterIs ==
  ASSUME IInv, NEW p \in Patterns, NEW m \in Matches, NEW replace \in BOOLEAN
  PROVE  LET list == lists[p]
             after == Abstract!After(p, m.start, m.end, replace) IN
           /\ Len(list) >= max_matches_per_pattern => after = MapOf(list)
           /\ Len(list) < max_matches_per_pattern => after = MapOf(Add(list, m, replace))
<1> USE PatternMatchesAssumption DEF IInv, TypeOK
<1> DEFINE list == lists[p]
<1> DEFINE r == Add(list, m, replace)
<1> DEFINE after == Abstract!After(p, m.start, m.end, replace)
<1>1. list \in Seq(Match) /\ SortedByStart(list) /\ m \in Match
  BY DEF AllSorted
<1>2. FoundMap[p] = MapOf(list) /\ DOMAIN FoundMap[p] = Starts(list)
  BY FoundMapIsMapOf DEF MapOf
<1>3. Abstract!Cardinality(DOMAIN FoundMap[p]) = Len(list)
  <2>1. Cardinality(Starts(list)) = Len(list)
    BY <1>1, StartsAreCounted
  <2>2. Abstract!Cardinality(DOMAIN FoundMap[p]) = Cardinality(DOMAIN FoundMap[p])
    BY DEF Abstract!Cardinality, Abstract!IsFiniteSet, Cardinality, IsFiniteSet
  <2>3. QED
    BY <1>2, <2>1, <2>2
<1>4. Len(list) \in Nat /\ max_matches_per_pattern \in Nat
  BY <1>1, LenProperties
<1>5. \/ /\ m.start \notin Starts(list)
         /\ MapOf(r) = [o \in Starts(list) \cup {m.start} |->
                          IF o = m.start THEN m.end ELSE MapOf(list)[o]]
      \/ m.start \in Starts(list) /\ r = list /\ ~MayReplace(list, m, replace)
      \/ /\ m.start \in Starts(list) /\ MayReplace(list, m, replace)
         /\ MapOf(r) = [MapOf(list) EXCEPT ![m.start] = m.end]
  BY <1>1, AddMaps, Zenon
<1>6. MayReplace(list, m, replace)
        <=> replace /\ (m.end > FoundMap[p][m.start] \/ Abstract!IsGreatest(p, m.start))
  <2> HIDE DEF list
  <2>1. QED
    BY <1>2 DEF MayReplace, Abstract!IsGreatest
<1>7. after = CASE Len(list) >= max_matches_per_pattern -> MapOf(list)
                [] Len(list) < max_matches_per_pattern /\ m.start \notin Starts(list) ->
                     [o \in Starts(list) \cup {m.start} |->
                        IF o = m.start THEN m.end ELSE MapOf(list)[o]]
                [] Len(list) < max_matches_per_pattern /\ m.start \in Starts(list) ->
                     IF MayReplace(list, m, replace)
                     THEN [MapOf(list) EXCEPT ![m.start] = m.end] ELSE MapOf(list)
  <2> HIDE DEF list
  <2>1. QED
    BY <1>2, <1>3, <1>6 DEF Abstract!After
<1> HIDE DEF after, r, list
<1>8. CASE Len(list) >= max_matches_per_pattern
  <2>1. ~(Len(list) < max_matches_per_pattern)
    BY <1>4, <1>8
  <2>2. QED
    BY <1>7, <1>8, <2>1 DEF after, list
<1>9. CASE Len(list) < max_matches_per_pattern
  <2>1. ~(Len(list) >= max_matches_per_pattern)
    BY <1>4, <1>9
  <2>2. after = MapOf(r)
    BY <1>5, <1>7, <1>9, <2>1
  <2>3. QED
    BY <1>9, <2>1, <2>2 DEF after, r, list
<1>10. QED
  BY <1>4, <1>8, <1>9

\* A call of add is the offer of the abstract map, whatever it does.
LEMMA RefinementAdd ==
  ASSUME IInv, NEW p \in Patterns, NEW m \in Matches, NEW replace \in BOOLEAN,
         \/ /\ Len(lists[p]) < max_matches_per_pattern
            /\ lists' = [lists EXCEPT ![p] = Add(lists[p], m, replace)]
         \/ Len(lists[p]) >= max_matches_per_pattern /\ UNCHANGED lists,
         Offering(p, m, replace),
         UNCHANGED max_matches_per_pattern
  PROVE  Abstract!Next
<1> USE PatternMatchesAssumption DEF IInv, TypeOK
<1> DEFINE after == Abstract!After(p, m.start, m.end, replace)
<1>1. FoundMap' = [FoundMap EXCEPT ![p] = after]
  <2>1. CASE Len(lists[p]) < max_matches_per_pattern /\ lists' = [lists EXCEPT ![p] = Add(lists[p], m, replace)]
    <3> DEFINE r == Add(lists[p], m, replace)
    <3>1. after = MapOf(r)
      BY <2>1, AfterIs
    <3>2. \A q \in Patterns : lists'[q] = IF q = p THEN r ELSE lists[q]
      BY <2>1
    <3> HIDE DEF r, after
    <3>3. QED
      BY <3>1, <3>2, FoundMapIsMapOf, FoundMapPrime
  <2>2. CASE Len(lists[p]) >= max_matches_per_pattern /\ UNCHANGED lists
    <3>1. after = MapOf(lists[p])
      BY <2>2, AfterIs
    <3> HIDE DEF after
    <3>2. QED
      BY <2>2, <3>1, FoundMapIsMapOf, FoundMapPrime
  <2>3. QED
    BY <2>1, <2>2
<1>2. Abstract!Offer(p, m.start, m.end, replace)
  BY <1>1 DEF Abstract!Offer, Offering
<1>3. QED
  BY <1>2 DEF Abstract!Next

LEMMA RefinementNext ==
  ASSUME 0 \notin Limits, IInv, [Next]_vars
  PROVE  [Abstract!Next]_Abstract!vars
<1> USE PatternMatchesAssumption DEF IInv, TypeOK
<1>1. ASSUME NEW p \in Patterns, NEW m \in Matches, NEW replace \in BOOLEAN,
             AddVacant(p, m, replace)
      PROVE  Abstract!Next
  <2>1. lists[p] = <<>>
    BY <1>1 DEF AddVacant, VacantIsEmpty
  <2>2. Len(lists[p]) < max_matches_per_pattern
    BY <2>1
  <2>3. lists' = [lists EXCEPT ![p] = Add(lists[p], m, replace)]
        /\ UNCHANGED max_matches_per_pattern /\ Offering(p, m, replace)
    BY <1>1, <2>1 DEF AddVacant
  <2>4. QED
    BY <2>2, <2>3, RefinementAdd
<1>2. ASSUME NEW p \in Patterns, NEW m \in Matches, NEW replace \in BOOLEAN,
             AddOccupied(p, m, replace) \/ AddRejected(p, m, replace)
      PROVE  Abstract!Next
  <2>1. /\ \/ /\ Len(lists[p]) < max_matches_per_pattern
              /\ lists' = [lists EXCEPT ![p] = Add(lists[p], m, replace)]
           \/ Len(lists[p]) >= max_matches_per_pattern /\ UNCHANGED lists
        /\ UNCHANGED max_matches_per_pattern /\ Offering(p, m, replace)
    BY <1>2 DEF AddOccupied, AddRejected
  <2>2. QED
    BY <2>1, RefinementAdd
<1>3. CASE Clear
  <2>1. \A p \in Patterns : lists'[p] = <<>>
    BY <1>3 DEF Clear
  <2>2. FoundMap' = [p \in Patterns |-> <<>>]
    BY <2>1, FoundMapPrime, MapOfEmpty
  <2>3. Abstract!Clear
    BY <2>2, <1>3 DEF Clear, Abstract!Clear, NotAnOffer, Abstract!NotAnOffer
  <2>4. QED
    BY <2>3 DEF Abstract!Next
<1>4. ASSUME UNCHANGED lists PROVE UNCHANGED FoundMap
  BY <1>4, FoundMapIsMapOf, FoundMapPrime
<1>5. ASSUME NEW n \in Limits, SetMax(n) PROVE [Abstract!Next]_Abstract!vars
  <2>1. Abstract!SetLimit(n)
    BY <1>4, <1>5 DEF SetMax, Abstract!SetLimit, NotAnOffer, Abstract!NotAnOffer
  <2>2. QED
    BY <2>1 DEF Abstract!Next
<1>6. CASE UNCHANGED vars
  BY <1>4, <1>6 DEF vars, Abstract!vars
<1>7. QED
  BY <1>1, <1>2, <1>3, <1>5, <1>6 DEF Next

\* With no limit of 0, the sorted vectors of the match store are, call by call,
\* the map from offsets to matches of OffsetMap, which says exactly when the end
\* of a match is replaced.
THEOREM StoreImplementsMap ==
  ASSUME 0 \notin Limits
  PROVE  Spec => ImplementsOffsetMap
<1>1. IInv /\ [Next]_vars => [Abstract!Next]_Abstract!vars
  BY RefinementNext
<1>2. QED
  BY IInvInit, IInvNext, RefinementInit, <1>1, PTL
     DEF Spec, ImplementsOffsetMap, Abstract!Spec
-----------------------------------------------------------------------------
(* The running total of the capacities.                                     *)

\* The sum over a set of patterns, as the fold computes it.
Pick(s) == CHOOSE x \in s : TRUE
Step(g, c, s) == IF s = {} THEN 0 ELSE c[Pick(s)] + g[s \ {Pick(s)}]
SumEq(g, c) == g = [s \in SUBSET Patterns |-> Step(g, c, s)]
SumOf(c) == CHOOSE g : SumEq(g, c)

LEMMA SumIs == MapThenSumSet(LAMBDA p : caps[p], Patterns) = SumOf(caps)[Patterns]
BY Zenon DEF MapThenSumSet, MapThenFoldSet, SumOf, SumEq, Step, Pick

LEMMA PickIs ==
  ASSUME NEW s \in SUBSET Patterns, s # {}
  PROVE  /\ Pick(s) \in s /\ Pick(s) \in Patterns /\ s \ {Pick(s)} \in SUBSET Patterns
         /\ Cardinality(s) \in Nat /\ Cardinality(s \ {Pick(s)}) \in Nat
         /\ Cardinality(s \ {Pick(s)}) = Cardinality(s) - 1
<1>1. Pick(s) \in s
  BY DEF Pick
<1>2. IsFiniteSet(s)
  BY PatternMatchesAssumption, FS_Subset
<1> HIDE DEF Pick
<1> QED
  BY <1>1, <1>2, FS_CardinalityType, FS_RemoveElement

\* A set of sets of patterns that never holds a set without holding the set
\* without the element picked is empty.
LEMMA SetInduction ==
  ASSUME NEW B \in SUBSET SUBSET Patterns, {} \notin B,
         \A s \in SUBSET Patterns : s # {} /\ s \ {Pick(s)} \notin B => s \notin B
  PROVE  B = {}
<1> SUFFICES ASSUME B # {} PROVE FALSE
  OBVIOUS
<1> DEFINE T == {Cardinality(s) : s \in B}
<1>1. ASSUME NEW s \in B
      PROVE  /\ s \ {Pick(s)} \in B /\ Cardinality(s) \in Nat
             /\ Cardinality(s \ {Pick(s)}) < Cardinality(s)
  <2>1. s \in SUBSET Patterns /\ s # {}
    BY Zenon
  <2>2. /\ Cardinality(s) \in Nat /\ Cardinality(s \ {Pick(s)}) \in Nat
        /\ Cardinality(s \ {Pick(s)}) = Cardinality(s) - 1
    BY <2>1, PickIs, Zenon
  <2>3. s \ {Pick(s)} \in B
    BY <2>1, Zenon
  <2> QED
    BY <2>2, <2>3
<1>2. T \subseteq Nat /\ T # {}
  <2>1. ASSUME NEW i \in T PROVE i \in Nat
    <3>1. PICK s \in B : i = Cardinality(s)
      BY Zenon
    <3> QED
      BY <1>1, <3>1, Zenon
  <2>2. PICK s : s \in B
    BY Zenon
  <2>3. Cardinality(s) \in T
    BY <2>2, Zenon
  <2> QED
    BY <2>1, <2>3, Zenon
<1>3. PICK i \in T : \A k \in T : ~(k < i)
  BY <1>2, LeastNat
<1>4. PICK s \in B : i = Cardinality(s)
  BY <1>3
<1>5. Cardinality(s \ {Pick(s)}) \in T
  BY <1>1
<1> QED
  BY <1>1, <1>3, <1>4, <1>5

\* The fold has an equation, up to any cardinality.
SumUpTo(g, c, n) ==
  /\ g \in [SUBSET Patterns -> Nat]
  /\ \A s \in SUBSET Patterns : Cardinality(s) <= n => g[s] = Step(g, c, s)

LEMMA SumUpToNext ==
  ASSUME NEW c \in [Patterns -> Nat], NEW n \in Nat, NEW g, SumUpTo(g, c, n)
  PROVE  \E h : SumUpTo(h, c, n + 1)
<1> DEFINE h == [s \in SUBSET Patterns |-> IF Cardinality(s) <= n THEN g[s] ELSE Step(g, c, s)]
<1>1. ASSUME NEW s \in SUBSET Patterns
      PROVE  Step(g, c, s) \in Nat /\ g[s] \in Nat
  <2>1. CASE s = {}
    BY <2>1 DEF Step, SumUpTo
  <2>2. CASE s # {}
    <3>1. Pick(s) \in Patterns /\ s \ {Pick(s)} \in SUBSET Patterns
      BY <2>2, PickIs
    <3>2. c[Pick(s)] \in Nat /\ g[s \ {Pick(s)}] \in Nat /\ g[s] \in Nat
      BY <3>1 DEF SumUpTo
    <3> QED
      BY <2>2, <3>2 DEF Step
  <2> QED
    BY <2>1, <2>2
<1>2. h \in [SUBSET Patterns -> Nat]
  BY <1>1
<1>3. ASSUME NEW s \in SUBSET Patterns, Cardinality(s) <= n + 1 PROVE h[s] = Step(h, c, s)
  <2>1. CASE s = {}
    <3>1. Step(g, c, s) = 0 /\ Step(h, c, s) = 0 /\ Cardinality(s) = 0
      BY <2>1, FS_EmptySet DEF Step
    <3> QED
      BY <3>1 DEF SumUpTo
  <2>2. CASE s # {}
    <3> DEFINE t == s \ {Pick(s)}
    <3>1. /\ t \in SUBSET Patterns /\ Cardinality(s) \in Nat /\ Cardinality(t) \in Nat
          /\ Cardinality(t) = Cardinality(s) - 1
      BY <2>2, PickIs
    <3>2. h[t] = g[t]
      BY <1>3, <3>1
    <3>3. Step(h, c, s) = Step(g, c, s)
      BY <2>2, <3>2 DEF Step
    <3>4. h[s] = Step(g, c, s)
      BY <1>3 DEF SumUpTo
    <3> QED
      BY <3>3, <3>4
  <2> QED
    BY <2>1, <2>2
<1> HIDE DEF h
<1>4. SumUpTo(h, c, n + 1)
  BY <1>2, <1>3 DEF SumUpTo
<1> QED
  BY <1>4

LEMMA SumExists ==
  ASSUME NEW c \in [Patterns -> Nat]
  PROVE  SumEq(SumOf(c), c)
<1> DEFINE P(n) == \E g : SumUpTo(g, c, n)
           T == {n \in Nat : ~P(n)}
<1>1. P(0)
  <2> DEFINE g == [s \in SUBSET Patterns |-> 0]
  <2>1. ASSUME NEW s \in SUBSET Patterns, Cardinality(s) <= 0 PROVE g[s] = Step(g, c, s)
    <3>1. CASE s # {}
      <4>1. /\ Cardinality(s) \in Nat /\ Cardinality(s \ {Pick(s)}) \in Nat
            /\ Cardinality(s \ {Pick(s)}) = Cardinality(s) - 1
        BY <3>1, PickIs, Zenon
      <4> QED
        BY <2>1, <4>1
    <3>2. CASE s = {}
      BY <3>2 DEF Step
    <3> QED
      BY <3>1, <3>2
  <2>2. g \in [SUBSET Patterns -> Nat]
    OBVIOUS
  <2> HIDE DEF g
  <2>3. SumUpTo(g, c, 0)
    BY <2>1, <2>2 DEF SumUpTo
  <2> QED
    BY <2>3
<1>2. ASSUME NEW n \in Nat, P(n) PROVE P(n + 1)
  BY <1>2, SumUpToNext
<1> HIDE DEF P
<1>3. T = {}
  <2> SUFFICES ASSUME T # {} PROVE FALSE
    OBVIOUS
  <2>1. T \subseteq Nat
    OBVIOUS
  <2>2. PICK i \in T : \A k \in T : ~(k < i)
    BY <2>1, LeastNat
  <2>3. i \in Nat /\ ~P(i) /\ i # 0
    BY <1>1, <2>2
  <2>4. i - 1 \in Nat /\ i - 1 < i /\ (i - 1) + 1 = i
    BY <2>3
  <2>5. P(i - 1)
    BY <2>2, <2>4
  <2>6. P((i - 1) + 1)
    BY <1>2, <2>4, <2>5
  <2> QED
    BY <2>3, <2>4, <2>6
<1>4. IsFiniteSet(Patterns) /\ Cardinality(Patterns) \in Nat
  BY PatternMatchesAssumption, FS_CardinalityType
<1>5. PICK g : SumUpTo(g, c, Cardinality(Patterns))
  BY <1>3, <1>4 DEF P
<1>6. \A s \in SUBSET Patterns : Cardinality(s) <= Cardinality(Patterns)
  BY <1>4, FS_Subset
<1>7. \A s \in SUBSET Patterns : g[s] = Step(g, c, s)
  BY <1>5, <1>6 DEF SumUpTo
<1>8. SumEq(g, c)
  <2>1. g = [s \in SUBSET Patterns |-> g[s]]
    BY <1>5 DEF SumUpTo
  <2> QED
    BY <1>7, <2>1, Zenon DEF SumEq
<1> QED
  BY <1>8 DEF SumOf

LEMMA SumStep ==
  ASSUME NEW c \in [Patterns -> Nat], NEW s \in SUBSET Patterns
  PROVE  /\ s = {} => SumOf(c)[s] = 0
         /\ s # {} => SumOf(c)[s] = c[Pick(s)] + SumOf(c)[s \ {Pick(s)}]
<1> DEFINE g == SumOf(c)
<1>1. g = [t \in SUBSET Patterns |-> Step(g, c, t)]
  BY SumExists DEF SumEq
<1> HIDE DEF g
<1>2. g[s] = Step(g, c, s)
  BY <1>1
<1>3. (s = {} => g[s] = 0) /\ (s # {} => g[s] = c[Pick(s)] + g[s \ {Pick(s)}])
  BY <1>2 DEF Step
<1> QED
  BY <1>3 DEF g

LEMMA SumType ==
  ASSUME NEW c \in [Patterns -> Nat]
  PROVE  \A s \in SUBSET Patterns : SumOf(c)[s] \in Nat
<1> DEFINE g == SumOf(c)
           B == {s \in SUBSET Patterns : g[s] \notin Nat}
<1>1. {} \notin B
  <2>1. {} \in SUBSET Patterns
    OBVIOUS
  <2>2. g[{}] = 0
    BY <2>1, SumStep, Zenon
  <2> QED
    BY <2>2
<1>2. ASSUME NEW s \in SUBSET Patterns, s # {}, s \ {Pick(s)} \notin B PROVE s \notin B
  <2>1. Pick(s) \in Patterns /\ s \ {Pick(s)} \in SUBSET Patterns
    BY <1>2, PickIs
  <2>2. c[Pick(s)] \in Nat /\ g[s \ {Pick(s)}] \in Nat
    BY <1>2, <2>1
  <2>3. g[s] = c[Pick(s)] + g[s \ {Pick(s)}]
    BY <1>2, SumStep
  <2> QED
    BY <2>2, <2>3
<1>3. B = {}
  <2>1. B \in SUBSET SUBSET Patterns
    OBVIOUS
  <2> HIDE DEF B
  <2> QED
    BY <1>1, <1>2, <2>1, SetInduction
<1> QED
  BY <1>3

\* One pattern's capacity changes: so does the sum.
Resized(c, p, v) == [c EXCEPT ![p] = v]

LEMMA SumChange ==
  ASSUME NEW c \in [Patterns -> Nat], NEW p \in Patterns, NEW v \in Nat,
         NEW d \in [Patterns -> Nat], d = Resized(c, p, v)
  PROVE  SumOf(d)[Patterns] = (SumOf(c)[Patterns] - c[p]) + v
<1> DEFINE g == SumOf(c)
           h == SumOf(d)
           more(s) == IF p \in s THEN v - c[p] ELSE 0
           B == {s \in SUBSET Patterns : h[s] # g[s] + more(s)}
<1>1. c[p] \in Nat /\ d[p] = v /\ \A q \in Patterns : q # p => d[q] = c[q]
  BY DEF Resized
<1>2. \A s \in SUBSET Patterns : g[s] \in Nat /\ h[s] \in Nat /\ more(s) \in Int
  <2>1. \A s \in SUBSET Patterns : g[s] \in Nat
    BY SumType, Zenon
  <2>2. \A s \in SUBSET Patterns : h[s] \in Nat
    BY SumType, Zenon
  <2>3. \A s \in SUBSET Patterns : more(s) \in Int
    BY <1>1
  <2> QED
    BY <2>1, <2>2, <2>3, Zenon
<1>3. {} \notin B
  <2>0. {} \in SUBSET Patterns
    OBVIOUS
  <2>1. g[{}] = 0 /\ h[{}] = 0 /\ more({}) = 0
    BY <2>0, SumStep, Zenon
  <2> QED
    BY <2>1
<1>4. ASSUME NEW s \in SUBSET Patterns, s # {}, s \ {Pick(s)} \notin B PROVE s \notin B
  <2> DEFINE x == Pick(s)
             t == s \ {x}
  <2>1. x \in s /\ x \in Patterns /\ t \in SUBSET Patterns
    BY <1>4, PickIs
  <2>2. g[s] = c[x] + g[t] /\ h[s] = d[x] + h[t]
    BY <1>4, SumStep
  <2>3. h[t] = g[t] + more(t)
    BY <1>4, <2>1
  <2>4. c[x] \in Nat /\ d[x] \in Nat /\ g[t] \in Nat /\ h[t] \in Nat
    BY <1>2, <2>1
  <2> HIDE DEF x, g, h
  <2>5. d[x] + more(t) = c[x] + more(s)
    <3>1. CASE x = p
      BY <1>1, <2>1, <2>4, <3>1
    <3>2. CASE x # p
      <4>1. d[x] = c[x] /\ more(t) = more(s)
        BY <1>1, <2>1, <3>2
      <4> QED
        BY <4>1
    <3> QED
      BY <3>1, <3>2
  <2>6. more(t) \in Int /\ more(s) \in Int
    BY <1>1
  <2> HIDE DEF more
  <2>7. h[s] = g[s] + more(s)
    BY <2>2, <2>3, <2>4, <2>5, <2>6
  <2> QED
    BY <2>7
<1>5. B = {}
  <2>1. B \in SUBSET SUBSET Patterns
    OBVIOUS
  <2> HIDE DEF B
  <2> QED
    BY <1>3, <1>4, <2>1, SetInduction
<1>6. h[Patterns] = g[Patterns] + more(Patterns) /\ g[Patterns] \in Nat
  BY <1>2, <1>5
<1> HIDE DEF g, h
<1>7. h[Patterns] = (g[Patterns] - c[p]) + v
  BY <1>1, <1>6
<1> QED
  BY <1>7 DEF g, h

LEMMA SumOfNone ==
  ASSUME NEW c, c = [p \in Patterns |-> 0]
  PROVE  SumOf(c)[Patterns] = 0
<1> DEFINE g == SumOf(c)
           B == {s \in SUBSET Patterns : g[s] # 0}
<1>0. c \in [Patterns -> Nat]
  OBVIOUS
<1>1. {} \notin B
  <2>1. {} \in SUBSET Patterns
    OBVIOUS
  <2>2. g[{}] = 0
    BY <1>0, <2>1, SumStep, Zenon
  <2> QED
    BY <2>2
<1>2. ASSUME NEW s \in SUBSET Patterns, s # {}, s \ {Pick(s)} \notin B PROVE s \notin B
  <2>1. Pick(s) \in Patterns /\ s \ {Pick(s)} \in SUBSET Patterns
    BY <1>2, PickIs
  <2>2. c[Pick(s)] = 0 /\ g[s \ {Pick(s)}] = 0
    BY <1>2, <2>1
  <2>3. g[s] = c[Pick(s)] + g[s \ {Pick(s)}]
    BY <1>0, <1>2, SumStep
  <2> QED
    BY <2>2, <2>3
<1>3. B = {}
  <2>1. B \in SUBSET SUBSET Patterns
    OBVIOUS
  <2> HIDE DEF B
  <2> QED
    BY <1>1, <1>2, <2>1, SetInduction
<1> QED
  BY <1>3

\* A pattern without an entry has no vector.
VacantHasNone == \A p \in Patterns \ occupied : caps[p] = 0
Summed == VacantHasNone /\ capacity = SumOf(caps)[Patterns]

LEMMA SummedInit == Init => Summed
<1>1. ASSUME Init PROVE SumOf(caps)[Patterns] = 0
  BY <1>1, SumOfNone DEF Init
<1> QED
  BY <1>1 DEF Init, Summed, VacantHasNone

LEMMA SummedNext ==
  ASSUME IInv, IInv', Summed, [Next]_vars
  PROVE  Summed'
<1>0. caps \in [Patterns -> Nat] /\ caps' \in [Patterns -> Nat] /\ InitialCapacity \in Nat
      /\ SumOf(caps)[Patterns] \in Nat
  BY PatternMatchesAssumption, SumType DEF IInv, TypeOK
<1>1. ASSUME NEW p \in Patterns, NEW m \in Matches, NEW replace \in BOOLEAN,
             AddVacant(p, m, replace)
      PROVE  Summed'
  <2>1. /\ caps' = [caps EXCEPT ![p] = InitialCapacity] /\ caps[p] = 0
        /\ capacity' = capacity + InitialCapacity /\ occupied' = occupied \cup {p}
    BY <1>1 DEF AddVacant, Summed, VacantHasNone
  <2>2. SumOf(caps')[Patterns] = (SumOf(caps)[Patterns] - caps[p]) + InitialCapacity
    <3>1. /\ caps \in [Patterns -> Nat] /\ caps' \in [Patterns -> Nat] /\ InitialCapacity \in Nat
          /\ caps' = [caps EXCEPT ![p] = InitialCapacity]
      BY <1>0, <2>1, Zenon
    <3>2. PICK d : d = caps'
      BY Zenon
    <3>3. PICK c : c = caps
      BY Zenon
    <3>4. /\ c \in [Patterns -> Nat] /\ d \in [Patterns -> Nat] /\ InitialCapacity \in Nat
          /\ d = Resized(c, p, InitialCapacity)
      BY <3>1, <3>2, <3>3, Zenon DEF Resized
    <3>5. SumOf(d)[Patterns] = (SumOf(c)[Patterns] - c[p]) + InitialCapacity
      BY <3>4, SumChange, SMTT(30)
    <3> QED
      BY <3>2, <3>3, <3>5, Zenon
  <2>3. VacantHasNone'
    BY <1>0, <2>1 DEF Summed, VacantHasNone
  <2>4. capacity' = SumOf(caps')[Patterns]
    BY <1>0, <2>1, <2>2 DEF Summed
  <2> QED
    BY <2>3, <2>4 DEF Summed
<1>2. ASSUME NEW p \in Patterns, NEW m \in Matches, NEW replace \in BOOLEAN,
             AddOccupied(p, m, replace)
      PROVE  Summed'
  <2> DEFINE v == Grown(caps[p], Len(Add(lists[p], m, replace)))
  <2>1. /\ caps' = [caps EXCEPT ![p] = v] /\ p \in occupied
        /\ capacity' = (capacity - caps[p]) + caps'[p] /\ occupied' = occupied
    BY <1>2 DEF AddOccupied
  <2> HIDE DEF v
  <2>2. caps'[p] = v /\ v \in Nat
    BY <1>0, <2>1
  <2>3. SumOf(caps')[Patterns] = (SumOf(caps)[Patterns] - caps[p]) + v
    <3>1. /\ caps \in [Patterns -> Nat] /\ caps' \in [Patterns -> Nat] /\ v \in Nat
          /\ caps' = [caps EXCEPT ![p] = v]
      BY <1>0, <2>1, <2>2, Zenon
    <3>2. PICK d : d = caps'
      BY Zenon
    <3>3. PICK c : c = caps
      BY Zenon
    <3>4. PICK w : w = v
      BY Zenon
    <3>5. /\ c \in [Patterns -> Nat] /\ d \in [Patterns -> Nat] /\ w \in Nat
          /\ d = Resized(c, p, w)
      BY <3>1, <3>2, <3>3, <3>4, Zenon DEF Resized
    <3>6. SumOf(d)[Patterns] = (SumOf(c)[Patterns] - c[p]) + w
      BY <3>5, SumChange
    <3> QED
      BY <3>2, <3>3, <3>4, <3>6, Zenon
  <2>4. VacantHasNone'
    BY <1>0, <2>1 DEF Summed, VacantHasNone
  <2>5. capacity' = SumOf(caps')[Patterns]
    BY <2>1, <2>2, <2>3 DEF Summed
  <2> QED
    BY <2>4, <2>5 DEF Summed
<1>3. CASE Clear
  <2>1. CASE UNCHANGED <<occupied, caps, capacity>>
    BY <2>1 DEF Summed, VacantHasNone
  <2>2. CASE caps' = [p \in Patterns |-> 0] /\ capacity' = 0
    <3>1. SumOf(caps')[Patterns] = 0
      BY <2>2, SumOfNone
    <3> QED
      BY <2>2, <3>1 DEF Summed, VacantHasNone
  <2> QED
    BY <1>3, <2>1, <2>2 DEF Clear
<1>4. CASE UNCHANGED <<occupied, caps, capacity>>
  BY <1>4 DEF Summed, VacantHasNone
<1> QED
  BY <1>1, <1>2, <1>3, <1>4 DEF Next, AddRejected, SetMax, vars

\* The running total is always the capacity of all lists together, so that
\* the subtraction in PatternMatches::add never underflows and clear frees the
\* lists exactly when they are above the threshold, for any patterns, growth
\* and sequence of scans.
THEOREM CapacityIsAlwaysTheSum == Spec => []CapacityIsSum
<1>1. Init => IInv /\ Summed
  BY IInvInit, SummedInit
<1>2. (IInv /\ Summed) /\ [Next]_vars => (IInv /\ Summed)'
  BY IInvNext, SummedNext
<1>3. IInv /\ Summed => CapacityIsSum
  BY SumIs DEF Summed, CapacityIsSum
<1> QED
  BY <1>1, <1>2, <1>3, PTL DEF Spec

-----------------------------------------------------------------------------
(* BlockSnippets: greatest and least elements                              *)

\* A set of integers with an upper bound has a greatest element.
LEMMA MaxIs ==
  ASSUME NEW S, S \subseteq Int, S # {}, NEW hi \in Int, \A x \in S : x <= hi
  PROVE  Max(S) \in S /\ \A x \in S : x <= Max(S)
<1> DEFINE T == {hi - x : x \in S}
<1>1. T \subseteq Nat /\ T # {}
  <2>1. PICK x \in S : TRUE
    OBVIOUS
  <2>2. hi - x \in T
    OBVIOUS
  <2>3. T \subseteq Nat
    OBVIOUS
  <2> QED
    BY <2>2, <2>3
<1>2. PICK i \in T : \A k \in T : ~(k < i)
  BY <1>1, LeastNat
<1>3. PICK x \in S : i = hi - x
  BY <1>2
<1>4. \A y \in S : hi - y \in T /\ hi - y \in Nat /\ y \in Int
  OBVIOUS
<1> HIDE DEF T
<1>5. \A y \in S : x >= y
  BY <1>2, <1>3, <1>4
<1>6. Max(S) \in S /\ \A y \in S : Max(S) >= y
  BY <1>5, Zenon DEF Max
<1> QED
  BY <1>6

\* The bounds of a context.
LEMMA ThreeMax ==
  ASSUME NEW x \in Int, NEW y \in Int, NEW z \in Int
  PROVE  /\ Max({x, y, z}) \in {x, y, z}
         /\ x <= Max({x, y, z}) /\ y <= Max({x, y, z}) /\ z <= Max({x, y, z})
<1>1. PICK h \in Int : x <= h /\ y <= h /\ z <= h
  <2>1. CASE x >= y /\ x >= z
    BY <2>1
  <2>2. CASE y >= x /\ y >= z
    BY <2>2
  <2>3. CASE z >= x /\ z >= y
    BY <2>3
  <2> QED
    BY <2>1, <2>2, <2>3
<1>2. PICK S : S = {x, y, z}
  OBVIOUS
<1>3. S \subseteq Int /\ S # {} /\ \A w \in S : w <= h
  BY <1>1, <1>2
<1>4. Max(S) \in S /\ \A w \in S : w <= Max(S)
  BY <1>1, <1>3, MaxIs
<1> QED
  BY <1>2, <1>4

LEMMA TwoMin ==
  ASSUME NEW x \in Int, NEW y \in Int
  PROVE  Min({x, y}) \in {x, y} /\ Min({x, y}) <= x /\ Min({x, y}) <= y
<1>1. \E w \in {x, y} : \A v \in {x, y} : w <= v
  OBVIOUS
<1>2. Min({x, y}) \in {x, y} /\ \A v \in {x, y} : Min({x, y}) <= v
  BY <1>1, Zenon DEF Min
<1> QED
  BY <1>2

LEMMA MinIs ==
  ASSUME NEW S, S \subseteq Nat, S # {}
  PROVE  Min(S) \in S /\ \A x \in S : Min(S) <= x
<1>1. PICK i \in S : \A k \in S : ~(k < i)
  BY LeastNat
<1>2. \A k \in S : i <= k
  BY <1>1
<1> QED
  BY <1>2, Zenon DEF Min

-----------------------------------------------------------------------------
(* The search of a block                                                   *)

\* m is a match of p with an end that the data gives it, the first one unless
\* p is greedy.
IsMatchOf(o, p, m) ==
  /\ o.pattern = p /\ o.start = m.start /\ m.end \in o.ends
  /\ p \notin Greedy => \A e \in o.ends : m.end <= e
Genuine(p, m) == m.base <= m.start /\ \E o \in Occurrences : IsMatchOf(o, p, m)

SortedLists == {list \in Seq(Match) : SortedByStart(list)}

Genuines(p) == {list \in SortedLists : \A m \in Elements(list) : Genuine(p, m)}

\* The match of an occurrence in a block.
LEMMA MatchInIs ==
  ASSUME NEW b \in Blocks, NEW o \in Occurrences, EndsIn(o, b) # {}, b.base <= o.start
  PROVE  LET m == MatchIn(o, b)
         IN  /\ m \in Match /\ m.start = o.start /\ m.base = b.base /\ Genuine(o.pattern, m)
             /\ m.end <= BlockEnd(b) /\ m.start < m.end
             /\ o.pattern \in Greedy => \A e \in EndsIn(o, b) : e <= m.end
<1>1. /\ b.base \in Nat /\ b.len \in Nat /\ BlockEnd(b) \in Nat
      /\ o.start \in Nat /\ \A e \in o.ends : e \in Nat /\ o.start < e
  BY BlockSnippetsAssumption DEF BlockEnd
<1>2. PICK S : S = EndsIn(o, b)
  OBVIOUS
<1>3. S \subseteq Nat /\ S # {} /\ \A e \in S : e \in o.ends /\ e <= BlockEnd(b)
  BY <1>1, <1>2 DEF EndsIn
<1>4. Max(S) \in S /\ \A e \in S : e <= Max(S)
  <2>1. S \subseteq Int /\ BlockEnd(b) \in Int
    BY <1>1, <1>3
  <2> QED
    BY ONLY <1>3, <2>1, MaxIs
<1>5. Min(S) \in S /\ \A e \in S : Min(S) <= e
  BY ONLY <1>3, MinIs
<1>6. PICK end : end = IF o.pattern \in Greedy THEN Max(S) ELSE Min(S)
  OBVIOUS
<1>7. end \in S
  BY <1>4, <1>5, <1>6
<1>8. MatchIn(o, b) = [base |-> b.base, start |-> o.start, end |-> end]
  BY <1>2, <1>6 DEF MatchIn
<1>9. ASSUME o.pattern \notin Greedy, NEW e \in o.ends PROVE end <= e
  <2>1. CASE e \in S
    BY <1>5, <1>6, <1>9, <2>1
  <2>2. CASE e \notin S
    <3>1. ~(e <= BlockEnd(b))
      BY <1>2, <1>9, <2>2 DEF EndsIn
    <3> QED
      BY <1>1, <1>3, <1>7, <1>9, <3>1
  <2> QED
    BY <2>1, <2>2
<1>10. PICK m : m = MatchIn(o, b)
  OBVIOUS
<1>11. m \in Match /\ m.start = o.start /\ m.base = b.base /\ m.end = end
  BY <1>1, <1>3, <1>7, <1>8, <1>10 DEF Match
<1>12. Genuine(o.pattern, m)
  BY <1>3, <1>7, <1>9, <1>11 DEF Genuine, IsMatchOf
<1>13. m.end <= BlockEnd(b) /\ m.start < m.end
  BY <1>1, <1>3, <1>7, <1>11
<1>14. o.pattern \in Greedy => \A e \in EndsIn(o, b) : e <= m.end
  BY <1>2, <1>4, <1>6, <1>11
<1> QED
  BY <1>10, <1>11, <1>12, <1>13, <1>14

\* What the search of a block does with occurrence o of p.
Reached(list, o, b) == \E y \in Elements(list) : y.start = o.start /\ y.end >= MatchIn(o, b).end

\* Every match of `list` is still in `new`, maybe with another end.
KeepsMatches(list, new) ==
  \A x \in Elements(list) : \E y \in Elements(new) : y.start = x.start /\ y.base = x.base

\* Tracking one position keeps the matches and changes at most the one there.
LEMMA TrackIs ==
  ASSUME NEW b \in Blocks, NEW p, NEW list \in Genuines(p), NEW start \in Nat, b.base <= start
  PROVE  LET r == Track(list, p, b, start) IN
           /\ r \in Genuines(p)
           /\ KeepsMatches(list, r)
           /\ \A x \in Elements(list) : x.start # start => x \in Elements(r)
           /\ \A o \in FoundAt(p, b, start) : Reached(r, o, b)
<1> DEFINE found == FoundAt(p, b, start)
<1>1. CASE found = {}
  <2>1. Track(list, p, b, start) = list
    BY <1>1 DEF Track
  <2> QED
    BY <1>1, <2>1 DEF KeepsMatches
<1>2. CASE found # {}
  <2>1. PICK o : o = CHOOSE q \in found : TRUE
    OBVIOUS
  <2>2. o \in found
    BY <1>2, <2>1, Zenon
  <2>3. o \in Occurrences /\ o.pattern = p /\ o.start = start /\ EndsIn(o, b) # {}
    BY <2>2 DEF FoundAt
  <2>4. PICK m, replace : m = MatchIn(o, b) /\ replace = (p \in Greedy)
    OBVIOUS
  <2>5. m \in Match /\ m.start = start /\ m.base = b.base /\ Genuine(p, m)
    BY <2>3, <2>4, MatchInIs
  <2>6. replace \in BOOLEAN
    BY <2>4
  <2>7. PICK r : r = Add(list, m, replace)
    OBVIOUS
  <2>8. Track(list, p, b, start) = r
    BY <1>2, <2>1, <2>4, <2>7, Zenon DEF Track
  <2>9. list \in Seq(Match) /\ SortedByStart(list) /\ \A x \in Elements(list) : Genuine(p, x)
    BY DEF Genuines, SortedLists
  <2>10. r \in Seq(Match) /\ SortedByStart(r)
    BY <2>5, <2>6, <2>7, <2>9, AddPreservesSorted
  <2>11. /\ \A x \in Elements(list) : \E y \in Elements(r) :
              y.start = x.start /\ y.base = x.base /\ (x.start # m.start => y = x)
         /\ \E y \in Elements(r) :
              y.start = m.start /\ (y.end >= m.end \/ (~replace /\ y \in Elements(list)))
         /\ \A y \in Elements(r) :
              \/ y \in Elements(list) \/ y = m
              \/ /\ y.start = m.start /\ y.end = m.end
                 /\ \E x \in Elements(list) : x.start = y.start /\ y.base = x.base
    BY <2>5, <2>6, <2>7, <2>9, AddKeeps
  <2>12. ASSUME NEW y \in Elements(r) PROVE Genuine(p, y)
    <3>1. CASE y \in Elements(list) \/ y = m
      BY <2>5, <2>9, <3>1
    <3>2. CASE /\ y.start = m.start /\ y.end = m.end
               /\ \E x \in Elements(list) : x.start = y.start /\ y.base = x.base
      <4>1. y.base <= y.start
        BY <2>9, <3>2 DEF Genuine
      <4> QED
        BY <2>5, <3>2, <4>1 DEF Genuine, IsMatchOf
    <3> QED
      BY <2>11, <3>1, <3>2
  <2>13. r \in Genuines(p)
    BY <2>10, <2>12 DEF Genuines, SortedLists
  <2>14. Reached(r, o, b)
    <3>1. PICK y \in Elements(r) : y.start = m.start /\ (y.end >= m.end \/ (~replace /\ y \in Elements(list)))
      BY <2>11
    <3>2. CASE y.end >= m.end
      BY <2>3, <2>4, <2>5, <3>1, <3>2 DEF Reached
    <3>3. CASE ~replace
      <4>1. PICK q \in Occurrences : IsMatchOf(q, p, y)
        BY <2>12, <3>1 DEF Genuine
      <4>2. q = o
        BY <2>3, <2>5, <3>1, <4>1, BlockSnippetsAssumption DEF IsMatchOf
      <4>3. PICK q2 \in Occurrences : IsMatchOf(q2, p, m)
        BY <2>5 DEF Genuine
      <4>4. q2 = o
        BY <2>3, <2>5, <4>3, BlockSnippetsAssumption DEF IsMatchOf
      <4>5. m.end <= y.end /\ y.end \in Nat /\ m.end \in Nat
        BY <2>4, <3>3, <4>1, <4>2, <4>3, <4>4, BlockSnippetsAssumption DEF IsMatchOf
      <4> QED
        BY <2>3, <2>4, <2>5, <3>1, <4>5 DEF Reached
    <3> QED
      BY <3>1, <3>2, <3>3
  <2>15. \A q \in found : q = o
    BY <2>3, BlockSnippetsAssumption DEF FoundAt
  <2>16. KeepsMatches(list, r) /\ \A x \in Elements(list) : x.start # start => x \in Elements(r)
    BY <2>5, <2>11 DEF KeepsMatches
  <2> QED
    BY <2>8, <2>13, <2>14, <2>15, <2>16
<1> QED
  BY <1>1, <1>2

\* The search of a block, or of a part of it, keeps the matches that are there,
\* and has reached every occurrence that starts in the part and ends in the block.
LEMMA TrackedIs ==
  ASSUME NEW b \in Blocks, NEW p, Current[p] \in Genuines(p), NEW k \in 0..b.len
  PROVE  /\ Tracked(p, b)[k] \in Genuines(p)
         /\ KeepsMatches(Current[p], Tracked(p, b)[k])
         /\ \A o \in Occurrences :
              o.pattern = p /\ b.base <= o.start /\ o.start < b.base + k /\ EndsIn(o, b) # {}
                => Reached(Tracked(p, b)[k], o, b)
<1> DEFINE D == Genuines(p)
           N == b.len
           first == Current[p]
           T == Tracked(p, b)
           Body(f, n) == IF n = 0 THEN first ELSE Track(f[n - 1], p, b, (b.base + n) - 1)
           step == [n \in 1..N |-> [list \in D |-> Track(list, p, b, (b.base + n) - 1)]]
<1>1. b.base \in Nat /\ N \in Nat
  BY BlockSnippetsAssumption
<1>2. ASSUME NEW n \in 1..N PROVE (b.base + n) - 1 \in Nat /\ b.base <= (b.base + n) - 1
  BY <1>1
<1>3. ASSUME NEW n \in 1..N, NEW list \in D PROVE Track(list, p, b, (b.base + n) - 1) \in D
  <2>1. (b.base + n) - 1 \in Nat /\ b.base <= (b.base + n) - 1
    BY <1>2
  <2> QED
    BY <2>1, TrackIs
<1>4. first \in D
  OBVIOUS
<1>5. \A n \in 1..N : \A list \in D : step[n][list] = Track(list, p, b, (b.base + n) - 1)
  OBVIOUS
<1>6. step \in [1..N -> [D -> D]]
  BY <1>3
<1>7. T = CHOOSE f : f = [n \in 0..N |-> Body(f, n)]
  BY Zenon DEF Tracked
<1> HIDE DEF D, N, first, step, T
<1>8. \E f : IsRecursive(f, D, N, first, step)
  BY <1>1, <1>4, <1>6, RecursionExists
<1>9. PICK f : f \in [0..N -> D] /\ f[0] = first /\ \A n \in 1..N : f[n] = step[n][f[n - 1]]
  BY <1>8, Zenon DEF IsRecursive
<1>10. ASSUME NEW n \in 0..N PROVE f[n] = Body(f, n)
  <2>1. CASE n = 0
    BY <1>9, <2>1
  <2>2. CASE n # 0
    <3>1. n \in 1..N /\ n - 1 \in 0..N
      BY <1>1, <2>2
    <3>2. f[n - 1] \in D
      BY <1>9, <3>1
    <3> QED
      BY <1>5, <1>9, <2>2, <3>1, <3>2
  <2> QED
    BY <2>1, <2>2
<1>11. f = [n \in 0..N |-> f[n]]
  BY <1>9
<1>12. f = [n \in 0..N |-> Body(f, n)]
  BY <1>10, <1>11, Zenon
<1>13. T = [n \in 0..N |-> Body(T, n)]
  BY <1>7, <1>12, Zenon
<1>14. \A n \in 0..N : T[n] = Body(T, n)
  BY <1>13
<1> DEFINE InPart(o, n) == o.pattern = p /\ b.base <= o.start /\ o.start < b.base + n /\ EndsIn(o, b) # {}
           Good(list, n) == /\ list \in D /\ KeepsMatches(first, list)
                            /\ \A o \in Occurrences : InPart(o, n) => Reached(list, o, b)
           S == {n \in 0..N : Good(T[n], n)}
<1>15. 0 \in S
  <2>1. 0 \in 0..N /\ T[0] = first
    BY <1>1, <1>14
  <2>2. \A o \in Occurrences : o.start \in Nat
    BY BlockSnippetsAssumption
  <2>3. KeepsMatches(first, first)
    BY DEF KeepsMatches
  <2> QED
    BY <1>1, <1>4, <2>1, <2>2, <2>3
<1>16. ASSUME NEW n \in 0..(N - 1), n \in S PROVE n + 1 \in S
  <2>1. n + 1 \in 0..N /\ n + 1 # 0 /\ (n + 1) - 1 = n /\ n + 1 \in 1..N /\ n \in Nat
    BY <1>1
  <2>2. PICK start : start = (b.base + (n + 1)) - 1
    OBVIOUS
  <2>3. start \in Nat /\ b.base <= start /\ start = b.base + n
    BY <1>1, <1>2, <2>1, <2>2
  <2>4. PICK r : r = Track(T[n], p, b, start)
    OBVIOUS
  <2>5. T[n + 1] = r
    BY <1>14, <2>1, <2>2, <2>4
  <2>6. Good(T[n], n)
    BY <1>16
  <2>7. /\ r \in D /\ KeepsMatches(T[n], r)
        /\ \A x \in Elements(T[n]) : x.start # start => x \in Elements(r)
        /\ \A o \in FoundAt(p, b, start) : Reached(r, o, b)
    BY <2>3, <2>4, <2>6, TrackIs DEF D
  <2>8. KeepsMatches(first, r)
    BY <2>6, <2>7 DEF KeepsMatches
  <2>9. ASSUME NEW o \in Occurrences, InPart(o, n + 1) PROVE Reached(r, o, b)
    <3>1. o.start \in Nat
      BY BlockSnippetsAssumption
    <3>2. CASE o.start = start
      <4>1. o \in FoundAt(p, b, start)
        BY <2>9, <3>2 DEF FoundAt
      <4> QED
        BY <2>7, <4>1
    <3>3. CASE o.start # start
      <4>1. InPart(o, n)
        BY <1>1, <2>1, <2>3, <2>9, <3>1, <3>3
      <4>2. PICK y \in Elements(T[n]) : y.start = o.start /\ y.end >= MatchIn(o, b).end
        BY <2>6, <4>1 DEF Reached
      <4> QED
        BY <2>7, <3>3, <4>2 DEF Reached
    <3> QED
      BY <3>2, <3>3
  <2>10. Good(T[n + 1], n + 1)
    BY <2>5, <2>7, <2>8, <2>9
  <2> QED
    BY <2>1, <2>10
<1>17. k \in S
  <2> HIDE DEF S
  <2>1. 0..N \subseteq S
    BY <1>1, <1>15, <1>16, UpTo
  <2> QED
    BY <2>1 DEF N
<1> QED
  BY <1>17 DEF D, T, first

Snippet == [len : Nat, fresh : BOOLEAN]

IsSnippets(s) == \A offset \in DOMAIN s : offset \in Nat /\ s[offset] \in Snippet

\* Some snippet holds the bytes from start to end.
HoldsTo(s, start, end) == \E offset \in DOMAIN s : offset <= start /\ end - offset <= s[offset].len

AllFresh(s) == \A offset \in DOMAIN s : s[offset].fresh

\* Occurrence o was found in b.
Found(o, b) == b.base <= o.start /\ EndsIn(o, b) # {}

\* The lists have a match for every occurrence found in the blocks; if it was
\* first found in a block with this base, a snippet holds what was found here.
AllHeld(blocks, ls, s) ==
  \A b \in blocks, o \in Occurrences : Found(o, b) =>
    \E y \in Elements(ls[o.pattern]) :
      y.start = o.start /\ (y.base = b.base => HoldsTo(s, o.start, MatchIn(o, b).end))

\* The lists are sorted, and hold matches with the ends that the data gives them.
ListsInv == \A p \in PatternIds : match_lists[p] \in Genuines(p)

\* Snippets of an earlier scan are left only by a finish that timed out; within a
\* scan all are fresh and hold the matches of the blocks, and so do those handed
\* over.
SnippetsInv ==
  /\ needs_reset /\ ~leftover => DOMAIN snippets = {}
  /\ ~needs_reset /\ ~disturbed => AllFresh(snippets)
  /\ ~needs_reset => AllHeld(scanned, match_lists, snippets)
  /\ result = "Ok" /\ ~disturbed => AllFresh(finished)
  /\ result = "Ok" => AllHeld(scanned, match_lists, finished)

DataInv == SnippetTypeOK /\ ListsInv /\ SnippetsInv

-----------------------------------------------------------------------------
(* The snippets of a block                                                 *)

\* The context of a match is within the block, and holds the match as far as the
\* block goes.
LEMMA ContextIs ==
  ASSUME match_context_size \in Nat, NEW b \in Blocks, NEW m \in Match
  PROVE  /\ ContextStart(m, b) \in Nat /\ b.base <= ContextStart(m, b)
         /\ ContextEnd(m, b) \in Nat /\ ContextEnd(m, b) <= BlockEnd(b)
         /\ BlockEnd(b) \in Nat
         /\ b.base <= m.start => ContextStart(m, b) <= m.start
         /\ \A e \in Nat : e <= m.end /\ e <= BlockEnd(b) => e <= ContextEnd(m, b)
<1>1. /\ b.base \in Nat /\ b.len \in Nat /\ BlockEnd(b) \in Nat
      /\ m.start \in Nat /\ m.end \in Nat
  BY BlockSnippetsAssumption DEF BlockEnd, Match
<1>2. PICK x, y : x = m.start - match_context_size /\ y = m.end + match_context_size
  OBVIOUS
<1>3. x \in Int /\ y \in Nat /\ x <= m.start /\ m.end <= y
  BY <1>1, <1>2
<1>4. PICK s, e : s = Max({x, b.base, 0}) /\ e = Min({y, BlockEnd(b)})
  OBVIOUS
<1>5. s \in {x, b.base, 0} /\ x <= s /\ b.base <= s /\ 0 <= s
  <2>1. x \in Int /\ b.base \in Int /\ 0 \in Int
    BY <1>1, <1>3
  <2> QED
    BY ONLY <1>4, <2>1, ThreeMax
<1>6. e \in {y, BlockEnd(b)} /\ e <= y /\ e <= BlockEnd(b)
  <2>1. y \in Int /\ BlockEnd(b) \in Int
    BY <1>1, <1>3
  <2> QED
    BY ONLY <1>4, <2>1, TwoMin
<1>7. ContextStart(m, b) = s /\ ContextEnd(m, b) = e
  BY <1>2, <1>4 DEF ContextStart, ContextEnd
<1>8. s \in Nat /\ e \in Nat
  BY <1>1, <1>3, <1>5, <1>6
<1>9. b.base <= m.start => s <= m.start
  BY <1>1, <1>3, <1>5, <1>8
<1>10. \A z \in Nat : z <= m.end /\ z <= BlockEnd(b) => z <= e
  BY <1>1, <1>3, <1>6, <1>8
<1> QED
  BY <1>1, <1>5, <1>6, <1>7, <1>8, <1>9, <1>10

\* Collecting keeps the offsets, shortens no snippet, makes none stale and
\* holds every match with the base of the block as far as the block goes.
LEMMA CollectedIs ==
  ASSUME match_context_size \in Nat, NEW b \in Blocks, NEW new,
         \A p \in PatternIds : new[p] \in Seq(Match), NEW old, IsSnippets(old)
  PROVE  LET c == Collected(new, old, b)
         IN  /\ IsSnippets(c)
             /\ AllFresh(old) => AllFresh(c)
             /\ \A start, end \in Nat : HoldsTo(old, start, end) => HoldsTo(c, start, end)
             /\ \A p \in PatternIds : \A m \in Elements(new[p]) :
                  m.base = b.base /\ b.base <= m.start =>
                    \A end \in Nat : m.start < end /\ end <= m.end /\ end <= BlockEnd(b)
                                       => HoldsTo(c, m.start, end)
<1> DEFINE all == UNION {ToSet(new[p]) : p \in PatternIds}
           mine == {m \in all : m.base = b.base /\ InBlock(m, b)}
           At(offset) == {m \in mine : ContextStart(m, b) = offset}
           Lens(offset) == {ContextEnd(m, b) - offset : m \in At(offset)}
           Longest(offset) == Max(Lens(offset))
           Dom == DOMAIN old \cup {ContextStart(m, b) : m \in mine}
           Value(offset) == IF At(offset) = {} THEN old[offset]
                            ELSE IF offset \in DOMAIN old /\ ~Wins(old[offset], Longest(offset)) THEN old[offset]
                            ELSE [len |-> Longest(offset), fresh |-> TRUE]
           c == Collected(new, old, b)
<1>1. c = [offset \in Dom |-> Value(offset)]
  BY Zenon DEF Collected
<1>2. \A p \in PatternIds : Elements(new[p]) \subseteq all /\ Elements(new[p]) \subseteq Match
  <2> SUFFICES ASSUME NEW p \in PatternIds PROVE Elements(new[p]) \subseteq all /\ Elements(new[p]) \subseteq Match
    OBVIOUS
  <2>1. new[p] \in Seq(Match) /\ DOMAIN new[p] = 1..Len(new[p])
    OBVIOUS
  <2>2. ToSet(new[p]) = Elements(new[p])
    BY <2>1 DEF ToSet, Elements
  <2>3. Elements(new[p]) \subseteq Match
    BY <2>1, ElementOfSeq DEF Elements
  <2> QED
    BY <2>2, <2>3
<1>3. all \subseteq Match
  <2> SUFFICES ASSUME NEW p \in PatternIds PROVE ToSet(new[p]) \subseteq Match
    OBVIOUS
  <2>1. new[p] \in Seq(Match) /\ DOMAIN new[p] = 1..Len(new[p])
    OBVIOUS
  <2> QED
    BY <2>1, ElementOfSeq DEF ToSet
<1>4. \A m \in mine : /\ m \in Match /\ ContextStart(m, b) \in Nat /\ ContextEnd(m, b) \in Nat
                      /\ ContextEnd(m, b) <= BlockEnd(b) /\ ContextStart(m, b) <= ContextEnd(m, b)
  BY <1>3, ContextIs DEF InBlock
<1>5. BlockEnd(b) \in Nat
  BY BlockSnippetsAssumption DEF BlockEnd
<1>6. \A m \in all : m.base = b.base /\ InBlock(m, b) => m \in mine
  OBVIOUS
<1> HIDE DEF all, mine, c
<1>7. ASSUME NEW offset \in Nat, At(offset) # {}
      PROVE  Longest(offset) \in Nat /\ \A m \in At(offset) : ContextEnd(m, b) - offset <= Longest(offset)
  <2>1. \A m \in At(offset) : /\ m \in mine /\ ContextEnd(m, b) \in Nat /\ ContextEnd(m, b) <= BlockEnd(b)
                              /\ offset <= ContextEnd(m, b)
    BY <1>4
  <2>2. PICK S : S = Lens(offset)
    OBVIOUS
  <2>3. S \subseteq Nat /\ \A x \in S : x <= BlockEnd(b)
    BY <1>5, <2>1, <2>2
  <2>4. S # {}
    <3>1. PICK m \in At(offset) : TRUE
      BY <1>7
    <3>2. ContextEnd(m, b) - offset \in Lens(offset)
      OBVIOUS
    <3> QED
      BY <2>2, <3>2
  <2>5. Max(S) \in S /\ \A x \in S : x <= Max(S)
    <3>1. S \subseteq Int /\ BlockEnd(b) \in Int
      BY <1>5, <2>3
    <3> QED
      BY ONLY <2>3, <2>4, <3>1, MaxIs
  <2>6. \A m \in At(offset) : ContextEnd(m, b) - offset \in S
    BY <2>2
  <2> QED
    BY <2>2, <2>3, <2>5, <2>6
<1>8. ASSUME NEW offset \in Dom PROVE offset \in Nat /\ (offset \notin DOMAIN old => At(offset) # {})
  <2>1. CASE offset \in DOMAIN old
    BY <2>1 DEF IsSnippets
  <2>2. CASE offset \notin DOMAIN old
    <3>1. PICK m \in mine : offset = ContextStart(m, b)
      BY <2>2
    <3> QED
      BY <1>4, <3>1
  <2> QED
    BY <2>1, <2>2
<1>9. ASSUME NEW offset \in Dom
      PROVE  /\ c[offset] \in Snippet
             /\ AllFresh(old) => c[offset].fresh
             /\ offset \in DOMAIN old => old[offset].len <= c[offset].len
             /\ \A m \in At(offset) : ContextEnd(m, b) - offset <= c[offset].len
  <2>1. c[offset] = Value(offset)
    BY <1>1
  <2>2. offset \in Nat /\ (offset \notin DOMAIN old => At(offset) # {})
    BY <1>8
  <2>3. offset \in DOMAIN old => old[offset] \in Snippet /\ old[offset].len \in Nat
    BY DEF IsSnippets, Snippet
  <2>4. CASE At(offset) = {}
    <3>1. c[offset] = old[offset] /\ offset \in DOMAIN old
      BY <2>1, <2>2, <2>4
    <3> QED
      BY <2>3, <2>4, <3>1 DEF AllFresh
  <2>5. CASE At(offset) # {}
    <3>1. PICK l : l = Longest(offset)
      OBVIOUS
    <3>2. l \in Nat /\ \A m \in At(offset) : ContextEnd(m, b) - offset <= l
      BY <1>7, <2>2, <2>5, <3>1
    <3>3. CASE offset \in DOMAIN old /\ ~Wins(old[offset], l)
      <4>1. c[offset] = old[offset]
        BY <2>1, <2>5, <3>1, <3>3
      <4>2. l <= old[offset].len
        BY <2>3, <3>2, <3>3 DEF Wins
      <4>3. \A m \in At(offset) : ContextEnd(m, b) - offset <= old[offset].len
        <5> SUFFICES ASSUME NEW m \in At(offset) PROVE ContextEnd(m, b) - offset <= old[offset].len
          OBVIOUS
        <5>1. ContextEnd(m, b) \in Nat
          BY <1>4
        <5> QED
          BY <2>2, <2>3, <3>2, <3>3, <4>2, <5>1
      <4> QED
        BY <2>3, <3>3, <4>1, <4>3 DEF AllFresh
    <3>4. CASE ~(offset \in DOMAIN old /\ ~Wins(old[offset], l))
      <4>1. c[offset] = [len |-> l, fresh |-> TRUE]
        BY <2>1, <2>5, <3>1, <3>4
      <4>2. offset \in DOMAIN old => old[offset].len <= l
        BY <2>3, <3>2, <3>4 DEF Wins
      <4> QED
        BY <3>2, <4>1, <4>2 DEF Snippet
    <3> QED
      BY <3>3, <3>4
  <2> QED
    BY <2>4, <2>5
<1>10. DOMAIN c = Dom
  BY <1>1
<1>11. IsSnippets(c)
  BY <1>8, <1>9, <1>10 DEF IsSnippets
<1>12. AllFresh(old) => AllFresh(c)
  BY <1>9, <1>10 DEF AllFresh
<1>13. ASSUME NEW start \in Nat, NEW end \in Nat, HoldsTo(old, start, end) PROVE HoldsTo(c, start, end)
  <2>1. PICK offset \in DOMAIN old : offset <= start /\ end - offset <= old[offset].len
    BY <1>13 DEF HoldsTo
  <2>2. offset \in Dom /\ offset \in Nat /\ old[offset].len \in Nat
    BY DEF IsSnippets, Snippet
  <2>3. c[offset].len \in Nat /\ old[offset].len <= c[offset].len
    BY <1>9, <2>2 DEF Snippet
  <2>4. end - offset <= c[offset].len
    BY <2>1, <2>2, <2>3
  <2> QED
    BY <1>10, <2>1, <2>2, <2>4 DEF HoldsTo
<1>14. ASSUME NEW p \in PatternIds, NEW m \in Elements(new[p]), m.base = b.base, b.base <= m.start,
              NEW end \in Nat, m.start < end, end <= m.end, end <= BlockEnd(b)
       PROVE  HoldsTo(c, m.start, end)
  <2>1. m \in all /\ m \in Match
    BY <1>2
  <2>2. PICK offset, last : offset = ContextStart(m, b) /\ last = ContextEnd(m, b)
    OBVIOUS
  <2>3. offset \in Nat /\ offset <= m.start /\ end <= last /\ last \in Nat /\ m.start \in Nat
    BY <1>14, <2>1, <2>2, ContextIs DEF Match
  <2>4. m \in mine
    <3>1. InBlock(m, b)
      BY <1>14, <2>2, <2>3 DEF InBlock
    <3> QED
      BY <1>6, <1>14, <2>1, <3>1
  <2>5. offset \in Dom /\ m \in At(offset)
    BY <2>2, <2>4
  <2>6. c[offset].len \in Nat /\ last - offset <= c[offset].len
    BY <1>9, <2>2, <2>5 DEF Snippet
  <2>7. end - offset <= c[offset].len
    BY <2>3, <2>6
  <2> QED
    BY <1>10, <2>3, <2>5, <2>7 DEF HoldsTo
<1> QED
  BY <1>11, <1>12, <1>13, <1>14 DEF c

-----------------------------------------------------------------------------
(* The calls of the user                                                   *)

Flags == {needs_reset, timed_out, expired, leftover, disturbed} \subseteq BOOLEAN

LEMMA TypeIs ==
  SnippetTypeOK <=>
    /\ match_lists \in [PatternIds -> Seq(Match)]
    /\ IsSnippets(snippets) /\ IsSnippets(finished)
    /\ match_context_size \in ContextSizes \cup {0}
    /\ Flags /\ scanned \subseteq Blocks
    /\ result \in {"None", "Scanned", "Ok", "Timeout"}
  BY DEF SnippetTypeOK, IsSnippets, Snippet, Flags

LEMMA NoSnippets == IsSnippets(<<>>) /\ DOMAIN <<>> = {} /\ AllFresh(<<>>)
<1>1. DOMAIN <<>> = {}
  OBVIOUS
<1> QED
  BY <1>1 DEF IsSnippets, AllFresh

LEMMA EmptyList == ASSUME NEW p PROVE <<>> \in Genuines(p) /\ Elements(<<>>) = {}
  BY DEF Genuines, SortedLists, SortedByStart, Elements

\* What a call starts with: nothing of an earlier scan, and what this scan has.
LEMMA CurrentIs ==
  ASSUME DataInv
  PROVE  /\ Current \in [PatternIds -> Seq(Match)]
         /\ \A p \in PatternIds : Current[p] \in Genuines(p)
         /\ Before \subseteq Blocks
         /\ IsSnippets(Kept)
         /\ AllHeld(Before, Current, Kept)
         /\ ~(IF needs_reset THEN leftover ELSE disturbed) => AllFresh(Kept)
<1>1. /\ match_lists \in [PatternIds -> Seq(Match)] /\ \A p \in PatternIds : match_lists[p] \in Genuines(p)
      /\ IsSnippets(snippets) /\ scanned \subseteq Blocks
  BY TypeIs DEF DataInv, ListsInv
<1>2. CASE needs_reset
  <2>1. Current = [p \in PatternIds |-> <<>>] /\ Before = {}
    BY <1>2 DEF Current, Before
  <2>2. Kept = [offset \in DOMAIN snippets |-> [snippets[offset] EXCEPT !.fresh = FALSE]]
    BY <1>2 DEF Kept
  <2>3. \A offset \in DOMAIN snippets : offset \in Nat /\ [snippets[offset] EXCEPT !.fresh = FALSE] \in Snippet
    BY <1>1 DEF IsSnippets, Snippet
  <2>4. IsSnippets(Kept)
    BY <2>2, <2>3 DEF IsSnippets
  <2>5. ~leftover => AllFresh(Kept)
    BY <1>2, <2>2 DEF DataInv, SnippetsInv, AllFresh
  <2>6. AllHeld(Before, Current, Kept)
    BY <2>1 DEF AllHeld
  <2> QED
    BY <1>2, <2>1, <2>4, <2>5, <2>6, EmptyList
<1>3. CASE ~needs_reset
  <2>1. Current = match_lists /\ Before = scanned /\ Kept = snippets
    BY <1>3 DEF Current, Before, Kept
  <2> QED
    BY <1>1, <1>3, <2>1 DEF DataInv, SnippetsInv
<1> QED
  BY <1>2, <1>3

\* The lists after the search of a block, or of its part before stop.
LEMMA SearchedIs ==
  ASSUME DataInv, NEW b \in Blocks, NEW stop \in b.base..BlockEnd(b)
  PROVE  LET new == Searched(b, stop) IN
           /\ new \in [PatternIds -> Seq(Match)]
           /\ \A p \in PatternIds : new[p] \in Genuines(p) /\ KeepsMatches(Current[p], new[p])
           /\ stop = BlockEnd(b) =>
                \A o \in Occurrences : Found(o, b) => Reached(new[o.pattern], o, b)
<1>1. b.base \in Nat /\ b.len \in Nat
  BY BlockSnippetsAssumption
<1>2. stop - b.base \in 0..b.len /\ b.base + (stop - b.base) = stop
  BY <1>1 DEF BlockEnd
<1>3. PICK new : new = Searched(b, stop)
  OBVIOUS
<1>4. ASSUME NEW p \in PatternIds
      PROVE  /\ new[p] \in Genuines(p) /\ KeepsMatches(Current[p], new[p])
             /\ \A o \in Occurrences :
                  o.pattern = p /\ b.base <= o.start /\ o.start < stop /\ EndsIn(o, b) # {}
                    => Reached(new[p], o, b)
  <2>1. Current[p] \in Genuines(p)
    BY CurrentIs
  <2>2. new[p] = Tracked(p, b)[stop - b.base]
    BY <1>3 DEF Searched
  <2>3. PICK k : k = stop - b.base
    OBVIOUS
  <2>4. k \in 0..b.len /\ b.base + k = stop /\ new[p] = Tracked(p, b)[k]
    BY <1>2, <2>2, <2>3
  <2> QED
    BY <2>1, <2>4, TrackedIs
<1>5. \A p \in PatternIds : new[p] \in Seq(Match)
  BY <1>4 DEF Genuines, SortedLists
<1>6. new = [p \in PatternIds |-> new[p]]
  BY <1>3 DEF Searched
<1>7. ASSUME stop = BlockEnd(b), NEW o \in Occurrences, Found(o, b) PROVE Reached(new[o.pattern], o, b)
  <2>1. o.pattern \in PatternIds
    BY DEF PatternIds
  <2>2. PICK e \in o.ends : e <= BlockEnd(b)
    BY <1>7 DEF Found, EndsIn
  <2>3. o.start \in Nat /\ e \in Nat /\ o.start < e /\ BlockEnd(b) \in Nat
    BY <1>1, <2>2, BlockSnippetsAssumption DEF BlockEnd
  <2>4. o.start < stop
    BY <1>7, <2>2, <2>3
  <2> QED
    BY <1>4, <1>7, <2>1, <2>4 DEF Found
<1> QED
  BY <1>3, <1>4, <1>5, <1>6, <1>7

LEMMA DataInit == SnippetInit => DataInv
<1> SUFFICES ASSUME SnippetInit PROVE DataInv
  OBVIOUS
<1>1. /\ match_lists = [p \in PatternIds |-> <<>>] /\ snippets = <<>> /\ finished = <<>>
      /\ match_context_size = 0 /\ needs_reset = TRUE /\ timed_out = FALSE /\ result = "None"
      /\ expired = FALSE /\ leftover = FALSE /\ disturbed = FALSE /\ scanned = {}
  BY DEF SnippetInit
<1>2. match_lists \in [PatternIds -> Seq(Match)]
  BY <1>1
<1>3. SnippetTypeOK
  BY <1>1, <1>2, NoSnippets, TypeIs DEF Flags
<1>4. ListsInv
  BY <1>1, EmptyList DEF ListsInv
<1>5. SnippetsInv
  BY <1>1, NoSnippets DEF SnippetsInv
<1> QED
  BY <1>3, <1>4, <1>5 DEF DataInv

LEMMA SizeIs == ASSUME DataInv PROVE match_context_size \in Nat
<1>1. match_context_size \in ContextSizes \cup {0}
  BY TypeIs DEF DataInv
<1>2. ContextSizes \subseteq Nat
  BY BlockSnippetsAssumption
<1> QED
  BY <1>1, <1>2

LEMMA SetContextSizeData ==
  ASSUME DataInv, NEW n \in ContextSizes, SetContextSize(n)
  PROVE  DataInv'
<1>1. /\ match_context_size' = n /\ result' = "None"
      /\ UNCHANGED <<match_lists, snippets, finished, needs_reset, timed_out, expired, leftover,
                     disturbed, scanned>>
  BY DEF SetContextSize
<1>2. SnippetTypeOK'
  BY <1>1 DEF DataInv, SnippetTypeOK
<1>3. ListsInv'
  BY <1>1 DEF DataInv, ListsInv
<1>4. SnippetsInv'
  BY <1>1 DEF DataInv, SnippetsInv
<1> QED
  BY <1>2, <1>3, <1>4 DEF DataInv

\* A search keeps what the snippets hold.
LEMMA StillHeld ==
  ASSUME NEW blocks, blocks \subseteq Blocks, NEW ls, NEW new, NEW s, NEW c,
         \A p \in PatternIds : KeepsMatches(ls[p], new[p]),
         \A start, end \in Nat : HoldsTo(s, start, end) => HoldsTo(c, start, end),
         AllHeld(blocks, ls, s)
  PROVE  AllHeld(blocks, new, c)
<1> SUFFICES ASSUME NEW b \in blocks, NEW o \in Occurrences, Found(o, b)
             PROVE  \E y \in Elements(new[o.pattern]) :
                      y.start = o.start /\ (y.base = b.base => HoldsTo(c, o.start, MatchIn(o, b).end))
  BY DEF AllHeld
<1>1. PICK x \in Elements(ls[o.pattern]) :
        x.start = o.start /\ (x.base = b.base => HoldsTo(s, o.start, MatchIn(o, b).end))
  BY DEF AllHeld
<1>2. o.pattern \in PatternIds
  BY DEF PatternIds
<1>3. PICK y \in Elements(new[o.pattern]) : y.start = x.start /\ y.base = x.base
  BY <1>1, <1>2 DEF KeepsMatches
<1>4. o.start \in Nat /\ MatchIn(o, b).end \in Nat
  <2>1. MatchIn(o, b) \in Match /\ MatchIn(o, b).start = o.start
    BY MatchInIs DEF Found
  <2>2. PICK m : m = MatchIn(o, b)
    OBVIOUS
  <2> QED
    BY <2>1, <2>2 DEF Match
<1> QED
  BY <1>1, <1>3, <1>4

LEMMA ScanData ==
  ASSUME DataInv, NEW b \in Blocks, Scan(b)
  PROVE  DataInv'
<1>1. PICK new, old : new = Searched(b, BlockEnd(b)) /\ old = Kept
  OBVIOUS
<1>2. /\ match_lists' = new /\ snippets' = Collected(new, old, b)
      /\ disturbed' = (IF needs_reset THEN leftover ELSE disturbed) /\ expired' = (expired /\ ~needs_reset)
      /\ needs_reset' = FALSE /\ timed_out' = FALSE /\ result' = "Scanned" /\ finished' = <<>>
      /\ match_context_size' = match_context_size /\ leftover' = leftover
      /\ scanned' = Before \cup {b}
  BY <1>1 DEF Scan, BeginScan
<1>3. /\ new \in [PatternIds -> Seq(Match)]
      /\ \A p \in PatternIds : new[p] \in Genuines(p) /\ KeepsMatches(Current[p], new[p])
      /\ \A o \in Occurrences : Found(o, b) => Reached(new[o.pattern], o, b)
  <2>1. b.base \in Nat /\ b.len \in Nat
    BY BlockSnippetsAssumption
  <2>2. BlockEnd(b) \in b.base..BlockEnd(b)
    BY <2>1 DEF BlockEnd
  <2> QED
    BY <1>1, <2>2, SearchedIs
<1>4. /\ Before \subseteq Blocks /\ IsSnippets(old) /\ AllHeld(Before, Current, old)
      /\ ~(IF needs_reset THEN leftover ELSE disturbed) => AllFresh(old)
  BY <1>1, CurrentIs
<1>5. PICK c : c = Collected(new, old, b)
  OBVIOUS
<1>6. /\ IsSnippets(c)
      /\ AllFresh(old) => AllFresh(c)
      /\ \A start, end \in Nat : HoldsTo(old, start, end) => HoldsTo(c, start, end)
      /\ \A p \in PatternIds : \A m \in Elements(new[p]) :
           m.base = b.base /\ b.base <= m.start =>
             \A end \in Nat : m.start < end /\ end <= m.end /\ end <= BlockEnd(b)
                                => HoldsTo(c, m.start, end)
  <2>1. \A p \in PatternIds : new[p] \in Seq(Match)
    BY <1>3
  <2>2. match_context_size \in Nat
    BY SizeIs
  <2> QED
    BY <1>4, <1>5, <2>1, <2>2, CollectedIs
<1>7. SnippetTypeOK'
  <2>1. /\ match_context_size \in ContextSizes \cup {0} /\ Flags
    BY TypeIs DEF DataInv
  <2>2. IsSnippets(finished') /\ IsSnippets(snippets')
    BY <1>2, <1>5, <1>6, NoSnippets
  <2>3. scanned' \subseteq Blocks
    BY <1>2, <1>4
  <2> QED
    BY <1>2, <1>3, <2>1, <2>2, <2>3 DEF SnippetTypeOK, IsSnippets, Snippet, Flags
<1>8. ListsInv'
  BY <1>2, <1>3 DEF ListsInv
<1>9. ~disturbed' => AllFresh(c)
  BY <1>2, <1>4, <1>6
<1>10. AllHeld(Before, new, c)
  BY <1>3, <1>4, <1>6, StillHeld
<1>11. ASSUME NEW o \in Occurrences, Found(o, b)
       PROVE  \E y \in Elements(new[o.pattern]) :
                y.start = o.start /\ (y.base = b.base => HoldsTo(c, o.start, MatchIn(o, b).end))
  <2>1. o.pattern \in PatternIds
    BY DEF PatternIds
  <2>2. PICK m : m = MatchIn(o, b)
    OBVIOUS
  <2>3. m \in Match /\ m.start = o.start /\ m.end <= BlockEnd(b) /\ m.start < m.end /\ b.base <= o.start
    BY <1>11, <2>2, MatchInIs DEF Found
  <2>4. PICK y \in Elements(new[o.pattern]) : y.start = o.start /\ y.end >= m.end
    BY <1>3, <1>11, <2>2 DEF Reached
  <2>5. y \in Match
    <3>1. new[o.pattern] \in Seq(Match)
      BY <1>3, <2>1
    <3> QED
      BY <3>1, ElementOfSeq DEF Elements
  <2>6. m.end \in Nat /\ y.end \in Nat /\ m.end <= y.end
    BY <2>3, <2>4, <2>5 DEF Match
  <2>7. y.base = b.base => HoldsTo(c, y.start, m.end)
    BY <1>6, <2>1, <2>3, <2>4, <2>6
  <2> QED
    BY <2>2, <2>4, <2>7
<1>12. AllHeld(Before \cup {b}, new, c)
  BY <1>10, <1>11 DEF AllHeld
<1>13. SnippetsInv'
  <2>1. snippets' = c
    BY <1>2, <1>5
  <2> QED
    BY <1>2, <1>9, <1>12, <2>1 DEF SnippetsInv
<1> QED
  BY <1>7, <1>8, <1>13 DEF DataInv

LEMMA ScanTimesOutData ==
  ASSUME DataInv, NEW b \in Blocks, NEW stop \in b.base..BlockEnd(b), ScanTimesOut(b, stop)
  PROVE  DataInv'
<1>1. PICK new : new = Searched(b, stop)
  OBVIOUS
<1>2. /\ match_lists' = new /\ snippets' = Kept
      /\ disturbed' = (IF needs_reset THEN leftover ELSE disturbed) /\ expired' = TRUE
      /\ needs_reset' = FALSE /\ timed_out' = TRUE /\ result' = "Timeout" /\ finished' = <<>>
      /\ match_context_size' = match_context_size /\ leftover' = leftover
      /\ scanned' = Before
  BY <1>1 DEF ScanTimesOut, BeginScan
<1>3. /\ new \in [PatternIds -> Seq(Match)]
      /\ \A p \in PatternIds : new[p] \in Genuines(p) /\ KeepsMatches(Current[p], new[p])
  BY <1>1, SearchedIs
<1>4. /\ Before \subseteq Blocks /\ IsSnippets(Kept) /\ AllHeld(Before, Current, Kept)
      /\ ~(IF needs_reset THEN leftover ELSE disturbed) => AllFresh(Kept)
  BY CurrentIs
<1>5. SnippetTypeOK'
  <2>1. /\ match_context_size \in ContextSizes \cup {0} /\ Flags
    BY TypeIs DEF DataInv
  <2>2. IsSnippets(finished') /\ IsSnippets(snippets')
    BY <1>2, <1>4, NoSnippets
  <2> QED
    BY <1>2, <1>3, <1>4, <2>1, <2>2 DEF SnippetTypeOK, IsSnippets, Snippet, Flags
<1>6. ListsInv'
  BY <1>2, <1>3 DEF ListsInv
<1>7. AllHeld(Before, new, Kept)
  BY <1>3, <1>4, StillHeld
<1>8. SnippetsInv'
  <2>1. ~disturbed' => AllFresh(snippets')
    BY <1>2, <1>4
  <2> QED
    BY <1>2, <1>7, <2>1 DEF SnippetsInv
<1> QED
  BY <1>5, <1>6, <1>8 DEF DataInv

LEMMA FinishData ==
  ASSUME DataInv, Finish
  PROVE  DataInv'
<1>1. /\ match_lists' = Current /\ snippets' = <<>> /\ finished' = Kept
      /\ disturbed' = (IF needs_reset THEN leftover ELSE disturbed) /\ expired' = (expired /\ ~needs_reset)
      /\ needs_reset' = TRUE /\ timed_out' = FALSE /\ result' = "Ok" /\ leftover' = FALSE
      /\ match_context_size' = match_context_size /\ scanned' = Before
  BY DEF Finish, BeginScan
<1>2. Current \in [PatternIds -> Seq(Match)] /\ \A p \in PatternIds : Current[p] \in Genuines(p)
  BY CurrentIs
<1>3. /\ Before \subseteq Blocks /\ IsSnippets(Kept) /\ AllHeld(Before, Current, Kept)
      /\ ~(IF needs_reset THEN leftover ELSE disturbed) => AllFresh(Kept)
  BY CurrentIs
<1>4. SnippetTypeOK'
  <2>1. /\ match_context_size \in ContextSizes \cup {0} /\ Flags
    BY TypeIs DEF DataInv
  <2>2. IsSnippets(finished') /\ IsSnippets(snippets')
    BY <1>1, <1>3, NoSnippets
  <2> QED
    BY <1>1, <1>2, <1>3, <2>1, <2>2 DEF SnippetTypeOK, IsSnippets, Snippet, Flags
<1>5. ListsInv'
  BY <1>1, <1>2 DEF ListsInv
<1>6. ~disturbed' => AllFresh(Kept)
  BY <1>1, <1>3
<1>7. SnippetsInv'
  <2>1. DOMAIN snippets' = {}
    BY <1>1, NoSnippets
  <2> QED
    BY <1>1, <1>3, <1>6, <2>1 DEF SnippetsInv
<1> QED
  BY <1>4, <1>5, <1>7 DEF DataInv

LEMMA FinishTimesOutData ==
  ASSUME DataInv, FinishTimesOut
  PROVE  DataInv'
<1>1. /\ match_lists' = Current /\ snippets' = Kept /\ finished' = <<>>
      /\ disturbed' = (IF needs_reset THEN leftover ELSE disturbed) /\ expired' = (expired /\ ~needs_reset)
      /\ needs_reset' = TRUE /\ timed_out' = (timed_out /\ ~needs_reset)
      /\ result' = "Timeout" /\ leftover' = TRUE
      /\ match_context_size' = match_context_size /\ scanned' = Before
  BY DEF FinishTimesOut, BeginScan
<1>2. Current \in [PatternIds -> Seq(Match)] /\ \A p \in PatternIds : Current[p] \in Genuines(p)
  BY CurrentIs
<1>3. IsSnippets(Kept) /\ Before \subseteq Blocks
  BY CurrentIs
<1>4. SnippetTypeOK'
  <2>1. /\ match_context_size \in ContextSizes \cup {0} /\ Flags
    BY TypeIs DEF DataInv
  <2>2. IsSnippets(finished') /\ IsSnippets(snippets')
    BY <1>1, <1>3, NoSnippets
  <2> QED
    BY <1>1, <1>2, <1>3, <2>1, <2>2 DEF SnippetTypeOK, IsSnippets, Snippet, Flags
<1>5. ListsInv'
  BY <1>1, <1>2 DEF ListsInv
<1>6. SnippetsInv'
  BY <1>1 DEF SnippetsInv
<1> QED
  BY <1>4, <1>5, <1>6 DEF DataInv

\* Every call keeps the invariant.
LEMMA DataNext ==
  ASSUME DataInv, [SnippetNext]_snippetVars
  PROVE  DataInv'
<1>1. CASE \E n \in ContextSizes : SetContextSize(n)
  BY <1>1, SetContextSizeData
<1>2. CASE \E b \in Blocks : Scan(b)
  BY <1>2, ScanData
<1>3. CASE \E b \in Blocks : \E stop \in b.base..BlockEnd(b) : ScanTimesOut(b, stop)
  BY <1>3, ScanTimesOutData
<1>4. CASE Finish
  BY <1>4, FinishData
<1>5. CASE FinishTimesOut
  BY <1>5, FinishTimesOutData
<1>6. CASE UNCHANGED snippetVars
  <2>1. SnippetTypeOK'
    BY <1>6 DEF DataInv, SnippetTypeOK, snippetVars
  <2>2. ListsInv'
    BY <1>6 DEF DataInv, ListsInv, snippetVars
  <2>3. SnippetsInv'
    BY <1>6 DEF DataInv, SnippetsInv, snippetVars
  <2> QED
    BY <2>1, <2>2, <2>3 DEF DataInv
<1> QED
  BY <1>1, <1>2, <1>3, <1>4, <1>5, <1>6 DEF SnippetNext

\* A covered match of the results is held by a snippet.
LEMMA CoveredIsHeld ==
  ASSUME DataInv, result = "Ok", NEW p \in PatternIds, NEW m \in Elements(match_lists[p]), Covered(m)
  PROVE  m \in Match /\ m.start < m.end /\ HoldsTo(finished, m.start, m.end)
<1>1. /\ match_lists[p] \in Seq(Match) /\ SortedByStart(match_lists[p]) /\ Genuine(p, m)
      /\ IsSnippets(finished) /\ scanned \subseteq Blocks
  BY TypeIs DEF DataInv, ListsInv, Genuines, SortedLists
<1>2. m \in Match
  BY <1>1, ElementOfSeq DEF Elements
<1>3. PICK b \in Blocks : b \in scanned /\ b.base = m.base /\ m.end <= BlockEnd(b)
  BY <1>1 DEF Covered
<1>4. PICK o \in Occurrences : IsMatchOf(o, p, m)
  BY <1>1 DEF Genuine
<1>5. Found(o, b) /\ m.end \in EndsIn(o, b) /\ o.pattern = p /\ o.start = m.start /\ m.start < m.end
  BY <1>1, <1>3, <1>4, BlockSnippetsAssumption DEF Found, EndsIn, Genuine, IsMatchOf
<1>6. PICK f : f = MatchIn(o, b)
  OBVIOUS
<1>7. f \in Match /\ Genuine(p, f) /\ f.start = o.start /\ (p \in Greedy => m.end <= f.end)
  BY <1>5, <1>6, MatchInIs DEF Found
<1>8. m.end <= f.end
  <2>1. CASE p \in Greedy
    BY <1>7, <2>1
  <2>2. CASE p \notin Greedy
    <3>1. PICK q \in Occurrences : IsMatchOf(q, p, f)
      BY <1>7 DEF Genuine
    <3>2. q = o
      BY <1>5, <1>7, <3>1, BlockSnippetsAssumption DEF IsMatchOf
    <3> QED
      BY <1>4, <2>2, <3>1, <3>2 DEF IsMatchOf
  <2> QED
    BY <2>1, <2>2
<1>9. PICK y \in Elements(match_lists[p]) :
        y.start = o.start /\ (y.base = b.base => HoldsTo(finished, o.start, f.end))
  <2>1. AllHeld(scanned, match_lists, finished)
    BY DEF DataInv, SnippetsInv
  <2> QED
    BY <1>3, <1>5, <1>6, <2>1 DEF AllHeld
<1>10. y = m
  <2>1. PICK i \in 1..Len(match_lists[p]), j \in 1..Len(match_lists[p]) :
          m = match_lists[p][i] /\ y = match_lists[p][j]
    BY DEF Elements
  <2>2. Len(match_lists[p]) \in Nat /\ match_lists[p][i].start \in Nat /\ match_lists[p][j].start \in Nat
    BY <1>1, <1>2, <1>5, <1>9, <2>1, LenProperties DEF Match
  <2>3. ~(i < j) /\ ~(j < i)
    BY <1>1, <1>5, <1>9, <2>1, <2>2 DEF SortedByStart
  <2> QED
    BY <2>1, <2>2, <2>3
<1>11. PICK offset \in DOMAIN finished : offset <= m.start /\ f.end - offset <= finished[offset].len
  BY <1>3, <1>5, <1>9, <1>10 DEF HoldsTo
<1>12. offset \in Nat /\ finished[offset].len \in Nat /\ f.end \in Nat /\ m.end \in Nat
  BY <1>1, <1>2, <1>7 DEF IsSnippets, Snippet, Match
<1>13. m.end - offset <= finished[offset].len
  BY <1>8, <1>11, <1>12
<1> QED
  BY <1>2, <1>5, <1>11, <1>13 DEF HoldsTo

\* The snippet found for a match is one of those that hold it.
LEMMA DataIsFresh ==
  ASSUME DataInv
  PROVE  MatchDataIsExact
<1>1. SnippetTypeOK
  BY DEF DataInv
<1> SUFFICES ASSUME result = "Ok", NEW m \in ReportedMatches
             PROVE  /\ Covered(m) => Get(m) # NotFound
                    /\ Get(m) # NotFound => Get(m).fresh \/ disturbed
  BY <1>1 DEF MatchDataIsExact
<1>2. PICK p \in PatternIds : m \in ToSet(match_lists[p])
  BY DEF ReportedMatches
<1>3. match_lists[p] \in Seq(Match)
  BY <1>1, TypeIs
<1>4. m \in Elements(match_lists[p]) /\ m \in Match
  BY <1>2, <1>3, ElementOfSeq DEF ToSet, Elements
<1> DEFINE holding == {offset \in DOMAIN finished :
                         offset <= m.start /\ m.end - offset <= finished[offset].len}
<1>5. Get(m) = IF holding = {} THEN NotFound ELSE finished[Max(holding)]
  BY DEF Get
<1>6. holding # {} => Max(holding) \in holding
  <2>1. holding \subseteq Int /\ m.start \in Int /\ \A x \in holding : x <= m.start
    BY <1>1, <1>4, TypeIs DEF IsSnippets, Match
  <2> HIDE DEF holding
  <2> QED
    BY <2>1, MaxIs
<1>7. ASSUME Covered(m) PROVE Get(m) # NotFound
  <2>1. m.start < m.end /\ HoldsTo(finished, m.start, m.end)
    BY <1>4, <1>7, CoveredIsHeld
  <2>2. holding # {}
    BY <2>1 DEF HoldsTo
  <2>3. PICK offset : offset = Max(holding)
    OBVIOUS
  <2>4. /\ Get(m) = finished[offset] /\ offset \in DOMAIN finished
        /\ offset <= m.start /\ m.end - offset <= finished[offset].len
    BY <1>5, <1>6, <2>2, <2>3
  <2>5. offset \in Nat /\ finished[offset].len \in Nat /\ m.start \in Nat /\ m.end \in Nat
    BY <1>1, <1>4, <2>4, TypeIs DEF IsSnippets, Snippet, Match
  <2>6. finished[offset].len # 0
    BY <2>1, <2>4, <2>5
  <2> QED
    BY <2>4, <2>6 DEF NotFound
<1>8. ASSUME Get(m) # NotFound, ~disturbed PROVE Get(m).fresh
  <2>1. holding # {}
    BY <1>5, <1>8
  <2>2. Get(m) = finished[Max(holding)] /\ Max(holding) \in DOMAIN finished
    BY <1>5, <1>6, <2>1
  <2>3. AllFresh(finished)
    BY <1>8 DEF DataInv, SnippetsInv
  <2> QED
    BY <2>2, <2>3 DEF AllFresh
<1> QED
  BY <1>7, <1>8

\* For any data, greedy or not, any blocks in any order, overlapping or not, and
\* any context sizes and timeouts, the data of every covered match of the results
\* can be read, and what is read is of this scan unless the finish before it timed
\* out (blocks::Scanner::scan and finish, and DataSnippets::get_with_context).
THEOREM MatchDataIsAlwaysExact == SnippetSpec => []MatchDataIsExact
<1>1. SnippetInit => DataInv
  BY DataInit
<1>2. DataInv /\ [SnippetNext]_snippetVars => DataInv'
  BY DataNext
<1>3. DataInv => MatchDataIsExact
  BY DataIsFresh
<1> QED
  BY <1>1, <1>2, <1>3, PTL DEF SnippetSpec

=============================================================================
