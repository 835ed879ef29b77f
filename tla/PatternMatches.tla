--------------------------- MODULE PatternMatches ---------------------------
(***************************************************************************)
(* The hash map from patterns to their match lists that a scanner reuses   *)
(* from scan to scan: lib/src/scanner/matches.rs, struct PatternMatches.   *)
(* An entry survives `clear` so that its memory can be reused, unless the  *)
(* memory of all lists together went above a threshold; the running total  *)
(* `capacity` is what decides it.                                          *)
(***************************************************************************)
EXTENDS MatchList, Integers, FiniteSetsExt

CONSTANTS
  Patterns,           \* pattern identifiers
  Matches,            \* the matches that may be offered
  Limits,             \* the values given to max_matches_per_pattern
  Bounds,             \* the (signed) bounds of the ranges asked for
  InitialCapacity,    \* 8: MatchList::with_capacity(8)
  CapacityThreshold   \* 10000

ASSUME PatternMatchesAssumption ==
  /\ IsFiniteSet(Patterns)
  /\ Matches \subseteq Match
  /\ Limits \subseteq Nat
  /\ Bounds \subseteq Int
  /\ InitialCapacity \in Nat \ {0}
  /\ CapacityThreshold \in Nat

VARIABLES
  occupied,                 \* patterns that have an entry in the hash map
  lists,                    \* the match list of each entry
  caps,                     \* the capacity of each entry's vector
  capacity,                 \* PatternMatches::capacity
  max_matches_per_pattern,
  offered                   \* history: the arguments of the last `add`

vars == <<occupied, lists, caps, capacity, max_matches_per_pattern, offered>>

NotAnOffer == <<>>
Offering(p, m, replace) == offered' = <<p, m.start, m.end, replace>>

Init ==
  /\ occupied = {}
  /\ lists = [p \in Patterns |-> <<>>]
  /\ caps = [p \in Patterns |-> 0]
  /\ capacity = 0
  /\ max_matches_per_pattern \in Limits
  /\ offered = NotAnOffer

\* A vector of capacity cap that has to hold n elements (external: Vec).
Grown(cap, n) == IF n <= cap THEN cap ELSE 2 * cap

\* Mutant of AddVacant: the new list is not accounted for.
AddVacantForgetsCapacity(p, m, replace) ==
  /\ p \notin occupied
  /\ occupied' = occupied \cup {p}
  /\ lists' = [lists EXCEPT ![p] = Add(<<>>, m, replace)]
  /\ caps' = [caps EXCEPT ![p] = InitialCapacity]
  /\ Offering(p, m, replace)
  /\ UNCHANGED <<capacity, max_matches_per_pattern>>

\* PatternMatches::add, vacant entry: the list is created with room for
\* InitialCapacity matches and the limit is not consulted.
AddVacant(p, m, replace) ==
  /\ p \notin occupied
  /\ occupied' = occupied \cup {p}
  /\ lists' = [lists EXCEPT ![p] = Add(<<>>, m, replace)]
  /\ caps' = [caps EXCEPT ![p] = InitialCapacity]
  /\ capacity' = capacity + InitialCapacity
  /\ Offering(p, m, replace)
  /\ UNCHANGED max_matches_per_pattern

\* Mutant of AddOccupied: off by one at the limit.
AddOccupiedAtLimit(p, m, replace) ==
  /\ p \in occupied
  /\ Len(lists[p]) <= max_matches_per_pattern
  /\ LET new == Add(lists[p], m, replace)
     IN  /\ lists' = [lists EXCEPT ![p] = new]
         /\ caps' = [caps EXCEPT ![p] = Grown(@, Len(new))]
         /\ capacity' = (capacity - caps[p]) + caps'[p]
  /\ Offering(p, m, replace)
  /\ UNCHANGED <<occupied, max_matches_per_pattern>>

\* Mutant of AddOccupied: returns Updated before the capacity is added back.
AddOccupiedReturnsEarly(p, m, replace) ==
  /\ p \in occupied
  /\ Len(lists[p]) < max_matches_per_pattern
  /\ LET new == Add(lists[p], m, replace)
     IN  /\ lists' = [lists EXCEPT ![p] = new]
         /\ caps' = [caps EXCEPT ![p] = Grown(@, Len(new))]
         /\ capacity' = (capacity - caps[p])
                          + IF Len(new) = Len(lists[p]) THEN 0 ELSE caps'[p]
  /\ Offering(p, m, replace)
  /\ UNCHANGED <<occupied, max_matches_per_pattern>>

\* PatternMatches::add, occupied entry below the limit.
AddOccupied(p, m, replace) ==
  /\ p \in occupied
  /\ Len(lists[p]) < max_matches_per_pattern
  /\ LET new == Add(lists[p], m, replace)
     IN  /\ lists' = [lists EXCEPT ![p] = new]
         /\ caps' = [caps EXCEPT ![p] = Grown(@, Len(new))]
         /\ capacity' = (capacity - caps[p]) + caps'[p]
  /\ Offering(p, m, replace)
  /\ UNCHANGED <<occupied, max_matches_per_pattern>>

\* PatternMatches::add, occupied entry at the limit: MaxMatchesReached.
AddRejected(p, m, replace) ==
  /\ p \in occupied
  /\ Len(lists[p]) >= max_matches_per_pattern
  /\ Offering(p, m, replace)
  /\ UNCHANGED <<occupied, lists, caps, capacity, max_matches_per_pattern>>

\* PatternMatches::clear.
Clear ==
  /\ lists' = [p \in Patterns |-> <<>>]
  /\ \/ /\ capacity > CapacityThreshold
        /\ occupied' = {}
        /\ caps' = [p \in Patterns |-> 0]
        /\ capacity' = 0
     \/ /\ capacity <= CapacityThreshold
        /\ UNCHANGED <<occupied, caps, capacity>>
  /\ offered' = NotAnOffer
  /\ UNCHANGED max_matches_per_pattern

\* PatternMatches::max_matches_per_pattern, called between two scans.
SetMax(n) ==
  /\ max_matches_per_pattern' = n
  /\ offered' = NotAnOffer
  /\ UNCHANGED <<occupied, lists, caps, capacity>>

Next ==
  \/ \E p \in Patterns, m \in Matches, replace \in BOOLEAN :
       \/ AddVacant(p, m, replace)
       \/ AddOccupied(p, m, replace)
       \/ AddRejected(p, m, replace)
  \/ Clear
  \/ \E n \in Limits : SetMax(n)

Spec == Init /\ [][Next]_vars

-----------------------------------------------------------------------------

TypeOK ==
  /\ occupied \subseteq Patterns
  /\ lists \in [Patterns -> Seq(Match)]
  /\ caps \in [Patterns -> Nat]
  /\ capacity \in Nat
  /\ max_matches_per_pattern \in Limits

\* "The matches are kept sorted by starting offset in ascending order.  Two
\* different matches can't have the same starting offset" (MatchList), which
\* every binary search and matches_in_range depend on.
AllSorted == \A p \in Patterns : SortedByStart(lists[p])

\* The running total is the capacity of all lists together, so the
\* subtraction in `add` (usize) never underflows and `clear` frees the lists
\* exactly when they are above the threshold.
CapacityIsSum == capacity = MapThenSumSet(LAMBDA p : caps[p], Patterns)

\* The run that matches_in_range counts from the position its binary search
\* returns is exactly the matches that start in the (signed) range.
RangeCountIsExact ==
  \A p \in Patterns :
    \A lo, hi \in Bounds :
      MatchesInRange(lists[p], lo, hi)
        = Cardinality({i \in 1..Len(lists[p]) : lists[p][i].start \in lo..hi})

\* An offset that was reported stays reported until the lists are cleared,
\* and a list that is at the limit does not grow.
ListsGrowToTheLimit ==
  [][~Clear => \A p \in Patterns :
       /\ Starts(lists[p]) \subseteq Starts(lists'[p])
       /\ Len(lists'[p]) <= Len(lists[p])
            \/ Len(lists[p]) < max_matches_per_pattern]_vars

\* A match that has others after it in its list never gets shorter nor moves
\* to another block, wherever matches with the same start arrive in between.
\* The last match of a list is left out: `add` overwrites its end without a
\* comparison (ImplementsOffsetMap says exactly when).
MatchesOnlyGrow ==
  [][~Clear => \A p \in Patterns : \A i \in 1..(Len(lists[p]) - 1) :
       \E j \in 1..Len(lists'[p]) :
          /\ lists'[p][j].start = lists[p][i].start
          /\ lists'[p][j].base = lists[p][i].base
          /\ lists'[p][j].end >= lists[p][i].end]_vars

-----------------------------------------------------------------------------

\* The sorted vectors seen as maps from start to end.
FoundMap ==
  [p \in Patterns |->
     [o \in Starts(lists[p]) |->
        (CHOOSE m \in {lists[p][i] : i \in 1..Len(lists[p])} : m.start = o).end]]

Abstract == INSTANCE OffsetMap WITH
  found <- FoundMap, limit <- max_matches_per_pattern,
  Offsets <- {m.start : m \in Matches} \cup {m.end : m \in Matches}

\* The sorted vectors are, call by call, the map from offsets to matches of
\* OffsetMap: no offset is misplaced, lost or added at the limit, an end changes
\* only in a call with replace_if_longer, and only to a later one, except that
\* of the last match, which `add` overwrites with any (against its
\* documentation).
ImplementsOffsetMap == Abstract!Spec
=============================================================================
