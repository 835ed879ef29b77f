----------------------------- MODULE MatchList -----------------------------
(***************************************************************************)
(* The list of matches that the scanner keeps for one pattern:             *)
(* lib/src/scanner/matches.rs, struct MatchList.  A pure data structure,   *)
(* so everything here is an operator on the Rust vector, a sequence of     *)
(* records.  Indexes are 1-based: Ok(i) or Err(i) of a binary search is    *)
(* position i + 1 here.  The XOR key carried by a match is left out: no    *)
(* operation of the list looks at it.                                      *)
(***************************************************************************)
EXTENDS Naturals, Sequences, FiniteSets, SequencesExt

\* A match: the base of the block it was found in and its absolute range.
Match == [base : Nat, start : Nat, end : Nat]

Starts(list) == {list[i].start : i \in 1..Len(list)}

\* The binary search of the standard library.  It is only specified on a
\* list sorted by start; there, the first position whose match does not start
\* before the offset is where the match is, or where it would be inserted.
SearchIndex(list, offset) ==
  CHOOSE i \in 1..(Len(list) + 1) :
    /\ \A j \in 1..(i - 1) : list[j].start < offset
    /\ \A j \in i..Len(list) : list[j].start >= offset

\* Mutant of Add: a match that starts where the last one does is pushed.
AddPushesTies(list, m, replace_if_longer) ==
  LET n == Len(list)
      i == SearchIndex(list, m.start)
  IN  IF n = 0 \/ m.start >= list[n].start THEN Append(list, m)
      ELSE IF list[i].start # m.start THEN InsertAt(list, i, m) ELSE list

\* Mutant of Add: no arm compares the lengths.
AddReplaces(list, m, replace_if_longer) ==
  LET n == Len(list)
      i == SearchIndex(list, m.start)
  IN  IF n = 0 \/ m.start > list[n].start THEN Append(list, m)
      ELSE IF list[i].start # m.start THEN InsertAt(list, i, m)
      ELSE IF replace_if_longer THEN [list EXCEPT ![i].end = m.end] ELSE list

\* Mutant of Add: the flag is not looked at when the end is a later one.
AddIgnoresFlag(list, m, replace_if_longer) ==
  LET n == Len(list)
      i == SearchIndex(list, m.start)
  IN  IF n = 0 \/ m.start > list[n].start THEN Append(list, m)
      ELSE IF list[i].start # m.start THEN InsertAt(list, i, m)
      ELSE IF list[i].end < m.end \/ (replace_if_longer /\ i = n)
           THEN [list EXCEPT ![i].end = m.end]
           ELSE list

\* MatchList::add.  Four arms, in the order of the Rust match expression:
\* past the last match (push), at the last match (overwrite its end), empty
\* list (push), before the last match (binary search).  Only range.end of an
\* existing match is updated; its base stays the one of the first match.
Add(list, m, replace_if_longer) ==
  LET n == Len(list)
      i == SearchIndex(list, m.start)
  IN  CASE n = 0 -> <<m>>
        [] n > 0 /\ m.start > list[n].start -> Append(list, m)
        [] n > 0 /\ m.start = list[n].start ->
             IF replace_if_longer THEN [list EXCEPT ![n].end = m.end] ELSE list
        [] n > 0 /\ m.start < list[n].start ->
             IF list[i].start # m.start THEN InsertAt(list, i, m)
             ELSE IF replace_if_longer /\ list[i].end < m.end
                  THEN [list EXCEPT ![i].end = m.end]
                  ELSE list

\* Mutant of MatchesInRange: stops as soon as a match starts at hi.
MatchesInRangeOpen(list, lo, hi) ==
  IF hi < 0 THEN 0
  ELSE LET first == SearchIndex(list, IF lo < 0 THEN 0 ELSE lo)
           stop  == CHOOSE k \in first..(Len(list) + 1) :
                      /\ \A j \in first..(k - 1) : list[j].start < hi
                      /\ k <= Len(list) => list[k].start >= hi
       IN  stop - first

\* MatchList::matches_in_range: from the first match that starts at lo or
\* after, the length of the run of matches that start in lo..hi.  The bounds
\* are signed; a negative lo is taken as 0.
MatchesInRange(list, lo, hi) ==
  IF hi < 0 THEN 0
  ELSE LET first == SearchIndex(list, IF lo < 0 THEN 0 ELSE lo)
           stop  == CHOOSE k \in first..(Len(list) + 1) :
                      /\ \A j \in first..(k - 1) : list[j].start <= hi
                      /\ k <= Len(list) => list[k].start > hi
       IN  stop - first

-----------------------------------------------------------------------------

\* "The matches are kept sorted by starting offset in ascending order.  Two
\* different matches can't have the same starting offset."
SortedByStart(list) ==
  \A i, j \in 1..Len(list) : i < j => list[i].start < list[j].start

=============================================================================
