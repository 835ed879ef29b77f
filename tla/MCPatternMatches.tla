-------------------------- MODULE MCPatternMatches --------------------------
(* Small instances of PatternMatches: matches that start at 0..MaxOffset   *)
(* and are 1 or 2 long, vectors that start with room for one match, and a  *)
(* threshold that some runs of `clear` exceed and others do not.           *)
EXTENDS PatternMatches

CONSTANTS p1, p2, MaxOffset

MCMatches == {[base |-> 0, start |-> s, end |-> s + l] : s \in 0..MaxOffset, l \in 1..2}
MCBounds == (-2)..(MaxOffset + 2)
=============================================================================
