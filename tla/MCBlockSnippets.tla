--------------------------- MODULE MCBlockSnippets ---------------------------
(* Two patterns in seven bytes, scanned in overlapping blocks.              *)
EXTENDS BlockSnippets

CONSTANTS a, r

Occurrence(p, start, ends) == [pattern |-> p, start |-> start, ends |-> ends]
Block(base, len) == [base |-> base, len |-> len]

\* a twice, with the longer match second; r at the same offset as the first a, with
\* two lengths, and once more after it, so that it is not always the last match.
MCOccurrences ==
  {Occurrence(a, 1, {2}), Occurrence(a, 4, {6}),
   Occurrence(r, 1, {3, 6}), Occurrence(r, 3, {4})}

\* Blocks with different bases: one contains another, others overlap.
MCBlocks == {Block(0, 3), Block(1, 5), Block(2, 5), Block(3, 1)}
=============================================================================
