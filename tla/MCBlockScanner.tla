--------------------------- MODULE MCBlockScanner ---------------------------
(* Three rules and four blocks: two with a pattern each, one with both, of  *)
(* which one is anchored, and one with nothing to find.                     *)
EXTENDS BlockScanner

CONSTANTS p1, p2

Cond(k, a) == [kind |-> k, arg |-> a]

MCNamespaceOf == <<1, 1, 2>>
MCCondition == <<Cond("none", {p2}), Cond("any", {p1}), Cond("any", {p1, p2})>>
MCTimeouts == {Year, 1}
MCImports == <<>>

Piece(base, atoms, anchored) ==
  [base |-> base, size |-> Len(atoms), atoms |-> atoms, anchored |-> anchored,
   size_out |-> {}, header_out |-> {}, holds |-> {}, fails |-> {}]

MCData == {Piece(0, <<p2>>, {})}
MCBlocks ==
  {Piece(0, <<p1>>, {}), Piece(1, <<p2>>, {}), Piece(2, <<p1>>, {p2}), Piece(3, <<>>, {})}

ASSUME OnlyPatternsDecide
=============================================================================
