--------------------------- MODULE MCChainMatch ---------------------------
(* Instances of ChainMatch for TLC. *)
EXTENDS ChainMatch

\* Three links: a gap of 0 or 1 byte, then one of any length.
ThreeLinks == [k \in 2..3 |-> IF k = 2 THEN [min |-> 0, max |-> 1]
                                       ELSE [min |-> 0, max |-> Unbounded]]

\* The last link has matches of one or two bytes.
ThreeLengths == [k \in 1..3 |-> IF k = 3 THEN {1, 2} ELSE {1}]
=============================================================================
