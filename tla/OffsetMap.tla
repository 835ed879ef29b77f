----------------------------- MODULE OffsetMap -----------------------------
(***************************************************************************)
(* What the store of matches computes, call by call: for every pattern a   *)
(* map from the offset where a match starts to the offset where it ends,   *)
(* which changes no more once it has `limit` offsets.  No order, no binary *)
(* search, no memory management.                                           *)
(*                                                                         *)
(* A known offset gets a new end only if the call asks for it, and then    *)
(* only a later one: with one exception, the greatest offset of a pattern. *)
(* Its end is overwritten by any other, an earlier one too, where the      *)
(* documentation of `add` (matches.rs:65-70 and 300-306) promises the      *)
(* comparison for every offset.                                            *)
(***************************************************************************)
EXTENDS Naturals, FiniteSets

CONSTANTS Patterns, Offsets, Limits

VARIABLES found,    \* found[p] : offset -> end, for the offsets p matched at
          limit,
          offered   \* the arguments of the last call of add

vars == <<found, limit, offered>>

NotAnOffer == <<>>

Init == /\ found = [p \in Patterns |-> <<>>]
        /\ limit \in Limits
        /\ offered = NotAnOffer

IsGreatest(p, s) == \A o \in DOMAIN found[p] : o <= s

\* The map of p after the offer of a match from s to e.
After(p, s, e, replace_if_longer) ==
  LET known == DOMAIN found[p]
  IN  CASE Cardinality(known) >= limit -> found[p]
        [] Cardinality(known) < limit /\ s \notin known ->
             [o \in known \cup {s} |-> IF o = s THEN e ELSE found[p][o]]
        [] Cardinality(known) < limit /\ s \in known ->
             IF replace_if_longer /\ (e > found[p][s] \/ IsGreatest(p, s))
             THEN [found[p] EXCEPT ![s] = e]
             ELSE found[p]

Offer(p, s, e, replace_if_longer) ==
  /\ offered' = <<p, s, e, replace_if_longer>>
  /\ found' = [found EXCEPT ![p] = After(p, s, e, replace_if_longer)]
  /\ UNCHANGED limit

Clear ==
  /\ found' = [p \in Patterns |-> <<>>]
  /\ offered' = NotAnOffer /\ UNCHANGED limit

SetLimit(n) == limit' = n /\ offered' = NotAnOffer /\ UNCHANGED found

Next == \/ \E p \in Patterns, s, e \in Offsets, replace_if_longer \in BOOLEAN :
             Offer(p, s, e, replace_if_longer)
        \/ Clear
        \/ \E n \in Limits : SetLimit(n)

Spec == Init /\ [][Next]_vars
=============================================================================
