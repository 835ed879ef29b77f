----------------------------- MODULE ChainMatch -----------------------------
(***************************************************************************)
(* Patterns with large gaps are split into a chain of links that are       *)
(* searched for on their own (lib/src/re/hir.rs, split_at_large_gaps).     *)
(* The matches of a link are kept as unconfirmed until a match of the last *)
(* link is found, from which the chain is followed back to its heads:      *)
(* handle_sub_pattern_match, within_valid_distance and                     *)
(* verify_chain_of_matches in lib/src/scanner/context.rs.                  *)
(*                                                                         *)
(* This module follows one pattern through the blocks of a scan.  Link 1   *)
(* is the head of the chain, Links its last link.  When a link is found    *)
(* is left to the environment, within what the search for atoms allows.    *)
(***************************************************************************)
EXTENDS MatchList

CONSTANTS
  Links,       \* number of links of the chain
  Gap,         \* link -> [min, max] between it and the link before it
  Lengths,     \* link -> the lengths its matches may have
  MaxMatches,  \* max_matches_per_pattern
  Blocks,      \* number of blocks, one after the other
  BlockSize,
  MaxFound     \* bound on the number of matches of links

\* The max of a gap without upper bound: longer than any data.
Unbounded == 1000000

ASSUME ChainAssumption ==
  /\ Links \in Nat \ {0, 1}
  /\ Gap \in [2..Links -> [min : Nat, max : Nat]]
  /\ Lengths \in [1..Links -> SUBSET (Nat \ {0})]
  /\ Blocks \in Nat \ {0}
  /\ {MaxMatches, BlockSize, MaxFound} \subseteq Nat

VARIABLES
  greedy,       \* flag GreedyRegexp, the same for all links
  unconfirmed,  \* link -> vector of unconfirmed matches
  matches,      \* the matches of the whole pattern
  disabled,     \* the pattern is in disabled_patterns
  block,        \* the block being scanned
  found         \* history: the matches of links in the order they were found

vars == <<greedy, unconfirmed, matches, disabled, block, found>>

Unconfirmed == [start : Nat, end : Nat, chain_length : 0..Links]

NoneConfirmed == [k \in 1..(Links - 1) |-> <<>>]

Init ==
  /\ greedy \in BOOLEAN
  /\ unconfirmed = NoneConfirmed
  /\ matches = <<>> /\ disabled = FALSE
  /\ block = 1 /\ found = <<>>

-----------------------------------------------------------------------------

\* A match of link k may start at `start` if m is the match of the link
\* before it.
InGap(k, m, start) ==
  /\ m.end + Gap[k].min <= start
  /\ Gap[k].max # Unbounded => start <= m.end + Gap[k].max

\* within_valid_distance: whether a match of link k is worth keeping.  A gap
\* without upper bound is measured from the start of the match before it.
WithinValidDistance(k, start) ==
  \E i \in 1..Len(unconfirmed[k - 1]) :
    LET m == unconfirmed[k - 1][i]
    IN  IF Gap[k].max = Unbounded THEN m.start + Gap[k].min <= start
        ELSE InGap(k, m, start)

\* The queue of verify_chain_of_matches, one stretch per link.  A match of
\* link k is pushed by the first match in the stretch of link k + 1 that it
\* comes before with the right gap, and those pushed by one match are pushed
\* in the order of their vector.  A match is pushed once: its chain_length is
\* then more than the Links - k of the matches that could push it.
Stretch(k, later, start) ==
  LET startOf(j) == IF k + 1 = Links THEN start ELSE unconfirmed[k + 1][j].start
      from(i) == {p \in 1..Len(later) : InGap(k + 1, unconfirmed[k][i], startOf(later[p]))}
      first(i) == CHOOSE p \in from(i) : \A q \in from(i) : p <= q
      pushed == {i \in 1..Len(unconfirmed[k]) :
                   unconfirmed[k][i].chain_length <= Links - k /\ from(i) # {}}
      before == [i \in pushed |->
                   {j \in pushed : first(j) < first(i) \/ (first(j) = first(i) /\ j < i)}]
  IN  [n \in 1..Cardinality(pushed) |-> CHOOSE i \in pushed : Cardinality(before[i]) = n - 1]

\* Which matches of each link are reached from a last link at `start`, in the
\* order in which they are pushed.
ConfirmedBy(start) ==
  LET Q[k \in 1..Links] == IF k = Links THEN <<1>> ELSE Stretch(k, Q[k + 1], start)
  IN  Q

\* Mutant of Relabelled: the last link is counted twice.
RelabelledTwice(queue) ==
  [k \in 1..(Links - 1) |->
     [i \in 1..Len(unconfirmed[k]) |->
        [unconfirmed[k][i] EXCEPT
           !.chain_length = IF i \in ToSet(queue[k]) THEN Links - k + 2 ELSE @]]]

\* Mutant of Relabelled: a greedy chain is not opened again.
RelabelledOnce(queue) ==
  [k \in 1..(Links - 1) |->
     [i \in 1..Len(unconfirmed[k]) |->
        [unconfirmed[k][i] EXCEPT
           !.chain_length = IF i \in ToSet(queue[k]) THEN Links - k + 1 ELSE @]]]

\* The chain lengths afterwards.  If the pattern is greedy and a head was
\* reached all of them are 0 again, so that a later tail can replace this one.
Relabelled(queue) ==
  [k \in 1..(Links - 1) |->
     [i \in 1..Len(unconfirmed[k]) |->
        [unconfirmed[k][i] EXCEPT
           !.chain_length =
              IF greedy /\ queue[1] # <<>> THEN 0
              ELSE IF i \in ToSet(queue[k]) THEN Links - k + 1
              ELSE @]]]

\* track_match for the heads in the queue, in order: a list that is full
\* takes nothing more and disables the pattern.  (The bit of the pattern and
\* fast scan are in TrackMatch of ScanContext.)
TrackMatches(heads, base, end) ==
  LET one(t, h) ==
        IF t.list # <<>> /\ Len(t.list) >= MaxMatches
        THEN [t EXCEPT !.disabled = TRUE]
        ELSE [t EXCEPT !.list =
                Add(@, [base |-> base, start |-> unconfirmed[1][h].start, end |-> end], greedy)]
      T[n \in 0..Len(heads)] == IF n = 0 THEN [list |-> matches, disabled |-> disabled]
                                ELSE one(T[n - 1], heads[n])
  IN  T[Len(heads)]

BlockBase(b) == (b - 1) * BlockSize

\* handle_sub_pattern_match for a match of link k: a head is kept, and so is
\* a link in the middle that is close enough to a match of the link before...
KeepUnconfirmed(k, start, end) ==
  /\ k < Links
  /\ k > 1 => WithinValidDistance(k, start)
  /\ unconfirmed' = [unconfirmed EXCEPT ![k] =
       Append(@, [start |-> start, end |-> end, chain_length |-> 0])]
  /\ UNCHANGED <<matches, disabled>>

\* ... the last link confirms chains...
VerifyChain(k, start, end) ==
  /\ k = Links
  /\ WithinValidDistance(k, start)
  /\ LET queue == ConfirmedBy(start)
         t == TrackMatches(queue[1], BlockBase(block), end)
     IN  /\ unconfirmed' = Relabelled(queue)
         /\ matches' = t.list /\ disabled' = t.disabled

\* ... and a link that is too far away is dropped.
DropLink(k, start) ==
  /\ k > 1
  /\ ~WithinValidDistance(k, start)
  /\ UNCHANGED <<unconfirmed, matches, disabled>>

\* Atoms are found in the order of their position and lie within the match
\* they lead to, so no match that ends before another begins is found after
\* it.  A match may be found twice, through two atoms.
InOrder(end) ==
  \A i \in 1..Len(found) : found[i].block = block => found[i].start < end

\* A link is found in the current block.  Atoms of a disabled pattern are
\* skipped; what else the atom that disabled it leads to changes no list.
LinkFound(k, start, end) ==
  /\ ~disabled
  /\ Len(found) < MaxFound
  /\ InOrder(end)
  /\ \/ KeepUnconfirmed(k, start, end)
     \/ VerifyChain(k, start, end)
     \/ DropLink(k, start)
  /\ found' = Append(found, [link |-> k, block |-> block, start |-> start, end |-> end])
  /\ UNCHANGED <<greedy, block>>

\* Mutant of NextBlock: unconfirmed matches survive into the next block.
NextBlockKeeps ==
  /\ block < Blocks
  /\ block' = block + 1
  /\ UNCHANGED <<greedy, unconfirmed, matches, disabled, found>>

\* blocks::Scanner::scan with another block of the same scan.
NextBlock ==
  /\ block < Blocks
  /\ block' = block + 1
  /\ unconfirmed' = NoneConfirmed
  /\ UNCHANGED <<greedy, matches, disabled, found>>

Next ==
  \/ \E k \in 1..Links : \E len \in Lengths[k], start \in 0..(BlockSize - 1) :
       /\ start + len <= BlockSize
       /\ LinkFound(k, BlockBase(block) + start, BlockBase(block) + start + len)
  \/ NextBlock

Spec == Init /\ [][Next]_vars

-----------------------------------------------------------------------------

TypeOK ==
  /\ greedy \in BOOLEAN /\ disabled \in BOOLEAN
  /\ unconfirmed \in [1..(Links - 1) -> Seq(Unconfirmed)]
  /\ matches \in Seq(Match) /\ Len(matches) <= (IF MaxMatches = 0 THEN 1 ELSE MaxMatches)
  /\ block \in 1..Blocks
  /\ found \in Seq([link : 1..Links, block : 1..Blocks, start : Nat, end : Nat])

\* The chains in what was found: for each link the position of a match of it,
\* all in one block and with the gaps of the pattern.
Chains ==
  {c \in [1..Links -> 1..Len(found)] :
     /\ \A k \in 1..Links : found[c[k]].link = k /\ found[c[k]].block = found[c[1]].block
     /\ \A k \in 2..Links : InGap(k, found[c[k - 1]], found[c[k]].start)}

\* The tails of the chains that begin at an offset.
TailsFrom(start) == {c[Links] : c \in {d \in Chains : found[d[1]].start = start}}

\* The matches of the pattern are the chains in what was found, one for each
\* offset where a chain begins: unless the limit was hit none is missed, and
\* none is made up from links of two blocks.
ChainsAreExact ==
  /\ TypeOK
  /\ \A i \in 1..Len(matches) :
       \E t \in TailsFrom(matches[i].start) : matches[i].end = found[t].end
  /\ ~disabled => Starts(matches) = {found[c[1]].start : c \in Chains}

\* A match ends where the first tail that completed it does; if the pattern
\* is greedy, not before the last one does.
EndIsTheRightOne ==
  ~disabled =>
    \A i \in 1..Len(matches) :
      LET tails == TailsFrom(matches[i].start)
      IN  IF greedy THEN \A t \in tails : (\A u \in tails : u <= t) => matches[i].end >= found[t].end
          ELSE \A t \in tails : (\A u \in tails : t <= u) => matches[i].end = found[t].end
=============================================================================
