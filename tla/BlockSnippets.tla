---------------------------- MODULE BlockSnippets ----------------------------
(***************************************************************************)
(* The data of the matches that a block scanner reports.  Blocks are gone  *)
(* when finish() reports a match, so blocks::Scanner::scan (blocks.rs)     *)
(* copies a snippet around each match of the block, and Match::data        *)
(* (lib/src/models.rs) finds the match again in one of the snippets        *)
(* (DataSnippets::get_with_context, mod.rs).  Matches are kept in the      *)
(* lists of MatchList.  Data is consistent across the blocks of one scan,  *)
(* as the documentation asks for, so a snippet is its length and whether   *)
(* it comes from the current scan.                                         *)
(***************************************************************************)
EXTENDS MatchList, Integers, FiniteSetsExt

CONSTANTS
  Occurrences,   \* what the data contains: [pattern, start, ends]
  Greedy,        \* patterns whose longest match counts (replace_if_longer)
  Blocks,        \* the blocks that may be scanned: [base, len]
  ContextSizes   \* the values of match_context_size in use

PatternIds == {o.pattern : o \in Occurrences}

ASSUME BlockSnippetsAssumption ==
  /\ \A o \in Occurrences :
       o.start \in Nat /\ o.ends # {} /\ \A e \in o.ends : e \in Nat /\ o.start < e
  /\ \A o, q \in Occurrences : o.pattern = q.pattern /\ o.start = q.start => o = q
  /\ \A b \in Blocks : b.base \in Nat /\ b.len \in Nat
  /\ Greedy \subseteq PatternIds
  /\ ContextSizes \subseteq Nat

VARIABLES
  match_lists,         \* pattern_matches: pattern -> MatchList
  snippets,            \* BTreeMap: offset -> snippet
  finished,            \* the snippets of ScanState::Finished
  match_context_size,
  needs_reset,
  timed_out,           \* scan_state is ScanState::Timeout
  result,              \* outcome of the last call
  expired,             \* the deadline of the search is over
  leftover,            \* history: the last finish timed out
  disturbed,           \* history: leftover when this scan began
  scanned              \* history: the blocks of this scan that were searched

snippetVars == <<match_lists, snippets, finished, match_context_size, needs_reset,
                 timed_out, result, expired, leftover, disturbed, scanned>>

SnippetInit ==
  /\ match_lists = [p \in PatternIds |-> <<>>]
  /\ snippets = <<>> /\ finished = <<>>
  /\ match_context_size = 0 /\ needs_reset = TRUE
  /\ timed_out = FALSE /\ result = "None"
  /\ expired = FALSE /\ leftover = FALSE /\ disturbed = FALSE /\ scanned = {}

-----------------------------------------------------------------------------

BlockEnd(b) == b.base + b.len

\* The match of an occurrence in block b: it is found if one of its ends is in
\* the block, and its longest such end counts if it is greedy.
EndsIn(o, b) == {e \in o.ends : e <= BlockEnd(b)}
MatchIn(o, b) ==
  [base |-> b.base, start |-> o.start,
   end |-> IF o.pattern \in Greedy THEN Max(EndsIn(o, b)) ELSE Min(EndsIn(o, b))]
FoundAt(p, b, start) ==
  {o \in Occurrences : o.pattern = p /\ o.start = start /\ EndsIn(o, b) # {}}

\* The lists when the search of b has tracked the matches that start before
\* `stop`, position by position.  A first block starts with empty lists.
Current == IF needs_reset THEN [p \in PatternIds |-> <<>>] ELSE match_lists
Track(list, p, b, start) ==
  LET found == FoundAt(p, b, start)
  IN  IF found = {} THEN list
      ELSE Add(list, MatchIn(CHOOSE o \in found : TRUE, b), p \in Greedy)
Tracked(p, b) ==
  LET list[n \in 0..b.len] ==
        IF n = 0 THEN Current[p] ELSE Track(list[n - 1], p, b, (b.base + n) - 1)
  IN  list
Searched(b, stop) == [p \in PatternIds |-> Tracked(p, b)[stop - b.base]]

\* Mutant of ContextStart: the subtraction does not saturate.
ContextStartWraps(m, b) == m.start - match_context_size

\* Where the context of a match starts: at most context bytes before it, but
\* not before the block.
ContextStart(m, b) == Max({m.start - match_context_size, b.base, 0})

ContextEnd(m, b) == Min({m.end + match_context_size, BlockEnd(b)})

\* data.get(block_start..block_end) is Some
InBlock(m, b) == ContextStart(m, b) <= ContextEnd(m, b)

\* Mutant of Wins: the snippet that came first stays.
FirstWins(old, len) == FALSE

\* A snippet replaces one at the same offset if it is longer.
Wins(old, len) == len > old.len

\* The snippets of block b: for each offset the longest of those of the
\* matches whose context starts there, unless an older one is as long.  The
\* matches are those of the lists whose base is the base of the block.
Collected(new, old, b) ==
  LET mine == {m \in UNION {ToSet(new[p]) : p \in PatternIds} : m.base = b.base /\ InBlock(m, b)}
      At(offset) == {m \in mine : ContextStart(m, b) = offset}
      Longest(offset) == Max({ContextEnd(m, b) - offset : m \in At(offset)})
  IN  [offset \in DOMAIN old \cup {ContextStart(m, b) : m \in mine} |->
         IF At(offset) = {} THEN old[offset]
         ELSE IF offset \in DOMAIN old /\ ~Wins(old[offset], Longest(offset)) THEN old[offset]
         ELSE [len |-> Longest(offset), fresh |-> TRUE]]

\* What is left of the snippets of an earlier scan when a new one starts.
Kept ==
  IF needs_reset THEN [offset \in DOMAIN snippets |-> [snippets[offset] EXCEPT !.fresh = FALSE]]
  ELSE snippets

\* blocks::Scanner::match_context_size
SetContextSize(n) ==
  /\ match_context_size' = n /\ result' = "None"
  /\ UNCHANGED <<match_lists, snippets, finished, needs_reset, timed_out,
                 expired, leftover, disturbed, scanned>>

\* The history of a scan begins with its first call.
BeginScan == disturbed' = IF needs_reset THEN leftover ELSE disturbed
Before == IF needs_reset THEN {} ELSE scanned

\* blocks::Scanner::scan returns Ok.  After a deadline only a search that
\* never looks at the clock does: one without any match.
Scan(b) ==
  /\ expired /\ ~needs_reset => \A o \in Occurrences : b.base <= o.start => EndsIn(o, b) = {}
  /\ LET found == Searched(b, BlockEnd(b))
     IN  /\ match_lists' = found
         /\ snippets' = Collected(found, Kept, b)
  /\ BeginScan /\ scanned' = Before \cup {b} /\ expired' = (expired /\ ~needs_reset)
  /\ needs_reset' = FALSE /\ timed_out' = FALSE /\ result' = "Scanned"
  /\ finished' = <<>>
  /\ UNCHANGED <<match_context_size, leftover>>

\* The search times out: scan returns before it collects any snippet.
ScanTimesOut(b, stop) ==
  /\ match_lists' = Searched(b, stop)
  /\ snippets' = Kept
  /\ BeginScan /\ scanned' = Before /\ expired' = TRUE
  /\ needs_reset' = FALSE /\ timed_out' = TRUE /\ result' = "Timeout"
  /\ finished' = <<>>
  /\ UNCHANGED <<match_context_size, leftover>>

\* blocks::Scanner::finish returns Ok, and the snippets are taken.
Finish ==
  /\ needs_reset \/ ~timed_out
  /\ match_lists' = Current
  /\ finished' = Kept /\ snippets' = <<>>
  /\ BeginScan /\ scanned' = Before /\ leftover' = FALSE /\ expired' = (expired /\ ~needs_reset)
  /\ needs_reset' = TRUE /\ timed_out' = FALSE /\ result' = "Ok"
  /\ UNCHANGED match_context_size

\* eval_conditions times out: finish returns before it takes the snippets.
FinishTimesOut ==
  /\ match_lists' = Current /\ snippets' = Kept
  /\ BeginScan /\ scanned' = Before /\ leftover' = TRUE /\ expired' = (expired /\ ~needs_reset)
  /\ needs_reset' = TRUE /\ timed_out' = (timed_out /\ ~needs_reset)
  /\ result' = "Timeout" /\ finished' = <<>>
  /\ UNCHANGED match_context_size

SnippetNext ==
  \/ \E n \in ContextSizes : SetContextSize(n)
  \/ \E b \in Blocks : Scan(b)
  \/ \E b \in Blocks : \E stop \in b.base..BlockEnd(b) : ScanTimesOut(b, stop)
  \/ Finish \/ FinishTimesOut

SnippetSpec == SnippetInit /\ [][SnippetNext]_snippetVars

-----------------------------------------------------------------------------
(* Reading the data of a match                                             *)

NotFound == [len |-> 0, fresh |-> FALSE]

\* DataSnippets::get_with_context: the snippet with the greatest offset, not
\* after the match, that holds the whole match.
Get(m) ==
  LET holding == {offset \in DOMAIN finished :
                    offset <= m.start /\ m.end - offset <= finished[offset].len}
  IN  IF holding = {} THEN NotFound ELSE finished[Max(holding)]

ReportedMatches == UNION {ToSet(match_lists[p]) : p \in PatternIds}

-----------------------------------------------------------------------------

SnippetTypeOK ==
  /\ match_lists \in [PatternIds -> Seq(Match)]
  /\ \A s \in {snippets, finished} :
       \A offset \in DOMAIN s : offset \in Nat /\ s[offset] \in [len : Nat, fresh : BOOLEAN]
  /\ match_context_size \in ContextSizes \cup {0}
  /\ {needs_reset, timed_out, expired, leftover, disturbed} \subseteq BOOLEAN
  /\ scanned \subseteq Blocks
  /\ result \in {"None", "Scanned", "Ok", "Timeout"}

\* A match is covered if a block that was searched to the end, and starts where
\* the block the match was first found in does, contains all of it.
Covered(m) == \E b \in scanned : b.base = m.base /\ m.end <= BlockEnd(b)

\* Every covered match of the results can be read (Match::data does not panic),
\* and data that is read is that of this scan unless the finish before it timed
\* out, for any sequence of overlapping blocks, context sizes and timeouts.  Not
\* covered is a match of a block whose search timed out, and a greedy match that
\* an overlapping block with another base made longer: no snippet of its new end
\* is taken, and Match::data may panic.
MatchDataIsExact ==
  /\ SnippetTypeOK
  /\ result = "Ok" => \A m \in ReportedMatches :
                       /\ Covered(m) => Get(m) # NotFound
                       /\ Get(m) # NotFound => Get(m).fresh \/ disturbed
=============================================================================
