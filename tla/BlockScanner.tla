----------------------------- MODULE BlockScanner -----------------------------
(***************************************************************************)
(* The scanner for data that comes in blocks, lib/src/scanner/blocks.rs,   *)
(* on the same context: every block is searched by a call of its own, and  *)
(* finish evaluates the conditions.  It may also take over the context of  *)
(* a Scanner that has been used (From<Scanner>, make_multi_block in        *)
(* capi/src/scanner.rs).  Snippets of the matched data are in BlockSnippets.*)
(***************************************************************************)
EXTENDS Scanner

CONSTANT Blocks   \* the blocks that may be scanned, members of Inputs

ASSUME BlockScannerAssumption == Blocks \subseteq Inputs

VARIABLES
  mode,         \* "whole" while the context belongs to a Scanner, or "blocks"
  needs_reset,
  searched,     \* history: some block was scanned
  found,        \* history: patterns in the blocks of this scan
  interrupted   \* history: the search in one of them timed out

blockVars == <<mode, needs_reset, searched, found, interrupted>>
historyVars == <<searched, found, interrupted>>
allVars == <<vars, blockVars>>

BlockInit ==
  /\ Init /\ mode = "whole" /\ needs_reset = TRUE
  /\ searched = FALSE /\ found = {} /\ interrupted = FALSE

\* A call of a Scanner, or one of its steps.
WholeStep == mode = "whole" /\ Next /\ UNCHANGED blockVars

\* From<Scanner>: the store, and all that is in it, is kept.
FromScanner ==
  /\ mode = "whole" /\ pc = "ready"
  /\ mode' = "blocks" /\ needs_reset' = TRUE /\ result' = "None"
  /\ UNCHANGED <<controlVars, scan_state, settingVars, matchVars, ruleVars,
                 clockVars, pattern_search_done, moduleVars, given, inherited, historyVars>>

\* blocks::Scanner::set_timeout
BlockSetTimeout(t) ==
  /\ mode = "blocks" /\ SetTimeout(t) /\ UNCHANGED blockVars

\* blocks::Scanner::scan: reset, if this is the first block...
ScanFirstBlock(b) ==
  /\ mode = "blocks" /\ pc = "ready" /\ needs_reset
  /\ Reset("block_deadline")
  /\ needs_reset' = FALSE /\ input' = b /\ result' = "None"
  /\ found' = {} /\ interrupted' = FALSE
  /\ UNCHANGED <<rule, atom, taken, caller, filesize, root_struct, timeout,
                 epoch_left, heartbeat, pattern_search_done, moduleVars, given, inherited,
                 mode, searched>>

BlockDeadline ==
  /\ pc = "block_deadline"
  /\ SetEpochDeadline
  /\ pc' = "search_block"
  /\ UNCHANGED <<rule, atom, taken, caller, scan_state, settingVars, matchVars,
                 ruleVars, hb_left, pattern_search_done, result, moduleVars,
                 given, inherited, blockVars>>

\* ... or only the matches in progress (see ChainMatch) are forgotten.
ScanNextBlock(b) ==
  /\ mode = "blocks" /\ pc = "ready" /\ ~needs_reset
  /\ pc' = "search_block" /\ input' = b /\ result' = "None"
  /\ UNCHANGED <<rule, atom, taken, caller, scan_state, filesize, root_struct,
                 timeout, matchVars, ruleVars, clockVars, pattern_search_done,
                 moduleVars, given, inherited, blockVars>>

\* The block is the data of the scan state and is searched.
SearchBlock ==
  /\ pc = "search_block"
  /\ scan_state' = "ScanningBlock"
  /\ pattern_search_done' = FALSE
  /\ searched' = TRUE
  /\ found' = found \cup ToSet(input.atoms) \cup input.anchored
  /\ pc' = "begin_search"
  /\ UNCHANGED <<rule, atom, taken, caller, settingVars, matchVars, ruleVars,
                 clockVars, result, moduleVars, given, inherited, mode, needs_reset, interrupted>>

\* The search: shared with conditions, and interrupted by the same clock.
BlockSearchStep ==
  /\ mode = "blocks"
  /\ \/ pc = "begin_search" /\ SearchBegins("block")
     \/ SearchAtom
     \/ SearchEnds
     \/ SearchTimesOut
  /\ interrupted' = (interrupted \/ scan_state' = "Timeout")
  /\ UNCHANGED <<moduleVars, given, inherited, mode, needs_reset, searched, found>>

\* The search ended: blocks::Scanner::scan returns.
BlockReturns ==
  /\ pc = "block"
  /\ scan_state' = "Idle"
  /\ pc' = "ready" /\ result' = "Scanned"
  /\ UNCHANGED <<rule, atom, taken, caller, settingVars, matchVars, ruleVars,
                 clockVars, pattern_search_done, moduleVars, given, inherited, blockVars>>

\* blocks::Scanner::finish after some block...
Finish ==
  /\ mode = "blocks" /\ pc = "ready" /\ ~needs_reset
  /\ needs_reset' = TRUE
  /\ pc' = "enter" /\ rule' = 1 /\ result' = "None"
  /\ UNCHANGED <<atom, taken, caller, scan_state, settingVars, matchVars, ruleVars,
                 clockVars, pattern_search_done, moduleVars, given, inherited, mode, historyVars>>

\* ... and without any.
FinishEmpty ==
  /\ mode = "blocks" /\ pc = "ready" /\ needs_reset
  /\ Reset("finish_deadline")
  /\ found' = {} /\ interrupted' = FALSE /\ result' = "None"
  /\ UNCHANGED <<rule, atom, taken, caller, settingVars, epoch_left, heartbeat,
                 pattern_search_done, moduleVars, given, inherited, mode, needs_reset, searched>>

FinishDeadline ==
  /\ pc = "finish_deadline"
  /\ SetEpochDeadline
  /\ pc' = "enter" /\ rule' = 1
  /\ UNCHANGED <<atom, taken, caller, scan_state, settingVars, matchVars, ruleVars,
                 hb_left, pattern_search_done, result, moduleVars, given, inherited, blockVars>>

EvalStep ==
  /\ mode = "blocks"
  /\ EnterNamespace \/ EvalSearches \/ RuleMatch \/ RuleNoMatch \/ GlobalNoMatch
  /\ UNCHANGED <<moduleVars, given, inherited, blockVars>>

\* eval_conditions returns, and finish.
FinishReturns(trapped) ==
  /\ mode = "blocks"
  /\ EvalStops(trapped)
  /\ IF Reported # {}
     THEN pc' = "panicked" /\ UNCHANGED <<ruleVars, result, scan_state>>
     ELSE /\ MoveMatchingRules
          /\ result' = IF TimedOut(trapped) THEN "Timeout" ELSE "Ok"
          /\ scan_state' = IF TimedOut(trapped) THEN scan_state ELSE "Finished"
          /\ pc' = "ready"
  /\ UNCHANGED <<rule, atom, taken, caller, settingVars, matchVars, clockVars,
                 pattern_search_done, moduleVars, given, inherited, blockVars>>

BlockTick ==
  /\ mode = "blocks" /\ (TickEpoch \/ TickCounter)
  /\ UNCHANGED <<moduleVars, given, inherited, blockVars>>

BlockNext ==
  \/ WholeStep \/ FromScanner
  \/ \E t \in Timeouts : BlockSetTimeout(t)
  \/ \E b \in Blocks : ScanFirstBlock(b) \/ ScanNextBlock(b)
  \/ BlockDeadline \/ SearchBlock \/ BlockSearchStep \/ BlockReturns
  \/ Finish \/ FinishEmpty \/ FinishDeadline \/ EvalStep
  \/ \E trapped \in BOOLEAN : FinishReturns(trapped)
  \/ BlockTick

BlockSpec == BlockInit /\ [][BlockNext]_allVars

-----------------------------------------------------------------------------

BlockTypeOK ==
  /\ pc \in {"ready", "deadline", "modules", "enter", "eval", "search", "panicked",
             "block_deadline", "search_block", "begin_search", "block", "finish_deadline"}
  /\ scan_state \in {"Idle", "ScanningData", "ScanningBlock", "Timeout", "Finished"}
  /\ taken \in {"Idle", "ScanningData", "ScanningBlock"} /\ caller \in {"eval", "block"}
  /\ result \in {"None", "Scanned", "Ok", "Timeout", "ModuleError"}
  /\ mode \in {"whole", "blocks"} /\ needs_reset \in BOOLEAN
  /\ found \subseteq Patterns /\ {searched, interrupted} \subseteq BOOLEAN
  /\ num_matching_private_rules \in Nat /\ num_non_matching_private_rules \in Nat

\* What the rules say of the patterns found, modules aside.
OnBlocks[r \in Rules] ==
  LET c == Condition[r]
  IN  \/ c.kind = "true"
      \/ c.kind = "any" /\ c.arg \cap found # {}
      \/ c.kind = "none" /\ c.arg \cap found = {}

RawBlocks[r \in Rules] ==
  IF Condition[r].kind = "rule" THEN \A q \in Condition[r].arg : RawBlocks[q] ELSE OnBlocks[r]

BlocksExpected ==
  {r \in Rules : RawBlocks[r]
                   /\ \A g \in GlobalRules : NamespaceOf[g] = NamespaceOf[r] => RawBlocks[g]}

\* Conditions depend on patterns and rules alone, and no header rules out a
\* pattern.  The block scanner runs no module and sets no filesize: a condition
\* on them sees what a Scanner left in the context.
OnlyPatternsDecide ==
  /\ \A r \in Rules : Condition[r].kind \notin {"module", "filesize"}
  /\ \A b \in Blocks : b.header_out = {}

\* The results of finish are what the rules say of all the blocks that have
\* been scanned since the last finish, whether or not that one succeeded and
\* whatever a Scanner did with the context before, unless one of the calls of
\* scan reported a timeout.
BlockResultIsExact ==
  mode = "blocks" /\ result = "Ok" /\ ~interrupted => Reported = BlocksExpected

\* What is left of a scan is within what its blocks contain: nothing of an
\* earlier scan survives in the bits of patterns.
BlockPatternsAreCurrent ==
  /\ BlockTypeOK
  /\ mode = "blocks" /\ pc \notin {"ready", "block_deadline", "search_block"} =>
       pattern_bits \subseteq found /\ \A p \in Patterns : matches[p] > 0 => p \in found

\* The panic!() of search_for_patterns and the assertion of eval_conditions
\* are reached, if at all, by a finish on a scanner that never scanned a
\* block: no block, timeout or earlier finish leads there.
PanicsOnlyWithoutBlocks == mode = "blocks" /\ pc = "panicked" => ~searched
=============================================================================
