----------------------------- MODULE ScanContext -----------------------------
(***************************************************************************)
(* The state shared by every kind of scanner and the steps that change it: *)
(* lib/src/scanner/context.rs (struct ScanContext) together with the code  *)
(* that the compiler emits for the rules (lib/src/wasm/builder.rs), which  *)
(* decides in which order conditions are evaluated, what a failed global   *)
(* rule does to its namespace, and when the patterns are searched for.     *)
(*                                                                         *)
(* A context is reused from scan to scan.  Two clocks bound a scan: the    *)
(* epoch of the WASM engine, which interrupts conditions, and the counter  *)
(* HEARTBEAT_COUNTER, which interrupts the search for patterns.  A thread  *)
(* advances them one after the other, in two steps.  Only the distance to  *)
(* a deadline matters, so the clocks are the ticks left to it.             *)
(*                                                                         *)
(* This module has no Next: Scanner and BlockScanner add the public calls. *)
(***************************************************************************)
EXTENDS Integers, Sequences, FiniteSets, SequencesExt

CONSTANTS
  NumRules,
  NamespaceOf,       \* rule -> namespace; namespaces are numbered in order
  GlobalRules,
  PrivateRules,
  Condition,         \* rule -> [kind, arg], see Holds
  Patterns,
  FastScanPatterns,  \* patterns that fast scan stops searching once found
  FastScan,          \* Scanner::fast_scan
  MaxMatches,        \* max_matches_per_pattern
  Modules,           \* the modules that the rules import
  TeddyMinimum,      \* shortest data searched with Teddy, 0 if there is no Teddy
  Profiling,         \* feature "rules-profiling"
  Timeouts           \* the timeouts in use, in seconds; Year is no timeout

\* The deadline of a scan without timeout: further away than any clock goes.
Year == -1

\* The value of `filesize` that conditions see as undefined.
Undefined == -1

\* Rule identifiers, in the order of compilation.
Rules == 1..NumRules

Namespaces == {NamespaceOf[r] : r \in Rules}

ASSUME ScanContextAssumption ==
  /\ NumRules \in Nat \ {0}
  /\ NamespaceOf \in [Rules -> Nat]
  /\ \A q, r \in Rules : q < r => NamespaceOf[q] <= NamespaceOf[r]
  /\ GlobalRules \subseteq Rules /\ PrivateRules \subseteq Rules
  /\ FastScanPatterns \subseteq Patterns
  /\ FastScan \in BOOLEAN /\ Profiling \in BOOLEAN
  /\ MaxMatches \in Nat /\ TeddyMinimum \in Nat
  /\ Timeouts \subseteq Nat \cup {Year}

\* A rule may only name rules of its namespace that come before it.
ASSUME ConditionAssumption ==
  \A r \in Rules :
    /\ Condition[r].kind \in
         {"true", "false", "any", "none", "rule", "module", "filesize", "loop"}
    /\ Condition[r].kind = "rule" =>
         Condition[r].arg \subseteq {q \in Rules : q < r /\ NamespaceOf[q] = NamespaceOf[r]}
    /\ Condition[r].kind = "module" => Condition[r].arg \subseteq Modules

VARIABLES
  pc,            \* "ready" between two calls, or where the current call is
  scan_state,    \* ScanState
  input,         \* the data, or the block, being scanned; see Inputs
  rule,          \* the next rule whose condition WASM evaluates
  atom,          \* the next atom match of the pattern search
  taken,         \* scan_state.take() while the patterns are searched for
  caller,        \* where search_for_patterns returns to
  matching_rules_per_ns,  \* namespace -> vector of rules
  ns_order,      \* keys of that IndexMap, in insertion order
  matching_rules,         \* the final vector, as one run per namespace
  rule_bits,     \* MATCHING_RULES_BITMAP
  pattern_bits,  \* the bitmap of patterns that follows it
  num_matching_private_rules,
  num_non_matching_private_rules,
  occupied,      \* patterns with an entry in pattern_matches
  matches,       \* how many matches each of them has
  disabled_patterns,
  pattern_search_done,
  filesize,      \* the WASM global
  root_struct,   \* module -> what conditions see of it
  timeout,       \* scan_timeout
  hb_left,       \* ticks of HEARTBEAT_COUNTER left to `deadline`
  epoch_left,    \* ticks of the engine's epoch left to the store's deadline
  heartbeat,     \* the heartbeat thread: "off", "sleep", "counter"
  result         \* outcome of the last call

matchVars == <<occupied, matches, pattern_bits, disabled_patterns>>
ruleVars == <<matching_rules_per_ns, ns_order, matching_rules, rule_bits,
              num_matching_private_rules, num_non_matching_private_rules>>
clockVars == <<hb_left, epoch_left, heartbeat>>
controlVars == <<pc, rule, atom, taken, caller>>
settingVars == <<input, filesize, root_struct, timeout>>
ctxVars == <<controlVars, scan_state, settingVars, matchVars, ruleVars,
             clockVars, pattern_search_done, result>>

\* What a scan can tell of its data: the atom matches in the order in which
\* the search finds them, the patterns that match at their fixed offset, the
\* patterns that the bounds on filesize or the constraints on the header rule
\* out, the modules that find what they look for and those that fail.
Inputs ==
  [base : Nat, size : Nat, atoms : Seq(Patterns), anchored : SUBSET Patterns,
   size_out : SUBSET Patterns, header_out : SUBSET Patterns,
   holds : SUBSET Modules, fails : SUBSET Modules]

NoInput == [base |-> 0, size |-> 0, atoms |-> <<>>, anchored |-> {},
            size_out |-> {}, header_out |-> {}, holds |-> {}, fails |-> {}]

\* create_wasm_store_and_ctx.
InitContext ==
  /\ pc = "ready" /\ scan_state = "Idle" /\ result = "None" /\ input = NoInput
  /\ rule = 1 /\ atom = 1 /\ taken = "Idle" /\ caller = "eval"
  /\ matching_rules_per_ns = [n \in Namespaces |-> <<>>]
  /\ ns_order = <<>> /\ matching_rules = <<>>
  /\ rule_bits = {} /\ pattern_bits = {}
  /\ num_matching_private_rules = 0 /\ num_non_matching_private_rules = 0
  /\ occupied = {} /\ matches = [p \in Patterns |-> 0]
  /\ disabled_patterns = {} /\ pattern_search_done = FALSE
  /\ filesize = Undefined /\ root_struct = [m \in Modules |-> FALSE]
  /\ timeout = Year /\ hb_left = Year /\ epoch_left = Year
  /\ heartbeat = "off"

\* The rules in matching_rules_per_ns, and those in matching_rules.
Tracked == UNION {ToSet(matching_rules_per_ns[n]) : n \in Namespaces}
Reported == UNION {ToSet(matching_rules[i]) : i \in 1..Len(matching_rules)}

-----------------------------------------------------------------------------
(* reset                                                                   *)

\* Mutant of SomethingMatched: only looks at the rules.
SomeRuleMatched == Tracked \cup Reported # {}

\* Mutant of SomethingMatched: only looks at the patterns.
SomePatternMatched == occupied # {}

\* The condition under which reset clears matches and bitmaps: an entry of
\* pattern_matches, which may be empty because entries survive clear(), or a
\* matching rule, also one of an interrupted scan.
SomethingMatched == occupied # {} \/ Tracked \cup Reported # {}

\* Mutant of ResetDisabled: what was disabled stays disabled.
ResetKeepsDisabled == UNCHANGED disabled_patterns

\* tracker.disabled_patterns.clear()
ResetDisabled == disabled_patterns' = {}

\* matching_rules after the vectors of matching_rules_per_ns have been moved
\* there in the order of the keys.
Moved ==
  IF Tracked = {} THEN matching_rules
  ELSE matching_rules \o [i \in 1..Len(ns_order) |-> matching_rules_per_ns[ns_order[i]]]

\* Mutant of Reset: num_non_matching_private_rules goes on counting.
ResetKeepsNonMatching(next) ==
  /\ scan_state' = "Idle"
  /\ ResetDisabled
  /\ num_matching_private_rules' = 0
  /\ matching_rules_per_ns' = [n \in Namespaces |-> <<>>]
  /\ matching_rules' = <<>>
  /\ rule_bits' = {} /\ pattern_bits' = {}
  /\ matches' = [p \in Patterns |-> 0] /\ occupied' = {}
  /\ hb_left' = timeout
  /\ pc' = next
  /\ UNCHANGED <<ns_order, num_non_matching_private_rules>>

\* ScanContext::reset, up to the point where the deadline is computed from
\* the heartbeat counter.  Clearing pattern_matches frees all its entries or
\* none (see PatternMatches).  The keys of matching_rules_per_ns survive.
Reset(next) ==
  /\ scan_state' = "Idle"
  /\ ResetDisabled
  /\ num_matching_private_rules' = 0 /\ num_non_matching_private_rules' = 0
  /\ matching_rules_per_ns' = [n \in Namespaces |-> <<>>]
  /\ IF SomethingMatched
     THEN /\ matching_rules' = <<>>
          /\ rule_bits' = {} /\ pattern_bits' = {}
          /\ matches' = [p \in Patterns |-> 0]
          /\ occupied' \in {occupied, {}}
     ELSE /\ matching_rules' = Moved
          /\ UNCHANGED <<rule_bits, pattern_bits, matches, occupied>>
  /\ hb_left' = timeout
  /\ pc' = next
  /\ UNCHANGED ns_order

\* Mutant of SetEpochDeadline: the heartbeat thread is never started.
SetEpochDeadlineNoThread == epoch_left' = timeout /\ UNCHANGED heartbeat

\* The rest of reset: the deadline of the WASM store, relative to the epoch
\* of this moment, and the heartbeat thread, started once.
SetEpochDeadline ==
  /\ epoch_left' = timeout
  /\ heartbeat' = IF timeout # Year /\ heartbeat = "off" THEN "sleep" ELSE heartbeat

-----------------------------------------------------------------------------
(* The heartbeat thread                                                    *)

Tick(left) == IF left > 0 THEN left - 1 ELSE left

\* increment_epoch()
TickEpoch ==
  /\ heartbeat = "sleep"
  /\ epoch_left' = Tick(epoch_left)
  /\ heartbeat' = "counter"
  /\ UNCHANGED <<controlVars, scan_state, settingVars, matchVars, ruleVars,
                 hb_left, pattern_search_done, result>>

\* HEARTBEAT_COUNTER.fetch_update(..)
TickCounter ==
  /\ heartbeat = "counter"
  /\ hb_left' = Tick(hb_left)
  /\ heartbeat' = "sleep"
  /\ UNCHANGED <<controlVars, scan_state, settingVars, matchVars, ruleVars,
                 epoch_left, pattern_search_done, result>>

-----------------------------------------------------------------------------
(* The search for patterns                                                 *)

\* track_match, for each pattern of a set: the bit is set whatever happens to
\* the match; a pattern at its limit, or found in fast scan, is disabled.
TrackMatch(found, disabled) ==
  LET full == {p \in found \cap occupied : matches[p] >= MaxMatches}
  IN  /\ pattern_bits' = pattern_bits \cup found
      /\ occupied' = occupied \cup found
      /\ matches' = [p \in Patterns |->
                       IF p \in found \ full THEN matches[p] + 1 ELSE matches[p]]
      /\ disabled_patterns' = disabled \cup full
                                \cup IF FastScan THEN found \cap FastScanPatterns ELSE {}

\* search_for_patterns, up to its loop over the atoms: the scan state is
\* taken, patterns are disabled because of the size of the data and its
\* header, and anchored patterns are verified.
SearchBegins(from) ==
  /\ scan_state \in {"ScanningData", "ScanningBlock"}
  /\ LET disabled == disabled_patterns
                       \cup (IF scan_state = "ScanningData" THEN input.size_out ELSE {})
                       \cup (IF input.base = 0 THEN input.header_out ELSE {})
     IN  TrackMatch(input.anchored \ disabled, disabled)
  /\ taken' = scan_state /\ scan_state' = "Idle"
  /\ pc' = "search" /\ caller' = from /\ atom' = 1
  /\ UNCHANGED <<rule, settingVars, ruleVars, clockVars, pattern_search_done, result>>

\* search_for_patterns without data to scan: the panic!() of its first match.
SearchPanics ==
  /\ scan_state \notin {"ScanningData", "ScanningBlock"}
  /\ pc' = "panicked"
  /\ UNCHANGED <<rule, atom, taken, caller, scan_state, settingVars, matchVars,
                 ruleVars, clockVars, pattern_search_done, result>>

\* Where the search looks at the clock: before every atom match, or once
\* before the whole search when Teddy exists and the data is long enough.
ChecksClock ==
  IF TeddyMinimum > 0 /\ input.size >= TeddyMinimum
  THEN atom = 1 ELSE atom <= Len(input.atoms)

\* An atom match: nothing happens if its pattern is disabled.
SearchAtom ==
  /\ pc = "search"
  /\ atom <= Len(input.atoms)
  /\ ~(ChecksClock /\ hb_left = 0)
  /\ atom' = atom + 1
  /\ IF input.atoms[atom] \in disabled_patterns
     THEN UNCHANGED matchVars
     ELSE TrackMatch({input.atoms[atom]}, disabled_patterns)
  /\ UNCHANGED <<pc, rule, taken, caller, scan_state, settingVars, ruleVars,
                 clockVars, pattern_search_done, result>>

\* Mutant of SearchEnds: the search is not marked as done.
SearchEndsUnmarked ==
  /\ pc = "search"
  /\ atom > Len(input.atoms)
  /\ ~(ChecksClock /\ hb_left = 0)
  /\ scan_state' = taken
  /\ pc' = caller
  /\ UNCHANGED <<rule, atom, taken, caller, settingVars, matchVars, ruleVars,
                 clockVars, pattern_search_done, result>>

\* The loop ends: the scan state is put back.
SearchEnds ==
  /\ pc = "search"
  /\ atom > Len(input.atoms)
  /\ ~(ChecksClock /\ hb_left = 0)
  /\ scan_state' = taken
  /\ pattern_search_done' = TRUE
  /\ pc' = caller
  /\ UNCHANGED <<rule, atom, taken, caller, settingVars, matchVars, ruleVars,
                 clockVars, result>>

\* The deadline is over.  The search counts as done; if conditions are being
\* evaluated the deadline of the WASM store is brought forward to now, if a
\* block is being scanned blocks::Scanner::scan returns the error.
SearchTimesOut ==
  /\ pc = "search"
  /\ ChecksClock /\ hb_left = 0
  /\ scan_state' = "Timeout"
  /\ pattern_search_done' = TRUE
  /\ \/ caller = "eval" /\ pc' = "eval" /\ epoch_left' = 0 /\ UNCHANGED result
     \/ caller = "block" /\ pc' = "ready" /\ result' = "Timeout" /\ UNCHANGED epoch_left
  /\ UNCHANGED <<rule, atom, taken, caller, settingVars, matchVars, ruleVars,
                 hb_left, heartbeat>>

-----------------------------------------------------------------------------
(* The evaluation of the conditions                                        *)

UsesPatterns(r) == Condition[r].kind \in {"any", "none"}

\* The conditions told apart: constants, some or no pattern of a set matched,
\* another rule of the namespace matched, what a module found, `defined
\* filesize`.  A condition of kind "loop" runs until it is interrupted.
Holds(r) ==
  LET c == Condition[r]
  IN  CASE c.kind = "true"     -> TRUE
        [] c.kind = "false"    -> FALSE
        [] c.kind = "any"      -> c.arg \cap pattern_bits # {}
        [] c.kind = "none"     -> c.arg \cap pattern_bits = {}
        [] c.kind = "rule"     -> c.arg \subseteq rule_bits
        [] c.kind = "module"   -> \A m \in c.arg : root_struct[m]
        [] c.kind = "filesize" -> filesize # Undefined

\* The code of a rule that needs the patterns when they have not been
\* searched for: emit_lazy_call_to_search_for_patterns.
EvalSearches ==
  /\ pc = "eval" /\ rule \in Rules
  /\ UsesPatterns(rule) /\ ~pattern_search_done
  /\ SearchBegins("eval") \/ SearchPanics

Evaluable ==
  /\ pc = "eval" /\ rule \in Rules
  /\ Condition[rule].kind # "loop"
  /\ UsesPatterns(rule) => pattern_search_done

\* The rules of a namespace are in functions of their own, and functions look
\* at the engine's epoch when they are entered.
EnterNamespace ==
  /\ pc = "enter" /\ rule \in Rules
  /\ epoch_left # 0
  /\ pc' = "eval"
  /\ UNCHANGED <<rule, atom, taken, caller, scan_state, settingVars, matchVars,
                 ruleVars, clockVars, pattern_search_done, result>>

\* Evaluation continues with rule r.
ContinueWith(r) ==
  /\ rule' = r
  /\ pc' = IF r \in Rules /\ NamespaceOf[r] = NamespaceOf[rule] THEN "eval" ELSE "enter"

evalUnchanged == <<atom, taken, caller, scan_state, settingVars, matchVars,
                   clockVars, pattern_search_done, result>>

\* Mutant of RuleMatch: private rules are not counted.
RuleMatchForgetsPrivate ==
  /\ Evaluable /\ Holds(rule)
  /\ LET n == NamespaceOf[rule]
     IN  /\ matching_rules_per_ns' = [matching_rules_per_ns EXCEPT ![n] = Append(@, rule)]
         /\ ns_order' = IF n \in ToSet(ns_order) THEN ns_order ELSE Append(ns_order, n)
  /\ rule_bits' = rule_bits \cup {rule}
  /\ ContinueWith(rule + 1)
  /\ UNCHANGED <<matching_rules, num_matching_private_rules,
                 num_non_matching_private_rules, evalUnchanged>>

\* Mutant of RuleMatch: the last rule comes first.
RuleMatchPrepends ==
  /\ Evaluable /\ Holds(rule)
  /\ LET n == NamespaceOf[rule]
     IN  /\ matching_rules_per_ns' = [matching_rules_per_ns EXCEPT ![n] = <<rule>> \o @]
         /\ ns_order' = IF n \in ToSet(ns_order) THEN ns_order ELSE Append(ns_order, n)
  /\ num_matching_private_rules' =
       num_matching_private_rules + (IF rule \in PrivateRules THEN 1 ELSE 0)
  /\ rule_bits' = rule_bits \cup {rule}
  /\ ContinueWith(rule + 1)
  /\ UNCHANGED <<matching_rules, num_non_matching_private_rules, evalUnchanged>>

\* The condition is true: rule_match, ScanContext::track_rule_match.
RuleMatch ==
  /\ Evaluable /\ Holds(rule)
  /\ LET n == NamespaceOf[rule]
     IN  /\ matching_rules_per_ns' = [matching_rules_per_ns EXCEPT ![n] = Append(@, rule)]
         /\ ns_order' = IF n \in ToSet(ns_order) THEN ns_order ELSE Append(ns_order, n)
  /\ num_matching_private_rules' =
       num_matching_private_rules + (IF rule \in PrivateRules THEN 1 ELSE 0)
  /\ rule_bits' = rule_bits \cup {rule}
  /\ ContinueWith(rule + 1)
  /\ UNCHANGED <<matching_rules, num_non_matching_private_rules, evalUnchanged>>

\* The condition of a rule that is not global is false.  rule_no_match is
\* only called when rules are profiled.
RuleNoMatch ==
  /\ Evaluable /\ ~Holds(rule) /\ rule \notin GlobalRules
  /\ num_non_matching_private_rules' =
       num_non_matching_private_rules
         + (IF Profiling /\ rule \in PrivateRules THEN 1 ELSE 0)
  /\ ContinueWith(rule + 1)
  /\ UNCHANGED <<matching_rules_per_ns, ns_order, matching_rules, rule_bits,
                 num_matching_private_rules, evalUnchanged>>

\* The first rule after the namespace of r: rules are numbered by namespace.
AfterNamespace(r) == Cardinality({q \in Rules : NamespaceOf[q] <= NamespaceOf[r]}) + 1

\* Mutant of GlobalNoMatch: the bits of the rules that had matched stay set.
GlobalNoMatchKeepsBits ==
  /\ Evaluable /\ ~Holds(rule) /\ rule \in GlobalRules
  /\ LET n == NamespaceOf[rule]
         reverted == ToSet(matching_rules_per_ns[n]) \cap PrivateRules
     IN  /\ matching_rules_per_ns' = [matching_rules_per_ns EXCEPT ![n] = <<>>]
         /\ num_matching_private_rules' =
              num_matching_private_rules - Cardinality(reverted)
         /\ num_non_matching_private_rules' =
              num_non_matching_private_rules + Cardinality(reverted)
                + (IF rule \in PrivateRules THEN 1 ELSE 0)
  /\ ContinueWith(AfterNamespace(rule))
  /\ UNCHANGED <<ns_order, matching_rules, rule_bits, evalUnchanged>>

\* Mutant of GlobalNoMatch: the count of private rules is not reverted.
GlobalNoMatchKeepsCount ==
  /\ Evaluable /\ ~Holds(rule) /\ rule \in GlobalRules
  /\ LET n == NamespaceOf[rule]
     IN  /\ matching_rules_per_ns' = [matching_rules_per_ns EXCEPT ![n] = <<>>]
         /\ rule_bits' = rule_bits \ ToSet(matching_rules_per_ns[n])
  /\ ContinueWith(AfterNamespace(rule))
  /\ UNCHANGED <<ns_order, matching_rules, num_matching_private_rules,
                 num_non_matching_private_rules, evalUnchanged>>

\* The condition of a global rule is false: rule_no_match reverts the matches
\* of its namespace, and the rest of the namespace is not evaluated.
GlobalNoMatch ==
  /\ Evaluable /\ ~Holds(rule) /\ rule \in GlobalRules
  /\ LET n == NamespaceOf[rule]
         reverted == ToSet(matching_rules_per_ns[n])
     IN  /\ matching_rules_per_ns' = [matching_rules_per_ns EXCEPT ![n] = <<>>]
         /\ rule_bits' = rule_bits \ reverted
         /\ num_matching_private_rules' =
              num_matching_private_rules - Cardinality(reverted \cap PrivateRules)
         /\ num_non_matching_private_rules' =
              num_non_matching_private_rules + Cardinality(reverted \cap PrivateRules)
                + (IF rule \in PrivateRules THEN 1 ELSE 0)
  /\ ContinueWith(AfterNamespace(rule))
  /\ UNCHANGED <<ns_order, matching_rules, evalUnchanged>>

\* The error of eval_conditions: WASM was interrupted, or the search was.
TimedOut(trapped) == trapped \/ scan_state = "Timeout"

\* WASM returns, or is interrupted at its deadline by one of the checks that
\* the engine compiles into functions and loops.
EvalStops(trapped) ==
  /\ \/ trapped /\ pc \in {"enter", "eval"} /\ epoch_left = 0
     \/ ~trapped /\ pc = "enter" /\ rule \notin Rules

\* The end of eval_conditions: the matching rules are moved, namespace after
\* namespace in the order of the IndexMap, to matching_rules, which an
\* assertion requires to be empty.
MoveMatchingRules ==
  /\ matching_rules' = Moved
  /\ matching_rules_per_ns' = [n \in Namespaces |-> <<>>]
  /\ UNCHANGED <<ns_order, rule_bits, num_matching_private_rules,
                 num_non_matching_private_rules>>
=============================================================================
