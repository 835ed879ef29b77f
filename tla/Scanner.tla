------------------------------- MODULE Scanner -------------------------------
(***************************************************************************)
(* The scanner for data in one piece: lib/src/scanner/mod.rs, Scanner.     *)
(* Between two scans the caller may set a timeout and provide the output   *)
(* of modules; a scan runs the modules, then the conditions.               *)
(***************************************************************************)
EXTENDS ScanContext

CONSTANTS
  Imports,   \* the imported modules, in order
  NoMain,    \* modules without a main function
  Data       \* the data that may be scanned

ASSUME ScannerAssumption ==
  /\ Imports \in Seq(Modules) /\ ToSet(Imports) = Modules
  /\ NoMain \subseteq Modules
  /\ Data \subseteq Inputs

\* The compiler imports a module once; data in one piece starts at 0.
ASSUME WholeDataAssumption ==
  /\ \A i, j \in 1..Len(Imports) : Imports[i] = Imports[j] => i = j
  /\ \A d \in Data : d.base = 0

VARIABLES
  mod,             \* the next module to run
  user_outputs,    \* user_provided_module_outputs: "none", "yes" or "no"
  module_outputs,  \* modules that produced an output in this scan
  given,           \* history: outputs provided and not consumed by an earlier scan
  inherited        \* history: the order of namespaces when the scan began

moduleVars == <<mod, user_outputs, module_outputs>>
vars == <<ctxVars, moduleVars, given, inherited>>

NoOutputs == [m \in Modules |-> "none"]

Init ==
  /\ InitContext
  /\ mod = 1 /\ module_outputs = {}
  /\ user_outputs = NoOutputs /\ given = NoOutputs /\ inherited = <<>>

\* What a scan leaves of the outputs provided for it.  set_module_output says
\* that a scan consumes them (mod.rs:439-442), and any scan that comes to the
\* conditions does, but one that a module ended (660) has not come to the
\* modules after it: the next scan uses what was provided for them.
Left ==
  IF result = "ModuleError"
  THEN [m \in Modules |-> IF \E i \in 1..(mod - 1) : Imports[i] = m THEN "none" ELSE given[m]]
  ELSE NoOutputs

\* Any call with &mut self ends the life of the results of the last scan.
Provided == IF result = "None" THEN given ELSE Left

\* Scanner::set_timeout
SetTimeout(t) ==
  /\ pc = "ready"
  /\ timeout' = t /\ result' = "None" /\ given' = Provided
  /\ UNCHANGED <<controlVars, scan_state, input, filesize, root_struct, matchVars,
                 ruleVars, clockVars, pattern_search_done, moduleVars, inherited>>

\* Scanner::set_module_output, for a registered module.
SetModuleOutput(m, v) ==
  /\ pc = "ready"
  /\ user_outputs' = [user_outputs EXCEPT ![m] = v]
  /\ given' = [Provided EXCEPT ![m] = v] /\ result' = "None"
  /\ UNCHANGED <<controlVars, scan_state, settingVars, matchVars, ruleVars,
                 clockVars, pattern_search_done, mod, module_outputs, inherited>>

\* scan_impl: reset, which also clears the module outputs of the last scan...
Scan(d) ==
  /\ pc = "ready"
  /\ Reset("deadline")
  /\ input' = d /\ module_outputs' = {} /\ mod' = 1
  /\ result' = "None" /\ given' = Provided /\ inherited' = ns_order
  /\ UNCHANGED <<rule, atom, taken, caller, filesize, root_struct, timeout,
                 epoch_left, heartbeat, pattern_search_done, user_outputs>>

\* ... then the size and the state of the scan.
BeginModules ==
  /\ pc = "deadline"
  /\ SetEpochDeadline
  /\ filesize' = input.size
  /\ scan_state' = "ScanningData"
  /\ pc' = "modules"
  /\ UNCHANGED <<rule, atom, taken, caller, input, root_struct, timeout, matchVars,
                 ruleVars, hb_left, pattern_search_done, result, moduleVars, given, inherited>>

\* One module: the output that the user provided or else that of its main
\* function, if it has one, replaces what conditions see of the module.
RunModule ==
  /\ pc = "modules" /\ mod <= Len(Imports)
  /\ LET m == Imports[mod]
         mine == user_outputs[m] # "none"
     IN  /\ mine \/ m \in NoMain \/ m \notin input.fails
         /\ user_outputs' = [user_outputs EXCEPT ![m] = "none"]
         /\ module_outputs' = IF mine \/ m \notin NoMain
                              THEN module_outputs \cup {m} ELSE module_outputs
         /\ root_struct' = [root_struct EXCEPT ![m] =
                              IF mine THEN user_outputs[m] = "yes"
                              ELSE m \notin NoMain /\ m \in input.holds]
  /\ mod' = mod + 1
  /\ UNCHANGED <<controlVars, scan_state, input, filesize, timeout, matchVars,
                 ruleVars, clockVars, pattern_search_done, result, given, inherited>>

\* The main function of a module fails, and with it the scan.
ModuleFails ==
  /\ pc = "modules" /\ mod <= Len(Imports)
  /\ LET m == Imports[mod]
     IN  user_outputs[m] = "none" /\ m \notin NoMain /\ m \in input.fails
  /\ pc' = "ready" /\ result' = "ModuleError"
  /\ UNCHANGED <<rule, atom, taken, caller, scan_state, settingVars, matchVars,
                 ruleVars, clockVars, pattern_search_done, moduleVars, given, inherited>>

\* Mutant of BeginEval: pattern_search_done is still set from the last scan.
BeginEvalKeepsSearch ==
  /\ pc = "modules" /\ mod > Len(Imports)
  /\ user_outputs' = NoOutputs
  /\ rule' = 1 /\ pc' = "enter"
  /\ UNCHANGED <<atom, taken, caller, scan_state, settingVars, matchVars, ruleVars,
                 clockVars, pattern_search_done, result, mod, module_outputs, given, inherited>>

\* All modules ran: outputs of modules that are not imported are dropped.
BeginEval ==
  /\ pc = "modules" /\ mod > Len(Imports)
  /\ user_outputs' = NoOutputs
  /\ pattern_search_done' = FALSE
  /\ rule' = 1 /\ pc' = "enter"
  /\ UNCHANGED <<atom, taken, caller, scan_state, settingVars, matchVars, ruleVars,
                 clockVars, result, mod, module_outputs, given, inherited>>

\* eval_conditions returns and so does the scan.  Two panics are possible
\* here: the assertion that matching_rules is empty, and the unreachable!()
\* for a scan state that is not ScanningData.
ScanReturns(trapped) ==
  /\ EvalStops(trapped)
  /\ IF Reported # {} \/ (~TimedOut(trapped) /\ scan_state # "ScanningData")
     THEN pc' = "panicked" /\ UNCHANGED <<ruleVars, result, scan_state>>
     ELSE /\ MoveMatchingRules
          /\ result' = IF TimedOut(trapped) THEN "Timeout" ELSE "Ok"
          /\ scan_state' = IF TimedOut(trapped) THEN scan_state ELSE "Finished"
          /\ pc' = "ready"
  /\ UNCHANGED <<rule, atom, taken, caller, settingVars, matchVars, clockVars,
                 pattern_search_done, moduleVars, given, inherited>>

ScanStep ==
  \/ BeginModules \/ RunModule \/ ModuleFails \/ BeginEval
  \/ (EnterNamespace \/ EvalSearches \/ RuleMatch \/ RuleNoMatch \/ GlobalNoMatch
      \/ SearchAtom \/ SearchEnds \/ SearchTimesOut) /\ UNCHANGED <<moduleVars, given, inherited>>
  \/ \E trapped \in BOOLEAN : ScanReturns(trapped)

Next ==
  \/ \E t \in Timeouts : SetTimeout(t)
  \/ \E m \in Modules, v \in {"yes", "no"} : SetModuleOutput(m, v)
  \/ \E d \in Data : Scan(d)
  \/ ScanStep
  \/ (TickEpoch \/ TickCounter) /\ UNCHANGED <<moduleVars, given, inherited>>

Spec == Init /\ [][Next]_vars

\* The thread that runs the scan and the heartbeat thread are not starved; a
\* condition that loops reaches one of the checks of the engine's epoch.
Fairness ==
  /\ WF_vars(ScanStep)
  /\ WF_vars(TickEpoch /\ UNCHANGED <<moduleVars, given, inherited>>)
  /\ WF_vars(TickCounter /\ UNCHANGED <<moduleVars, given, inherited>>)

FairSpec == Spec /\ Fairness

-----------------------------------------------------------------------------

TypeOK ==
  /\ pc \in {"ready", "deadline", "modules", "enter", "eval", "search", "panicked"}
  /\ scan_state \in {"Idle", "ScanningData", "Timeout", "Finished"}
  /\ taken \in {"Idle", "ScanningData"} /\ caller = "eval"
  /\ input \in Inputs
  /\ rule \in 1..(NumRules + 1) /\ atom \in Nat /\ mod \in Nat
  /\ matching_rules_per_ns \in [Namespaces -> Seq(Rules)]
  /\ {ns_order, inherited} \subseteq Seq(Namespaces) /\ matching_rules \in Seq(Seq(Rules))
  /\ rule_bits \subseteq Rules /\ pattern_bits \subseteq Patterns
  /\ num_matching_private_rules \in Nat /\ num_non_matching_private_rules \in Nat
  /\ occupied \subseteq Patterns /\ matches \in [Patterns -> Nat]
  /\ disabled_patterns \subseteq Patterns /\ pattern_search_done \in BOOLEAN
  /\ filesize \in Int /\ root_struct \in [Modules -> BOOLEAN]
  /\ {timeout, hb_left, epoch_left} \subseteq Nat \cup {Year}
  /\ heartbeat \in {"off", "sleep", "counter"}
  /\ result \in {"None", "Ok", "Timeout", "ModuleError"}
  /\ module_outputs \subseteq Modules
  /\ {user_outputs, given} \subseteq [Modules -> {"none", "yes", "no"}]

\* The patterns in the data that its size and header do not rule out.
Present == (ToSet(input.atoms) \cup input.anchored) \ (input.size_out \cup input.header_out)

\* What conditions are to see of a module.
Answer(m) ==
  \/ given[m] = "yes"
  \/ given[m] = "none" /\ m \in input.holds \ NoMain

\* What the conditions that refer to no rule say of the data.
OnData[r \in Rules] ==
  LET c == Condition[r]
  IN  CASE c.kind = "true"     -> TRUE
        [] c.kind = "any"      -> c.arg \cap Present # {}
        [] c.kind = "none"     -> c.arg \cap Present = {}
        [] c.kind = "module"   -> \A m \in c.arg : Answer(m)
        [] c.kind = "filesize" -> TRUE
        [] OTHER               -> FALSE

\* What the rules say of the data, from the data and the outputs given for
\* this scan alone.  A rule refers to earlier rules only.
Raw[r \in Rules] ==
  IF Condition[r].kind = "rule" THEN \A q \in Condition[r].arg : Raw[q] ELSE OnData[r]

\* A false global rule makes every rule of its namespace false.
Expected ==
  {r \in Rules : Raw[r] /\ \A g \in GlobalRules : NamespaceOf[g] = NamespaceOf[r] => Raw[g]}

\* The private rules that num_non_matching_private_rules counts.  It is said
\* to be the number of private rules that did not match (context.rs:149), but
\* a rule that a failed global rule kept from being evaluated is not counted,
\* nor, unless rules are profiled, one whose own condition was false, global
\* rules aside.
Counted ==
  {r \in PrivateRules \ Expected :
     /\ \A g \in GlobalRules : NamespaceOf[g] = NamespaceOf[r] /\ g < r => Raw[g]
     /\ Raw[r] \/ r \in GlobalRules \/ Profiling}

\* Namespace m comes before namespace n in the results.  They are said to come
\* in the order of their declaration (context.rs:142-144), but the keys of the
\* map survive a scan: a namespace that some rule matched in before, in any
\* scan of this context, keeps its place, and the others follow in order.
Precedes(m, n) ==
  \/ n \notin ToSet(inherited) /\ (m \in ToSet(inherited) \/ m < n)
  \/ \E i, j \in 1..Len(inherited) : i < j /\ inherited[i] = m /\ inherited[j] = n

\* Results come namespace by namespace, each once, and in the order of the
\* rules within a namespace.
ResultsAreOrdered ==
  result = "Ok" =>
    /\ \A i \in 1..Len(matching_rules) : \A k, l \in 1..Len(matching_rules[i]) :
         k < l => /\ matching_rules[i][k] < matching_rules[i][l]
                  /\ NamespaceOf[matching_rules[i][k]] = NamespaceOf[matching_rules[i][l]]
    /\ \A i, j \in 1..Len(matching_rules) :
         i < j => \A q \in ToSet(matching_rules[i]), r \in ToSet(matching_rules[j]) :
                    /\ NamespaceOf[q] # NamespaceOf[r]
                    /\ Precedes(NamespaceOf[q], NamespaceOf[r])

\* The results of a scan that returned Ok are what its rules say of its data
\* and of the outputs provided for its modules, whatever earlier scans found,
\* failed at or were interrupted in, and however the clocks and the steps of
\* this one interleaved, except that three things do not follow the docs:
\* outputs that a failed scan did not come to are used (Left), the order of
\* the namespaces depends on earlier scans (Precedes), and the count of
\* private rules that did not match leaves some out (Counted).
ResultIsExact ==
  /\ result = "Ok" =>
       /\ Reported = Expected /\ rule_bits = Expected
       /\ num_non_matching_private_rules = Cardinality(Counted)
  /\ ResultsAreOrdered

\* The bitmap that conditions and NonMatchingRules read has exactly the bits
\* of the rules being tracked or reported, also while a failed global rule
\* takes matches back.
BitsAreTracked == rule_bits = Tracked \cup Reported

\* num_matching_private_rules is the number of private rules among them:
\* the length of MatchingRules is computed by subtracting it.
PrivateCountIsExact ==
  num_matching_private_rules = Cardinality((Tracked \cup Reported) \cap PrivateRules)

\* After reset nothing of the last scan is left in the bitmaps and lists,
\* although reset skips clearing them when it thinks nothing matched.
ResetIsComplete ==
  pc \in {"deadline", "modules"} =>
    /\ rule_bits = {} /\ pattern_bits = {}
    /\ matches = [p \in Patterns |-> 0] /\ disabled_patterns = {}
    /\ Tracked \cup Reported = {}

\* No call panics: patterns are only searched for in data, matching_rules is
\* empty when conditions have been evaluated, and a scan that succeeds is
\* still in the state ScanningData.
NeverPanics == pc # "panicked"

\* A scan with a timeout ends, even if a condition does not: the heartbeat
\* thread and the checks of the epoch interrupt it.
TimedScanEnds == (pc # "ready" /\ timeout # Year) ~> (pc = "ready")
=============================================================================
