------------------------------ MODULE Compiler ------------------------------
(***************************************************************************)
(* The compiler of src/lib/src/compiler/mod.rs: sources, included files,   *)
(* imports and rules are compiled one item after the other into tables     *)
(* that only grow, and a rule that fails half way is rolled back to a      *)
(* snapshot of the tables' lengths.  The user adds sources, defines global *)
(* variables and opens namespaces in any order, goes on after errors, and  *)
(* builds the rules at the end.                                            *)
(*                                                                         *)
(* A source is chosen item by item while it is compiled.  A rule is a      *)
(* record: its name, its tags and linters' verdict, its patterns (each the *)
(* pattern, whether the condition uses it and whether fast scan mode may   *)
(* stop at its first match), the bounds its condition imposes, and its     *)
(* condition: the variables of the loop it is in, the names it refers to,  *)
(* and whether it has some other error.  Ids start at 0 as in the code;    *)
(* the entry with id i is at position i + 1 of its table.                  *)
(***************************************************************************)
EXTENDS PatternCompiler, Functions

CONSTANTS Decls,            \* rules that a source may declare
          ModuleNames,      \* names that a source may import
          Modules,          \* the modules that exist
          IgnoredModules,   \* modules the user asked to ignore
          BannedModules,    \* modules the user banned
          Variables,        \* names for global variables
          Namespaces,       \* names for namespaces
          Files,            \* files that can be included
          None,             \* no name
          MaxItems,         \* bound on the number of items compiled
          MaxCalls          \* bound on the calls made by the user

\* A pattern has a piece, and only regular expressions and hex patterns are split.
AnyPattern == {p \in [text : BOOLEAN, mods : SUBSET Modifiers,
                      pieces : Seq(Regexps \cup {"lit", "alt", "mask"}),
                      anchored_at : SUBSET Nat, filesize_bounds : SUBSET Nat,
                      header_constraints : SUBSET Nat] :
                 Len(p.pieces) > 0 /\ (p.text => Len(p.pieces) = 1)}

ASSUME CompilerAssumption ==
  \A d \in Decls :
    /\ d.linter_errors \in Nat
    /\ Len(d.patterns) \in Nat /\ DOMAIN d.patterns = 1..Len(d.patterns)
    /\ \A k \in DOMAIN d.patterns : d.patterns[k].pattern \in AnyPattern
    /\ d.filesize_bounds \in SUBSET Nat /\ d.header_constraints \in SUBSET Nat
    /\ DOMAIN d.condition.refs = 1..Len(d.condition.refs) /\ Len(d.condition.refs) \in Nat

VARIABLES
  rules, patterns, next_pattern_id, fast_scan_patterns, sub_patterns,
  anchored_sub_patterns, atoms, re_code, filesize_bounds, header_constraints,
  symbol_table,             \* stack of tables: globals, namespace, scopes of the condition
  root_struct, imported_modules, namespace, rules_depending_on_unsupported_modules,
  errors, ignored_rules, wasm_mod,
  pc, frames, include_stack, cur, items, calls,
  results,                  \* history: what add_source returned, call by call
  declared,                 \* history: how often a namespace met a rule's name
  accepted                  \* history: what was compiled, in order

tables == <<rules, patterns, next_pattern_id, fast_scan_patterns, sub_patterns,
            anchored_sub_patterns, atoms, re_code, filesize_bounds, header_constraints>>
names == <<root_struct, imported_modules, namespace>>
control == <<frames, include_stack, items, calls, results, declared>>
vars == <<tables, symbol_table, names, rules_depending_on_unsupported_modules, errors,
          ignored_rules, wasm_mod, pc, control, cur, accepted>>

Empty == [x \in {} |-> x]
Put(f, k, v) == [x \in DOMAIN f \cup {k} |-> IF x = k THEN v ELSE f[x]]
Truncate(s, n) == SubSeq(s, 1, IF n < Len(s) THEN n ELSE Len(s))
NoSnapshot == [next_pattern_id |-> 0, rules_len |-> 0, atoms_len |-> 0, re_code_len |-> 0,
               sub_patterns_len |-> 0, symbol_table_len |-> 0, fast_scan_patterns_len |-> 0]

\* No rule being compiled.
NoRule == [rule |-> None, snapshot |-> NoSnapshot, cond |-> <<>>, k |-> 1, pattern_ids |-> <<>>,
           pending |-> {}, calls |-> <<>>, prev |-> <<0, 0>>, code |-> 0]

Init ==
  /\ rules = <<>> /\ patterns = Empty /\ next_pattern_id = 0 /\ fast_scan_patterns = <<>>
  /\ sub_patterns = <<>> /\ anchored_sub_patterns = <<>> /\ atoms = <<>> /\ re_code = <<>>
  /\ filesize_bounds = Empty /\ header_constraints = Empty
  /\ symbol_table = <<Empty, Empty>>
  /\ root_struct = Empty /\ imported_modules = <<>>
  /\ namespace = [id |-> 0, name |-> "default"]
  /\ rules_depending_on_unsupported_modules = Empty
  /\ errors = <<>> /\ ignored_rules = <<>> /\ wasm_mod = <<>>
  /\ pc = "idle" /\ frames = <<>> /\ include_stack = <<>> /\ cur = NoRule
  /\ items = 0 /\ calls = 0 /\ results = <<>> /\ declared = Empty
  /\ accepted = <<>>

-----------------------------------------------------------------------------
(* Names *)

Symbol(kind, id) == [kind |-> kind, id |-> id]

\* StackedSymbolTable::lookup: the topmost table that has the name.
Known(x) == \E i \in DOMAIN symbol_table : x \in DOMAIN symbol_table[i]
Lookup(x) ==
  symbol_table[CHOOSE i \in DOMAIN symbol_table :
                 /\ x \in DOMAIN symbol_table[i]
                 /\ \A j \in DOMAIN symbol_table : j > i => x \notin DOMAIN symbol_table[j]][x]

Error(of, kind) == [of |-> of, kind |-> kind]
Ignored(rule, reason, what, index) ==
  [rule |-> rule, reason |-> reason, what |-> what, index |-> index, namespace |-> namespace.id]

\* A call of add_source that returned: the position of the error it returned,
\* 0 for Ok, and how many errors the compiler had then.
Returned(error, errs) == [error |-> error, errors |-> Len(errs)]

-----------------------------------------------------------------------------
(* The user's calls *)

Call == pc = "idle" /\ calls < MaxCalls /\ calls' = calls + 1

\* A rule set is refused if it is not UTF-8, before anything is compiled.
AddSource ==
  /\ Call
  /\ \/ /\ errors' = Append(errors, Error(None, "InvalidUTF8"))
        /\ results' = Append(results, Returned(Len(errors) + 1, errors'))
        /\ UNCHANGED <<pc, frames>>
     \/ /\ pc' = "items"
        /\ frames' = << [existing_errors |-> Len(errors)] >>
        /\ UNCHANGED <<errors, results>>
  /\ UNCHANGED <<tables, symbol_table, names, rules_depending_on_unsupported_modules,
                 ignored_rules, wasm_mod, include_stack, items, declared, cur,
                 accepted>>

\* The field is replaced even when the name exists and the call fails.
DefineGlobal(v) ==
  /\ Call
  /\ root_struct' = Put(root_struct, v, "var")
  /\ symbol_table' = IF v \in DOMAIN root_struct THEN symbol_table
                     ELSE [symbol_table EXCEPT ![1] = Put(@, v, Symbol("var", 0))]
  /\ UNCHANGED <<tables, imported_modules, namespace, rules_depending_on_unsupported_modules,
                 errors, ignored_rules, wasm_mod, pc, frames, include_stack, items, results,
                 declared, cur, accepted>>

NewNamespaceKeepsIgnored(n) ==
  /\ Call
  /\ n # namespace.name
  /\ symbol_table' = Append(Front(symbol_table), Empty)
  /\ namespace' = [id |-> namespace.id + 1, name |-> n]
  /\ UNCHANGED <<tables, root_struct, imported_modules, rules_depending_on_unsupported_modules,
                 errors, ignored_rules, wasm_mod, pc, frames, include_stack, items, results,
                 declared, cur, accepted>>

NewNamespace(n) ==
  /\ Call
  /\ n # namespace.name
  /\ symbol_table' = Append(Front(symbol_table), Empty)
  /\ namespace' = [id |-> namespace.id + 1, name |-> n]
  /\ rules_depending_on_unsupported_modules' = Empty
  /\ UNCHANGED <<tables, root_struct, imported_modules, errors, ignored_rules, wasm_mod, pc,
                 frames, include_stack, items, results, declared, cur, accepted>>

\* The compiler is consumed.
Build ==
  /\ pc = "idle"
  /\ pc' = "built"
  /\ UNCHANGED <<tables, symbol_table, names, rules_depending_on_unsupported_modules, errors,
                 ignored_rules, wasm_mod, control, cur, accepted>>

-----------------------------------------------------------------------------
(* The items of a source *)

Item == pc = "items" /\ items < MaxItems /\ items' = items + 1

\* What add_source returns: the first error added since it was called, 0 if none.
LastError(existing, errs) == IF Len(errs) > existing THEN Len(errs) ELSE 0
FirstNewError(existing, errs) == IF Len(errs) > existing THEN existing + 1 ELSE 0

\* The end of a source: the parser's own errors come last, and an included
\* source returns to the one that includes it, which drops its result.
EndSource ==
  /\ pc = "items"
  /\ \E n \in 0..1 :
       LET errs == errors \o Repeat(n, Error(None, "SyntaxError"))
           existing == Last(frames).existing_errors
       IN /\ errors' = errs
          /\ results' = IF Len(frames) > 1 THEN results
                        ELSE Append(results, Returned(FirstNewError(existing, errs), errs))
  /\ frames' = Front(frames)
  /\ include_stack' = IF Len(frames) > 1 THEN Front(include_stack) ELSE include_stack
  /\ pc' = IF Len(frames) > 1 THEN "items" ELSE "idle"
  /\ UNCHANGED <<tables, symbol_table, names, rules_depending_on_unsupported_modules,
                 ignored_rules, wasm_mod, items, calls, declared, cur, accepted>>

NeverCircular(f) == FALSE
Circular(f) == f \in ToSet(include_stack)

\* read_included_file: the file is in none of the directories, or cannot be read.
IncludeFails(f) == errors' = Append(errors, Error(f, "IncludeError"))

\* An include fails if the file cannot be read or is being compiled already;
\* a file that is not UTF-8 fails as a source does.
IncludeItem(f) ==
  /\ Item
  /\ \/ /\ IncludeFails(f)
        /\ UNCHANGED <<frames, include_stack>>
     \/ /\ Circular(f)
        /\ errors' = Append(errors, Error(f, "CircularIncludes"))
        /\ UNCHANGED <<frames, include_stack>>
     \/ /\ ~Circular(f)
        /\ include_stack' = Append(include_stack, f)
        /\ frames' = Append(frames, [existing_errors |-> Len(errors)])
        /\ UNCHANGED errors
  /\ UNCHANGED <<tables, symbol_table, names, rules_depending_on_unsupported_modules,
                 ignored_rules, wasm_mod, pc, calls, results, declared, cur, accepted>>

\* A banned module is an error, after its symbol was added.
ImportItem(m) ==
  /\ Item
  /\ IF m \notin Modules
     THEN /\ errors' = IF m \in IgnoredModules THEN errors
                       ELSE Append(errors, Error(m, "UnknownModule"))
          /\ UNCHANGED <<root_struct, imported_modules, symbol_table>>
     ELSE /\ root_struct' = IF m \in DOMAIN root_struct THEN root_struct
                            ELSE Put(root_struct, m, "module")
          /\ imported_modules' = IF m \in DOMAIN root_struct THEN imported_modules
                                 ELSE Append(imported_modules, m)
          /\ symbol_table' = IF m \in DOMAIN symbol_table[2] THEN symbol_table
                             ELSE [symbol_table EXCEPT ![2] =
                                     Put(@, m, Symbol(root_struct'[m], 0))]
          /\ errors' = IF m \in BannedModules THEN Append(errors, Error(m, "BannedModule"))
                       ELSE errors
  /\ UNCHANGED <<tables, namespace, rules_depending_on_unsupported_modules, ignored_rules,
                 wasm_mod, pc, frames, include_stack, calls, results, declared, cur, accepted>>

-----------------------------------------------------------------------------
(* A rule: c_rule, and what c_items does with its error *)

RejectUnrecorded(d, kind, others) ==
  /\ errors' = errors \o Repeat(others, Error(d.ident, "OtherLinterError"))
                      \o <<Error(d.ident, kind)>>
  /\ UNCHANGED ignored_rules

\* The rule fails before anything of it was registered.  Of several linter
\* errors the first one is returned and the others are pushed before it.
Reject(d, kind, others) ==
  /\ ignored_rules' = Append(ignored_rules,
                             Ignored(d.ident, "CompileError", None, Len(errors) + others))
  /\ errors' = errors \o Repeat(others, Error(d.ident, "OtherLinterError"))
                      \o <<Error(d.ident, kind)>>

TakeSnapshot ==
  [next_pattern_id |-> next_pattern_id,
   rules_len |-> Len(rules),
   atoms_len |-> Len(atoms),
   re_code_len |-> Len(re_code),
   sub_patterns_len |-> Len(sub_patterns),
   symbol_table_len |-> Len(symbol_table),
   fast_scan_patterns_len |-> Len(fast_scan_patterns)]

RestoreListsButAtoms(s) ==
  /\ rules' = Truncate(rules, s.rules_len)
  /\ sub_patterns' = Truncate(sub_patterns, s.sub_patterns_len)
  /\ re_code' = Truncate(re_code, s.re_code_len)
  /\ fast_scan_patterns' = Truncate(fast_scan_patterns, s.fast_scan_patterns_len)
  /\ UNCHANGED atoms

RestoreListsButCode(s) ==
  /\ rules' = Truncate(rules, s.rules_len)
  /\ sub_patterns' = Truncate(sub_patterns, s.sub_patterns_len)
  /\ atoms' = Truncate(atoms, s.atoms_len)
  /\ fast_scan_patterns' = Truncate(fast_scan_patterns, s.fast_scan_patterns_len)
  /\ UNCHANGED re_code

RestoreLists(s) ==
  /\ rules' = Truncate(rules, s.rules_len)
  /\ sub_patterns' = Truncate(sub_patterns, s.sub_patterns_len)
  /\ re_code' = Truncate(re_code, s.re_code_len)
  /\ atoms' = Truncate(atoms, s.atoms_len)
  /\ fast_scan_patterns' = Truncate(fast_scan_patterns, s.fast_scan_patterns_len)

RestoreNoScopes(s) == UNCHANGED symbol_table
RestoreScopes(s) == symbol_table' = Truncate(symbol_table, s.symbol_table_len)

\* HashMap::retain with the pattern id below the snapshot's.
RestoreMaps(s) ==
  /\ patterns' = Restrict(patterns, {p \in DOMAIN patterns : patterns[p] < s.next_pattern_id})
  /\ filesize_bounds' = Restrict(filesize_bounds,
                                 {i \in DOMAIN filesize_bounds : i < s.next_pattern_id})
  /\ header_constraints' = Restrict(header_constraints,
                                    {i \in DOMAIN header_constraints : i < s.next_pattern_id})

\* The list of anchored sub-patterns is not in the snapshot.
RestoreSnapshot(s) ==
  /\ next_pattern_id' = s.next_pattern_id
  /\ RestoreLists(s)
  /\ RestoreScopes(s)
  /\ RestoreMaps(s)
  /\ UNCHANGED anchored_sub_patterns

\* restore_snapshot, the error returned by c_rule, and c_items recording it.
FailRule(kind) ==
  /\ RestoreSnapshot(cur.snapshot)
  /\ Reject(cur.rule, kind, 0)
  /\ cur' = NoRule
  /\ pc' = "items"
  /\ UNCHANGED <<names, rules_depending_on_unsupported_modules, wasm_mod, control, accepted>>

TimesDeclared(ident, n) ==
  IF <<ident, n>> \in DOMAIN declared THEN declared[<<ident, n>>] ELSE 0

RuleItem(d) ==
  /\ Item
  /\ declared' = Put(declared, <<d.ident, namespace.id>>, TimesDeclared(d.ident, namespace.id) + 1)
  /\ IF Known(d.ident) \/ d.duplicate_tags \/ d.linter_errors > 0
     THEN /\ CASE Known(d.ident) /\ Lookup(d.ident).kind = "rule" -> Reject(d, "DuplicateRule", 0)
               [] Known(d.ident) /\ Lookup(d.ident).kind # "rule" ->
                    Reject(d, "ConflictingRuleIdentifier", 0)
               [] ~Known(d.ident) /\ d.duplicate_tags -> Reject(d, "DuplicateTag", 0)
               [] OTHER -> Reject(d, "LinterError", d.linter_errors - 1)
          /\ UNCHANGED <<pc, cur>>
     ELSE /\ cur' = [NoRule EXCEPT !.rule = d, !.snapshot = TakeSnapshot]
          /\ pc' = "patterns"
          /\ UNCHANGED <<errors, ignored_rules>>
  /\ UNCHANGED <<tables, symbol_table, names, rules_depending_on_unsupported_modules, wasm_mod,
                 frames, include_stack, calls, results, accepted>>

PatternsFromAst ==
  /\ pc = "patterns"
  /\ IF cur.rule.bad_pattern
     THEN FailRule("BadPattern")
     ELSE /\ pc' = "condition"
          /\ UNCHANGED <<tables, symbol_table, names, rules_depending_on_unsupported_modules,
                         errors, ignored_rules, wasm_mod, control, cur, accepted>>

\* rule_condition_from_ast: the first name that is not known is the error.  A
\* loop's scope is popped at its end, and stays if the loop's body has an error.
ConditionFromAst ==
  /\ pc = "condition"
  /\ LET cond == cur.rule.condition
         scope == [x \in cond.loop |-> Symbol("var", 0)]
         unknown == {i \in DOMAIN cond.refs : ~Known(cond.refs[i]) /\ cond.refs[i] \notin cond.loop}
         first == CHOOSE i \in unknown : \A j \in unknown : i <= j
         outcome == IF unknown # {} THEN <<"UnknownIdentifier", cond.refs[first]>>
                    ELSE IF cond.bad THEN <<"BadCondition">> ELSE <<>>
     IN /\ cur' = [cur EXCEPT !.cond = outcome]
        /\ symbol_table' = IF outcome # <<>> /\ cond.loop # {} THEN Append(symbol_table, scope)
                           ELSE symbol_table
  /\ pc' = "slow"
  /\ UNCHANGED <<tables, names, rules_depending_on_unsupported_modules, errors, ignored_rules,
                 wasm_mod, control, accepted>>

\* With error_on_slow_pattern a pattern made of a repeated byte is an error,
\* looked for even if the condition already has one.
SlowPatterns ==
  /\ pc = "slow"
  /\ IF cur.rule.slow_pattern
     THEN FailRule("SlowPattern")
     ELSE /\ pc' = "result"
          /\ UNCHANGED <<tables, symbol_table, names, rules_depending_on_unsupported_modules,
                         errors, ignored_rules, wasm_mod, control, cur, accepted>>

\* A rule that uses an ignored module, or a rule that was ignored because of
\* one, is dropped without an error.
IgnoreRule(reason, what, module) ==
  /\ RestoreSnapshot(cur.snapshot)
  /\ rules_depending_on_unsupported_modules' =
       Put(rules_depending_on_unsupported_modules, cur.rule.ident, module)
  /\ ignored_rules' = Append(ignored_rules, Ignored(cur.rule.ident, reason, what, 0))
  /\ cur' = NoRule
  /\ pc' = "items"
  /\ UNCHANGED <<names, errors, wasm_mod, control, accepted>>

ConditionResult ==
  /\ pc = "result"
  /\ CASE cur.cond = <<>> ->
            /\ pc' = "assign"
            /\ UNCHANGED <<tables, symbol_table, names, rules_depending_on_unsupported_modules,
                           errors, ignored_rules, wasm_mod, control, cur, accepted>>
       [] Len(cur.cond) = 2 /\ cur.cond[2] \in IgnoredModules ->
            IgnoreRule("IgnoredModule", cur.cond[2], cur.cond[2])
       [] Len(cur.cond) = 2 /\ cur.cond[2] \notin IgnoredModules
          /\ cur.cond[2] \in DOMAIN rules_depending_on_unsupported_modules ->
            IgnoreRule("IgnoredRule", cur.cond[2],
                       rules_depending_on_unsupported_modules[cur.cond[2]])
       [] OTHER -> FailRule(cur.cond[1])

\* The pattern as it is registered: with the bounds of the condition.
Bounded(d, p) ==
  [p EXCEPT !.filesize_bounds = d.filesize_bounds, !.header_constraints = d.header_constraints]

ClearNewBit(bits, id, allowed) ==
  IF allowed \/ id < cur.snapshot.next_pattern_id THEN bits ELSE [bits EXCEPT ![id + 1] = FALSE]
ClearBit(bits, id, allowed) == IF allowed THEN bits ELSE [bits EXCEPT ![id + 1] = FALSE]

\* One turn of the loop that gives the rule's patterns their ids: a pattern
\* registered before, by this rule or by another one, keeps its id.
AssignPatternId ==
  /\ pc = "assign"
  /\ cur.k <= Len(cur.rule.patterns)
  /\ LET use == cur.rule.patterns[cur.k]
         p == Bounded(cur.rule, use.pattern)
         new == p \notin DOMAIN patterns
         id == IF new THEN next_pattern_id ELSE patterns[p]
         bits == IF new THEN Append(fast_scan_patterns, TRUE) ELSE fast_scan_patterns
     IN IF ~use.in_use
        THEN FailRule("UnusedPattern")
        ELSE /\ patterns' = IF new THEN Put(patterns, p, id) ELSE patterns
             /\ next_pattern_id' = IF new THEN next_pattern_id + 1 ELSE next_pattern_id
             /\ fast_scan_patterns' = ClearBit(bits, id, use.fast_scan_allowed)
             /\ cur' = [cur EXCEPT !.k = @ + 1,
                                   !.pattern_ids = Append(@, id),
                                   !.pending = IF new THEN @ \cup {id} ELSE @]
             /\ UNCHANGED <<rules, sub_patterns, anchored_sub_patterns, atoms, re_code,
                            filesize_bounds, header_constraints, symbol_table, names,
                            rules_depending_on_unsupported_modules, errors, ignored_rules,
                            wasm_mod, pc, control, accepted>>

PushRule ==
  /\ pc = "assign"
  /\ cur.k > Len(cur.rule.patterns)
  /\ rules' = Append(rules, [ident |-> cur.rule.ident, namespace |-> namespace.id,
                             patterns |-> cur.pattern_ids])
  /\ cur' = [cur EXCEPT !.k = 0]
  /\ pc' = "next"
  /\ UNCHANGED <<patterns, next_pattern_id, fast_scan_patterns, sub_patterns,
                 anchored_sub_patterns, atoms, re_code, filesize_bounds, header_constraints,
                 symbol_table, names, rules_depending_on_unsupported_modules, errors,
                 ignored_rules, wasm_mod, control, accepted>>

\* The loop that compiles the patterns goes to the next one; a pattern that is
\* not pending, or not any more, has nothing to compile.
NextPattern ==
  /\ pc = "next"
  /\ cur.k < Len(cur.rule.patterns)
  /\ LET k == cur.k + 1
     IN cur' = [cur EXCEPT
                  !.k = k, !.prev = <<0, 0>>, !.code = 0,
                  !.calls = IF cur.pattern_ids[k] \in cur.pending
                            THEN Calls(cur.rule.patterns[k].pattern) ELSE <<>>]
  /\ pc' = IF cur.pattern_ids[cur.k + 1] \in cur.pending THEN "compile" ELSE "next"
  /\ UNCHANGED <<tables, symbol_table, names, rules_depending_on_unsupported_modules, errors,
                 ignored_rules, wasm_mod, control, accepted>>

\* A call of c_regexp: the code is appended before the regexp can be refused.
CRegexp ==
  /\ pc = "compile" /\ cur.calls # <<>> /\ Head(cur.calls).call = "c_regexp"
  /\ LET piece == Head(cur.calls).piece
     IN /\ re_code' = re_code \o CodeOf(piece)
        /\ cur' = [cur EXCEPT !.calls = Tail(@), !.code = Len(re_code')]
        /\ pc' = IF piece \in BadRegexps THEN "refused" ELSE pc
  /\ UNCHANGED <<rules, patterns, next_pattern_id, fast_scan_patterns, sub_patterns,
                 anchored_sub_patterns, atoms, filesize_bounds, header_constraints,
                 symbol_table, names, rules_depending_on_unsupported_modules, errors,
                 ignored_rules, wasm_mod, control, accepted>>

RegexpRefused == pc = "refused" /\ FailRule("InvalidRegexp")

AnyLiteral(c) == c.kind = "Literal"
AnchoredLiteral(c) == c.kind = "Literal" /\ c.anchored_at # {}

\* A call of add_sub_pattern.  The tail of a chain is chained to the
\* sub-pattern of the same width that was added last.
AddSubPattern ==
  /\ pc = "compile" /\ cur.calls # <<>> /\ Head(cur.calls).call = "add_sub_pattern"
  /\ LET call == Head(cur.calls)
         id == Len(sub_patterns)
         width == IF call.wide THEN 2 ELSE 1
         tail == call.kind \in {"LiteralChainTail", "RegexpChainTail"}
         anchored == AnchoredLiteral(call)
         regexp == call.kind \in {"Regexp", "RegexpChainHead", "RegexpChainTail"}
     IN /\ anchored_sub_patterns' = IF anchored THEN Append(anchored_sub_patterns, id)
                                    ELSE anchored_sub_patterns
        /\ atoms' = IF anchored THEN atoms
                    ELSE Append(atoms, [sub_pattern |-> id, code |-> IF regexp THEN cur.code ELSE 0])
        /\ sub_patterns' = Append(sub_patterns,
                                  [pattern |-> cur.pattern_ids[cur.k], kind |-> call.kind,
                                   wide |-> call.wide, anchored_at |-> call.anchored_at,
                                   left |-> call.left, right |-> call.right, last |-> call.last,
                                   chained_to |-> IF tail THEN {cur.prev[width]} ELSE {}])
        /\ cur' = [cur EXCEPT !.calls = Tail(@), !.prev[width] = id]
  /\ UNCHANGED <<rules, patterns, next_pattern_id, fast_scan_patterns, re_code, filesize_bounds,
                 header_constraints, symbol_table, names, rules_depending_on_unsupported_modules,
                 errors, ignored_rules, wasm_mod, pc, control, accepted>>

AllPending(id) == cur.pending
StillPending(id) == cur.pending \ {id}

\* The pattern is compiled: its bounds are registered, and the code panics if
\* they were already there.
FinishPattern ==
  /\ pc = "compile" /\ cur.calls = <<>>
  /\ LET id == cur.pattern_ids[cur.k]
         d == cur.rule
     IN /\ pc' = IF \/ d.filesize_bounds # {} /\ id \in DOMAIN filesize_bounds
                    \/ d.header_constraints # {} /\ id \in DOMAIN header_constraints
                 THEN "panic" ELSE "next"
        /\ filesize_bounds' = IF d.filesize_bounds # {}
                              THEN Put(filesize_bounds, id, d.filesize_bounds)
                              ELSE filesize_bounds
        /\ header_constraints' = IF d.header_constraints # {}
                                 THEN Put(header_constraints, id, d.header_constraints)
                                 ELSE header_constraints
        /\ cur' = [cur EXCEPT !.pending = StillPending(id)]
  /\ UNCHANGED <<rules, patterns, next_pattern_id, fast_scan_patterns, sub_patterns,
                 anchored_sub_patterns, atoms, re_code, symbol_table, names,
                 rules_depending_on_unsupported_modules, errors, ignored_rules, wasm_mod,
                 control, accepted>>

NextRuleId == Len(rules)
RuleId == Len(rules) - 1

\* Nothing can fail any more: the symbol is inserted, which must not be there,
\* and the code of the condition is emitted.
CommitRule ==
  /\ pc = "next"
  /\ cur.k = Len(cur.rule.patterns)
  /\ LET id == RuleId
     IN /\ symbol_table' = [symbol_table EXCEPT ![2] = Put(@, cur.rule.ident, Symbol("rule", id))]
        /\ wasm_mod' = Append(wasm_mod, [namespace |-> namespace.id, rule |-> id])
  /\ pc' = IF cur.rule.ident \in DOMAIN symbol_table[2] THEN "panic" ELSE "items"
  /\ cur' = NoRule
  /\ accepted' = Append(accepted, [rule |-> cur.rule, namespace |-> namespace.id])
  /\ UNCHANGED <<tables, names, rules_depending_on_unsupported_modules, errors, ignored_rules,
                 control>>

Next ==
  \/ AddSource \/ Build \/ EndSource
  \/ \E v \in Variables : DefineGlobal(v)
  \/ \E n \in Namespaces : NewNamespace(n)
  \/ \E f \in Files : IncludeItem(f)
  \/ \E m \in ModuleNames : ImportItem(m)
  \/ \E d \in Decls : RuleItem(d)
  \/ PatternsFromAst \/ ConditionFromAst \/ SlowPatterns \/ ConditionResult
  \/ AssignPatternId \/ PushRule \/ NextPattern
  \/ CRegexp \/ RegexpRefused \/ AddSubPattern \/ FinishPattern \/ CommitRule

Spec == Init /\ [][Next]_vars

-----------------------------------------------------------------------------
(* Properties *)

AtRest == pc \in {"items", "idle", "built"}

SubPatternIds == 0..(Len(sub_patterns) - 1)

TypeOK ==
  /\ next_pattern_id \in Nat
  /\ DOMAIN patterns \subseteq AnyPattern
  /\ \A p \in DOMAIN patterns : patterns[p] \in 0..(next_pattern_id - 1)
  /\ Len(fast_scan_patterns) = next_pattern_id
  /\ \A i \in DOMAIN sub_patterns : sub_patterns[i].pattern \in 0..(next_pattern_id - 1)
  /\ \A i \in DOMAIN atoms : /\ atoms[i].sub_pattern \in SubPatternIds
                             /\ atoms[i].code \in 0..Len(re_code)
  /\ DOMAIN filesize_bounds \cup DOMAIN header_constraints \subseteq 0..(next_pattern_id - 1)
  /\ Len(symbol_table) >= 2
  /\ pc = "idle" <=> frames = <<>> /\ pc # "built"

\* What the accepted rules, and they alone, should have left in the tables:
\* their distinct patterns in the order of their first use.
UsesOf(a) == [k \in DOMAIN a.rule.patterns |-> Bounded(a.rule, a.rule.patterns[k].pattern)]
AllUses == FlattenSeq([i \in DOMAIN accepted |-> UsesOf(accepted[i])])
Firsts(s) == FlattenSeq([i \in DOMAIN s |-> When(\A j \in 1..(i - 1) : s[j] # s[i], <<s[i]>>)])
Distinct == Firsts(AllUses)

Select(s, kind) == FlattenSeq([i \in DOMAIN s |-> When(s[i].call = kind, <<s[i]>>)])
CallsOf(p, kind) == Select(Calls(p), kind)

\* A rule that fails leaves no trace: whenever no rule is being compiled, the
\* tables are the ones that compiling only the accepted rules gives.  Rules,
\* pattern ids, sub-patterns, regexp code and bounds are in the order of the
\* accepted rules, without gaps, and every atom leads to the code of a regexp
\* of its own sub-pattern's pattern.
TablesAreExact ==
  AtRest =>
    LET ps == Distinct
        IdOf(p) == CHOOSE i \in DOMAIN ps : ps[i] = p
    IN /\ rules = [i \in DOMAIN accepted |->
                     [ident |-> accepted[i].rule.ident, namespace |-> accepted[i].namespace,
                      patterns |-> [k \in DOMAIN UsesOf(accepted[i]) |->
                                      IdOf(UsesOf(accepted[i])[k]) - 1]]]
       /\ next_pattern_id = Len(ps)
       /\ patterns = [p \in ToSet(ps) |-> IdOf(p) - 1]
       /\ [i \in DOMAIN sub_patterns |-> <<sub_patterns[i].pattern, sub_patterns[i].kind,
                                           sub_patterns[i].wide>>]
          = FlattenSeq([i \in DOMAIN ps |->
               LET made == CallsOf(ps[i], "add_sub_pattern")
               IN  [j \in DOMAIN made |-> <<i - 1, made[j].kind, made[j].wide>>]])
       /\ re_code = FlattenSeq([i \in DOMAIN ps |->
               LET made == CallsOf(ps[i], "c_regexp")
               IN  FlattenSeq([j \in DOMAIN made |-> CodeOf(made[j].piece)])])
       /\ \A i \in DOMAIN atoms : atoms[i].code # 0 =>
            \E j \in DOMAIN ps[sub_patterns[atoms[i].sub_pattern + 1].pattern + 1].pieces :
              re_code[atoms[i].code][2] = ps[sub_patterns[atoms[i].sub_pattern + 1].pattern + 1].pieces[j]
       /\ filesize_bounds = [i \in {n \in 0..(Len(ps) - 1) : ps[n + 1].filesize_bounds # {}} |->
                               ps[i + 1].filesize_bounds]
       /\ header_constraints = [i \in {n \in 0..(Len(ps) - 1) : ps[n + 1].header_constraints # {}} |->
                                  ps[i + 1].header_constraints]

\* Every sub-pattern can be found by the scanner in one way: an anchored one is
\* in the list that verify_anchored_patterns walks and has no atom, any other
\* has an atom, or the scanner would never look for it.
SubPatternsAreReachable ==
  \A i \in SubPatternIds :
    IF sub_patterns[i + 1].anchored_at # {}
    THEN /\ i \in ToSet(anchored_sub_patterns)
         /\ \A a \in DOMAIN atoms : atoms[a].sub_pattern # i
    ELSE \E a \in DOMAIN atoms : atoms[a].sub_pattern = i

\* The sub-patterns of a pattern split at large gaps are, for each of its
\* widths, one chain: as long as the pattern has pieces, each link after the
\* one before it, the left end of the word at its head, and the right end and
\* the end of the chain only at its last link.
ChainsAreWhole ==
  AtRest =>
    \A p \in DOMAIN patterns : Len(p.pieces) > 1 =>
      \A wide \in {w \in BOOLEAN : IF w THEN IsWide(p) ELSE IsRaw(p)} :
        LET links == {i \in SubPatternIds : /\ sub_patterns[i + 1].pattern = patterns[p]
                                            /\ sub_patterns[i + 1].wide = wide}
            Link(i) == sub_patterns[i + 1]
            first == CHOOSE i \in links : \A j \in links : i <= j
            end == CHOOSE i \in links : \A j \in links : j <= i
        IN /\ Cardinality(links) = Len(p.pieces)
           /\ \A i \in links :
                /\ Link(i).chained_to =
                     IF i = first THEN {}
                     ELSE {CHOOSE j \in links : j < i /\ \A k \in links : k < i => k <= j}
                /\ Link(i).last <=> i = end
                /\ Link(i).left <=> (i = first /\ "fullword" \in p.mods)
                /\ Link(i).right <=> (i = end /\ "fullword" \in p.mods)

\* Every name in the condition of an accepted rule is a variable of its own
\* loop, a global name, or a module or an earlier rule of the same namespace:
\* scopes left by conditions that failed are never visible to later rules.
ReferencesResolve ==
  \A i \in DOMAIN accepted : LET cond == accepted[i].rule.condition IN
    \A r \in ToSet(cond.refs) \ cond.loop :
      \/ r \in DOMAIN root_struct
      \/ \E j \in 1..(i - 1) : accepted[j].rule.ident = r
                               /\ accepted[j].namespace = accepted[i].namespace

\* Every rule that is missing has a reason that can be told to the user: a
\* compile error that is really its own, an ignored module, or a rule ignored
\* before it in the same namespace, which goes back to an ignored module.
IgnoredRulesHaveReasons ==
  \A i \in DOMAIN ignored_rules : LET g == ignored_rules[i] IN
    CASE g.reason = "CompileError" ->
           /\ g.index < Len(errors)
           /\ errors[g.index + 1].of = g.rule
           /\ errors[g.index + 1].kind # "OtherLinterError"
      [] g.reason = "IgnoredModule" -> g.what \in IgnoredModules
      [] g.reason = "IgnoredRule" ->
           \E j \in 1..(i - 1) : /\ ignored_rules[j].rule = g.what
                                 /\ ignored_rules[j].namespace = g.namespace
                                 /\ ignored_rules[j].reason # "CompileError"

\* A pattern may be cut short in fast scan mode only if no accepted rule needs
\* all of its matches, whichever rule registered it.
FastScanIsSafe ==
  AtRest =>
    \A i \in DOMAIN accepted : \A k \in DOMAIN accepted[i].rule.patterns :
      fast_scan_patterns[rules[i].patterns[k] + 1] => accepted[i].rule.patterns[k].fast_scan_allowed

\* The panics of c_rule (bounds registered twice, a rule's symbol that exists
\* already) are never reached.
NeverPanics == pc # "panic"

\* Errors are not lost, call by call: add_source returns Ok if and only if no
\* error was recorded since the call before it returned, in the source or in a
\* file it includes, and otherwise the first of them; no error is recorded
\* outside a call.
Told(rs, n) ==
  LET Before(i) == IF i = 1 THEN 0 ELSE rs[i - 1].errors
  IN /\ \A i \in DOMAIN rs :
          /\ Before(i) <= rs[i].errors
          /\ rs[i].error = IF Before(i) < rs[i].errors THEN Before(i) + 1 ELSE 0
     /\ n = Before(Len(rs) + 1)
ResultsTellErrors == pc = "idle" => Told(results, Len(errors))

Idents == {d.ident : d \in Decls}

\* No rule gets lost: as often as a name was declared in a namespace, the rule
\* was accepted or is in the list of ignored rules.
RulesAreAccountedFor ==
  AtRest =>
    \A ident \in Idents, n \in 0..namespace.id :
      TimesDeclared(ident, n) =
        Cardinality({i \in DOMAIN accepted : accepted[i].rule.ident = ident
                                             /\ accepted[i].namespace = n})
        + Cardinality({i \in DOMAIN ignored_rules : ignored_rules[i].rule = ident
                                                    /\ ignored_rules[i].namespace = n})

\* Included files nest without repeating: the stack has no file twice, so
\* includes end.
IncludesNest ==
  /\ IsInjective(include_stack)
  /\ Len(include_stack) = IF frames = <<>> THEN 0 ELSE Len(frames) - 1

\* What the symbols and the emitted code say of the rules agrees with the
\* table of rules: one piece of code per rule, in order.
CodeFollowsRules ==
  AtRest =>
    /\ wasm_mod = [i \in DOMAIN rules |-> [namespace |-> rules[i].namespace, rule |-> i - 1]]
    /\ \A x \in DOMAIN symbol_table[2] : symbol_table[2][x].kind = "rule" =>
         /\ rules[symbol_table[2][x].id + 1].ident = x
         /\ rules[symbol_table[2][x].id + 1].namespace = namespace.id

\* The tables agree with each other and no panic is reached, in every state
\* on the way too: see the parts.
CompilerIsConsistent ==
  /\ TypeOK
  /\ SubPatternsAreReachable
  /\ ChainsAreWhole
  /\ CodeFollowsRules
  /\ IncludesNest
  /\ NeverPanics

\* Nothing fails silently: each call returns the first error recorded in it,
\* and Ok only if there was none; every rule met is in the build or in the list
\* of ignored rules, with a reason that is its own.
FailuresAreTold == ResultsTellErrors /\ RulesAreAccountedFor /\ IgnoredRulesHaveReasons

\* The list of anchored sub-patterns has only anchored sub-patterns: the
\* scanner takes its entries as such.
AnchoredAreAnchored ==
  AtRest => \A i \in DOMAIN anchored_sub_patterns :
              /\ anchored_sub_patterns[i] \in SubPatternIds
              /\ sub_patterns[anchored_sub_patterns[i] + 1].anchored_at # {}

=============================================================================
