-------------------------- MODULE Compiler_proofs --------------------------
(***************************************************************************)
(* Proofs about Compiler, for any rules, patterns, modules and files and   *)
(* any sequence of calls, however rules fail.                              *)
(*                                                                         *)
(* IInv has one part per table or stack: what the tables hold, what the    *)
(* part of them that the snapshot of the current rule keeps holds by       *)
(* itself, and how far the current rule has come.  A rule that fails ends  *)
(* in a Rollback, whatever step it fails in, and each part of IInv is      *)
(* shown for it once.                                                      *)
(*                                                                         *)
(* TInv, on top of IInv, says what the tables hold: there is a list ps of  *)
(* the registered patterns of which the first c are compiled, their        *)
(* sub-patterns and their code are at the places at and ct, and m calls    *)
(* are made for the next one.  TablesAreExact and ChainsAreWhole are what  *)
(* it comes to when no rule is being compiled.                             *)
(***************************************************************************)
EXTENDS Compiler, SequenceTheorems, FiniteSetTheorems, WellFoundedInduction, TLAPS

-----------------------------------------------------------------------------
(* Sequences whose elements have no common type                            *)

IsSeq(s) == \E S : s \in Seq(S)

LEMMA SeqIs ==
  ASSUME NEW s, IsSeq(s)
  PROVE  Len(s) \in Nat /\ DOMAIN s = 1..Len(s) /\ (s = <<>> <=> Len(s) = 0)
<1>1. PICK S : s \in Seq(S)
  BY DEF IsSeq
<1> QED
  BY <1>1, EmptySeq

LEMMA EmptyIs == IsSeq(<<>>) /\ Len(<<>>) = 0
<1>1. <<>> \in Seq({})
  OBVIOUS
<1> QED
  BY <1>1 DEF IsSeq

LEMMA OneIs ==
  ASSUME NEW e
  PROVE  IsSeq(<<e>>) /\ Len(<<e>>) = 1 /\ <<e>>[1] = e
<1>1. <<e>> \in Seq({e})
  OBVIOUS
<1> QED
  BY <1>1 DEF IsSeq

\* The prefix of s that t begins with.
Extends(t, s) == Len(s) <= Len(t) /\ \A i \in 1..Len(s) : t[i] = s[i]

LEMMA ConcatIs ==
  ASSUME NEW s, IsSeq(s), NEW t, IsSeq(t)
  PROVE  /\ IsSeq(s \o t) /\ Len(s \o t) = Len(s) + Len(t)
         /\ \A i \in 1..Len(s) : (s \o t)[i] = s[i]
         /\ \A i \in 1..Len(t) : (s \o t)[Len(s) + i] = t[i]
         /\ Extends(s \o t, s)
<1>1. PICK S : s \in Seq(S)
  BY DEF IsSeq
<1>2. PICK T : t \in Seq(T)
  BY DEF IsSeq
<1>3. s \in Seq(S \cup T) /\ t \in Seq(S \cup T)
  BY <1>1, <1>2
<1>4. s \o t \in Seq(S \cup T)
  BY <1>3
<1>5. IsSeq(s \o t)
  BY <1>4 DEF IsSeq
<1>6. Len(s \o t) = Len(s) + Len(t) /\ Len(s) \in Nat /\ Len(t) \in Nat
  BY <1>3
<1>7. \A i \in 1..Len(s) : (s \o t)[i] = s[i]
  BY <1>3
<1>8. \A i \in 1..Len(t) : (s \o t)[Len(s) + i] = t[i]
  BY <1>3
<1> QED
  BY <1>5, <1>6, <1>7, <1>8 DEF Extends

LEMMA AppendIs ==
  ASSUME NEW s, IsSeq(s), NEW e
  PROVE  /\ IsSeq(Append(s, e)) /\ Len(Append(s, e)) = Len(s) + 1
         /\ \A i \in 1..Len(s) : Append(s, e)[i] = s[i]
         /\ Append(s, e)[Len(s) + 1] = e
         /\ Append(s, e) # <<>>
         /\ Extends(Append(s, e), s)
<1>1. PICK S : s \in Seq(S)
  BY DEF IsSeq
<1>2. s \in Seq(S \cup {e})
  BY <1>1
<1>3. Append(s, e) \in Seq(S \cup {e})
  BY <1>2, AppendProperties
<1>4. IsSeq(Append(s, e))
  BY <1>3 DEF IsSeq
<1>5. Len(Append(s, e)) = Len(s) + 1 /\ Len(s) \in Nat /\ Append(s, e)[Len(s) + 1] = e
  BY <1>2
<1>6. \A i \in 1..Len(s) : Append(s, e)[i] = s[i]
  BY <1>2
<1>7. Append(s, e) # <<>>
  <2> DEFINE t == Append(s, e)
  <2>1. IsSeq(t) /\ Len(t) = Len(s) + 1
    BY <1>4, <1>5
  <2> HIDE DEF t
  <2>2. t # <<>>
    BY <1>5, <2>1, SeqIs
  <2> QED
    BY <2>2 DEF t
<1> QED
  BY <1>4, <1>5, <1>6, <1>7 DEF Extends

LEMMA TruncateIs ==
  ASSUME NEW s, IsSeq(s), NEW n \in Nat, n <= Len(s)
  PROVE  /\ IsSeq(Truncate(s, n)) /\ Len(Truncate(s, n)) = n
         /\ \A i \in 1..n : Truncate(s, n)[i] = s[i]
<1>1. PICK S : s \in Seq(S)
  BY DEF IsSeq
<1>2. (IF n < Len(s) THEN n ELSE Len(s)) = n /\ Len(s) \in Nat
  BY <1>1
<1>3. Truncate(s, n) = SubSeq(s, 1, n)
  BY <1>2 DEF Truncate
<1>4. SubSeq(s, 1, n) \in Seq(S)
  <2>1. \A i \in 1..n : s[i] \in S
    BY <1>1, <1>2
  <2> QED
    BY <1>1, <1>2, <2>1, SubSeqProperties
<1>5. Len(SubSeq(s, 1, n)) = n /\ \A i \in 1..n : SubSeq(s, 1, n)[i] = s[i]
  BY <1>1, <1>2, SubSeqProperties
<1> QED
  BY <1>3, <1>4, <1>5 DEF IsSeq

LEMMA FrontIs ==
  ASSUME NEW s, IsSeq(s), s # <<>>
  PROVE  /\ IsSeq(Front(s)) /\ Len(Front(s)) = Len(s) - 1
         /\ \A i \in 1..(Len(s) - 1) : Front(s)[i] = s[i]
<1>1. Len(s) \in Nat /\ Len(s) # 0
  BY SeqIs
<1>2. Len(s) - 1 \in Nat /\ Len(s) - 1 <= Len(s) /\ Len(s) - 1 < Len(s)
  BY <1>1
<1>3. Front(s) = Truncate(s, Len(s) - 1)
  BY <1>2 DEF Front, Truncate
<1> QED
  BY <1>2, <1>3, TruncateIs

LEMMA ExceptIs ==
  ASSUME NEW s, IsSeq(s), NEW i \in 1..Len(s), NEW e
  PROVE  /\ IsSeq([s EXCEPT ![i] = e]) /\ Len([s EXCEPT ![i] = e]) = Len(s)
         /\ [s EXCEPT ![i] = e][i] = e
         /\ \A j \in 1..Len(s) : j # i => [s EXCEPT ![i] = e][j] = s[j]
<1>1. PICK S : s \in Seq(S)
  BY DEF IsSeq
<1>2. s \in Seq(S \cup {e})
  BY <1>1
<1>3. [s EXCEPT ![i] = e] \in Seq(S \cup {e}) /\ Len([s EXCEPT ![i] = e]) = Len(s)
  BY <1>2
<1> QED
  BY <1>1, <1>3 DEF IsSeq

LEMMA RepeatIs ==
  ASSUME NEW n \in Nat, NEW e
  PROVE  IsSeq(Repeat(n, e)) /\ Len(Repeat(n, e)) = n
<1>1. Repeat(n, e) \in Seq({e}) /\ Len(Repeat(n, e)) = n
  BY DEF Repeat
<1> QED
  BY <1>1 DEF IsSeq

\* A non-empty set of naturals has a minimum.
LEMMA LeastIs ==
  ASSUME NEW T, T \subseteq Nat, T # {}
  PROVE  \E i \in T : \A y \in T : i <= y
<1> DEFINE R == {ss \in Nat \X Nat : ss[1] < ss[2]}
<1>1. IsWellFoundedOn(R, Nat)
  BY NatLessThanWellFounded, Zenon DEF OpToRel
<1> HIDE DEF R
<1>2. PICK i \in T : \A k \in T : ~(<<k, i>> \in R)
  BY <1>1, WFMin, Zenon
<1>3. ASSUME NEW y \in T PROVE i <= y
  <2>1. i \in Nat /\ y \in Nat /\ ~(y < i)
    BY <1>2 DEF R
  <2> QED
    BY <2>1
<1> QED
  BY <1>3

\* The concatenations of the first i of the sequences ss, for i up to m.
Flattens(g, ss, m) == g = [i \in 1..m |-> IF i = 1 THEN ss[i] ELSE g[i - 1] \o ss[i]]

LEMMA FlattenExists ==
  ASSUME NEW ss, NEW n \in Nat \ {0}
  PROVE  \E g : Flattens(g, ss, n)
<1> DEFINE T == {m \in Nat \ {0} : ~\E g : Flattens(g, ss, m)}
<1> SUFFICES T = {}
  OBVIOUS
<1> SUFFICES ASSUME T # {} PROVE FALSE
  OBVIOUS
<1>1. PICK m \in T : \A y \in T : m <= y
  BY LeastIs
<1>2. m \in Nat \ {0} /\ ~\E g : Flattens(g, ss, m)
  OBVIOUS
<1>3. CASE m = 1
  <2> DEFINE g == [i \in 1..1 |-> ss[i]]
  <2>1. Flattens(g, ss, 1)
    BY DEF Flattens
  <2> QED
    BY <1>2, <1>3, <2>1
<1>4. CASE m # 1
  <2>1. m - 1 \in Nat \ {0} /\ ~(m <= m - 1)
    BY <1>2, <1>4
  <2>2. m - 1 \notin T
    BY <1>1, <2>1
  <2>3. PICK h : Flattens(h, ss, m - 1)
    BY <2>1, <2>2
  <2> DEFINE g == [i \in 1..m |-> IF i = m THEN h[m - 1] \o ss[m] ELSE h[i]]
  <2>4. ASSUME NEW i \in 1..m
        PROVE  g[i] = IF i = 1 THEN ss[i] ELSE g[i - 1] \o ss[i]
    <3>1. CASE i = m
      <4>1. m \in 1..m /\ m - 1 \in 1..m /\ m - 1 # m
        BY <1>2, <2>1
      <4>2. g[m] = h[m - 1] \o ss[m] /\ g[m - 1] = h[m - 1]
        BY <4>1
      <4> QED
        BY <1>4, <3>1, <4>2
    <3>2. CASE i # m
      <4>1. i \in 1..(m - 1) /\ g[i] = h[i]
        BY <1>2, <3>2
      <4>2. h[i] = IF i = 1 THEN ss[i] ELSE h[i - 1] \o ss[i]
        BY <2>3, <4>1 DEF Flattens
      <4>3. i # 1 => g[i - 1] = h[i - 1]
        BY <1>2, <3>2
      <4> QED
        BY <4>1, <4>2, <4>3
    <3> QED
      BY <3>1, <3>2
  <2>5. g = [i \in 1..m |-> g[i]]
    OBVIOUS
  <2> HIDE DEF g
  <2>6. Flattens(g, ss, m)
    BY <2>4, <2>5 DEF Flattens
  <2> QED
    BY <1>2, <2>6
<1> QED
  BY <1>3, <1>4

LEMMA FlattenIs ==
  ASSUME NEW ss, Len(ss) \in Nat, Len(ss) # 0
  PROVE  \E g : Flattens(g, ss, Len(ss)) /\ FlattenSeq(ss) = g[Len(ss)]
<1> DEFINE F == CHOOSE g : Flattens(g, ss, Len(ss))
<1>1. Flattens(F, ss, Len(ss))
  BY FlattenExists
<1>2. FlattenSeq(ss) = F[Len(ss)]
  BY DEF FlattenSeq, Flattens
<1> QED
  BY <1>1, <1>2
-----------------------------------------------------------------------------
(* The inductive invariant                                                 *)

RestPcs == {"items", "idle", "built"}
\* A rule is being compiled; its condition is done; it is in the table of rules.
RulePcs == {"patterns", "condition", "slow", "result", "assign", "next", "compile", "refused"}
PushedPcs == {"next", "compile", "refused"}

CurFields == {"rule", "snapshot", "cond", "k", "pattern_ids", "pending", "calls", "prev", "code"}

Shape ==
  /\ pc \in RestPcs \cup RulePcs
  /\ DOMAIN cur = CurFields
  /\ pc \in RulePcs => cur.rule \in Decls
  /\ IsSeq(frames) /\ (frames = <<>> <=> pc \in {"idle", "built"})

\* An ignored rule of the current namespace that is ignored because of a module.
IgnoredHere(x) ==
  \E j \in 1..Len(ignored_rules) : /\ ignored_rules[j].rule = x
                                   /\ ignored_rules[j].namespace = namespace.id
                                   /\ ignored_rules[j].reason # "CompileError"

ErrorInv ==
  /\ IsSeq(errors) /\ IsSeq(results)
  /\ pc = "idle" => Told(results, Len(errors))
  /\ frames # <<>> => /\ frames[1].existing_errors \in 0..Len(errors)
                      /\ Told(results, frames[1].existing_errors)

\* The rules with a name in a namespace: accepted, ignored, being compiled.
AcceptedAs(ident, n) == {i \in 1..Len(accepted) : accepted[i].rule.ident = ident
                                                  /\ accepted[i].namespace = n}
IgnoredAs(ident, n) == {i \in 1..Len(ignored_rules) : ignored_rules[i].rule = ident
                                                      /\ ignored_rules[i].namespace = n}
CurrentAs(ident, n) ==
  IF pc \in RulePcs /\ cur.rule.ident = ident /\ namespace.id = n THEN 1 ELSE 0

DeclaredInv ==
  \A ident, n : TimesDeclared(ident, n) =
    Cardinality(AcceptedAs(ident, n)) + Cardinality(IgnoredAs(ident, n)) + CurrentAs(ident, n)

\* The i-th of the ignored rules igs has a reason, with errs the errors.
Reason(igs, errs, i) ==
  LET g == igs[i]
  IN \/ /\ g.reason = "CompileError"
        /\ g.index \in Nat /\ g.index < Len(errs)
        /\ errs[g.index + 1].of = g.rule /\ errs[g.index + 1].kind # "OtherLinterError"
     \/ g.reason = "IgnoredModule" /\ g.what \in IgnoredModules
     \/ /\ g.reason = "IgnoredRule"
        /\ \E j \in 1..(i - 1) : /\ igs[j].rule = g.what /\ igs[j].namespace = g.namespace
                                 /\ igs[j].reason # "CompileError"

IgnoredInv ==
  /\ IsSeq(errors) /\ IsSeq(ignored_rules)
  /\ cur.cond # <<>> => cur.cond[1] # "OtherLinterError"
  /\ \A i \in 1..Len(ignored_rules) : Reason(ignored_rules, errors, i)
  /\ \A x \in DOMAIN rules_depending_on_unsupported_modules : IgnoredHere(x)

IncludeInv == IsSeq(include_stack) /\ IncludesNest

\* What a name may refer to.
Resolved(x) ==
  \/ x \in DOMAIN root_struct
  \/ \E j \in 1..Len(accepted) : accepted[j].rule.ident = x /\ accepted[j].namespace = namespace.id

ResolvedRefs(d) == \A r \in ToSet(d.condition.refs) \ d.condition.loop : Resolved(r)

NameInv ==
  /\ IsSeq(symbol_table) /\ IsSeq(accepted)
  /\ Len(symbol_table) >= 2
  /\ pc \in RestPcs \cup {"patterns", "condition"} => Len(symbol_table) = 2
  /\ DOMAIN symbol_table[1] \subseteq DOMAIN root_struct
  /\ \A x \in DOMAIN symbol_table[2] : Resolved(x)
  /\ pc \in RulePcs => /\ cur.snapshot.symbol_table_len = 2
                       /\ cur.rule.ident \notin DOMAIN symbol_table[2]
  /\ pc \in {"slow", "result"} /\ cur.cond = <<>> => Len(symbol_table) = 2 /\ ResolvedRefs(cur.rule)
  /\ pc \in {"assign"} \cup PushedPcs => Len(symbol_table) = 2 /\ ResolvedRefs(cur.rule)
  /\ ReferencesResolve

\* What the rules before the current one leave, and a failed rule goes back to.
KeptPatterns == IF pc \in RulePcs THEN cur.snapshot.next_pattern_id ELSE next_pattern_id

\* The ids of the first n patterns of rule d are below limit, and a pattern
\* that fast scan mode may cut short is one of which d does not need all.
Uses(bits, ids, d, n, limit) ==
  /\ IsSeq(ids) /\ Len(ids) = n
  /\ \A k \in 1..n : /\ ids[k] \in 0..(limit - 1)
                     /\ bits[ids[k] + 1] => d.patterns[k].fast_scan_allowed

\* Entry r of the table of rules is that of accepted rule a.
RuleIs(bits, r, a, limit) ==
  /\ a.rule \in Decls
  /\ r.ident = a.rule.ident /\ r.namespace = a.namespace
  /\ Uses(bits, r.patterns, a.rule, Len(a.rule.patterns), limit)

PatternInv ==
  /\ next_pattern_id \in Nat
  /\ IsSeq(fast_scan_patterns) /\ Len(fast_scan_patterns) = next_pattern_id
  /\ DOMAIN patterns \subseteq AnyPattern
  /\ \A p \in DOMAIN patterns : patterns[p] \in 0..(next_pattern_id - 1)
  /\ pc \in RulePcs => /\ cur.snapshot.next_pattern_id \in 0..next_pattern_id
                       /\ cur.snapshot.fast_scan_patterns_len = cur.snapshot.next_pattern_id

RuleInv ==
  /\ IsSeq(accepted) /\ IsSeq(rules)
  /\ Len(rules) = IF pc \in PushedPcs THEN Len(accepted) + 1 ELSE Len(accepted)
  /\ \A i \in 1..Len(accepted) : RuleIs(fast_scan_patterns, rules[i], accepted[i], KeptPatterns)
  /\ pc \in RulePcs => cur.snapshot.rules_len = Len(accepted)
  /\ pc \in {"patterns", "condition", "slow", "result"} => cur.k = 1 /\ cur.pattern_ids = <<>>
  /\ pc = "assign" =>
       /\ cur.k \in 1..(Len(cur.rule.patterns) + 1)
       /\ Uses(fast_scan_patterns, cur.pattern_ids, cur.rule, cur.k - 1, next_pattern_id)
  /\ pc \in PushedPcs =>
       /\ cur.k \in 0..Len(cur.rule.patterns)
       /\ Uses(fast_scan_patterns, cur.pattern_ids, cur.rule, Len(cur.rule.patterns),
               next_pattern_id)
       /\ rules[Len(rules)] = [ident |-> cur.rule.ident, namespace |-> namespace.id,
                               patterns |-> cur.pattern_ids]

BoundInv ==
  /\ DOMAIN filesize_bounds \cup DOMAIN header_constraints \subseteq 0..(next_pattern_id - 1)
  /\ pc \in RulePcs => /\ cur.pending \subseteq 0..(next_pattern_id - 1)
                       /\ cur.pending \cap DOMAIN filesize_bounds = {}
                       /\ cur.pending \cap DOMAIN header_constraints = {}
  /\ pc = "compile" => cur.k # 0 /\ cur.pattern_ids[cur.k] \in cur.pending

CodeInv ==
  /\ IsSeq(wasm_mod) /\ Len(wasm_mod) = Len(accepted)
  /\ \A i \in 1..Len(accepted) :
       wasm_mod[i] = [namespace |-> accepted[i].namespace, rule |-> i - 1]
  /\ \A x \in DOMAIN root_struct : root_struct[x] # "rule"
  /\ \A x \in DOMAIN symbol_table[2] : symbol_table[2][x].kind = "rule" =>
       LET i == symbol_table[2][x].id + 1
       IN i \in 1..Len(accepted) /\ accepted[i].rule.ident = x /\ accepted[i].namespace = namespace.id

\* The calls left to compile a pattern: only a literal may be anchored, and a
\* regular expression is one of the pieces P.
AnyPiece == Regexps \cup {"lit", "alt", "mask"}
GoodCall(P, c) ==
  /\ c.call = "add_sub_pattern" /\ c.anchored_at # {} => c.kind = "Literal"
  /\ c.call = "c_regexp" => c.piece \in P
GoodCalls(P, s) == IsSeq(s) /\ \A i \in 1..Len(s) : GoodCall(P, s[i])

\* The first ns sub-patterns belong to the first np patterns, the first na
\* atoms lead to them and into the first nc instructions, and the scanner
\* reaches each of them in one way.
Reach(np, ns, na, nc, subs, ats, anchored) ==
  /\ \A i \in 1..ns : subs[i].pattern \in 0..(np - 1)
  /\ \A a \in 1..na : ats[a].sub_pattern \in 0..(ns - 1) /\ ats[a].code \in 0..nc
  /\ \A i \in 0..(ns - 1) :
       IF subs[i + 1].anchored_at # {}
       THEN i \in ToSet(anchored) /\ \A a \in 1..na : ats[a].sub_pattern # i
       ELSE \E a \in 1..na : ats[a].sub_pattern = i

SubInv ==
  /\ IsSeq(sub_patterns) /\ IsSeq(atoms) /\ IsSeq(re_code) /\ IsSeq(anchored_sub_patterns)
  /\ Reach(next_pattern_id, Len(sub_patterns), Len(atoms), Len(re_code),
           sub_patterns, atoms, anchored_sub_patterns)
  /\ pc \in RulePcs =>
       LET s == cur.snapshot
       IN /\ s.sub_patterns_len \in 0..Len(sub_patterns) /\ s.atoms_len \in 0..Len(atoms)
          /\ s.re_code_len \in 0..Len(re_code)
          /\ Reach(s.next_pattern_id, s.sub_patterns_len, s.atoms_len, s.re_code_len,
                   sub_patterns, atoms, anchored_sub_patterns)
          /\ GoodCalls(AnyPiece, cur.calls) /\ cur.code \in 0..Len(re_code)

IInv ==
  /\ Shape /\ ErrorInv /\ IgnoredInv /\ DeclaredInv /\ IncludeInv /\ NameInv
  /\ PatternInv /\ RuleInv /\ BoundInv /\ CodeInv /\ SubInv
-----------------------------------------------------------------------------
(* The steps, with what the ways in which a rule ends have in common       *)

Rollback ==
  /\ pc \in RulePcs
  /\ RestoreSnapshot(cur.snapshot)
  /\ cur' = NoRule
  /\ pc' = "items"
  /\ UNCHANGED <<names, wasm_mod, control, accepted>>

Fails(kind) ==
  /\ Rollback
  /\ kind # "OtherLinterError"
  /\ Reject(cur.rule, kind, 0)
  /\ UNCHANGED rules_depending_on_unsupported_modules

Ignores(reason, what, module) ==
  /\ Rollback
  /\ \/ reason = "IgnoredModule" /\ what \in IgnoredModules
     \/ reason = "IgnoredRule" /\ what \in DOMAIN rules_depending_on_unsupported_modules
  /\ rules_depending_on_unsupported_modules' =
       Put(rules_depending_on_unsupported_modules, cur.rule.ident, module)
  /\ ignored_rules' = Append(ignored_rules, Ignored(cur.rule.ident, reason, what, 0))
  /\ UNCHANGED errors

Passes ==
  /\ \/ pc = "patterns" /\ pc' = "condition"
     \/ pc = "slow" /\ pc' = "result"
     \/ pc = "result" /\ pc' = "assign" /\ cur.cond = <<>>
  /\ UNCHANGED <<tables, symbol_table, names, rules_depending_on_unsupported_modules,
                 errors, ignored_rules, wasm_mod, control, cur, accepted>>

Assigns ==
  /\ pc = "assign"
  /\ cur.k <= Len(cur.rule.patterns)
  /\ LET use == cur.rule.patterns[cur.k]
         p == Bounded(cur.rule, use.pattern)
         new == p \notin DOMAIN patterns
         id == IF new THEN next_pattern_id ELSE patterns[p]
         bits == IF new THEN Append(fast_scan_patterns, TRUE) ELSE fast_scan_patterns
     IN /\ patterns' = IF new THEN Put(patterns, p, id) ELSE patterns
        /\ next_pattern_id' = IF new THEN next_pattern_id + 1 ELSE next_pattern_id
        /\ fast_scan_patterns' = ClearBit(bits, id, use.fast_scan_allowed)
        /\ cur' = [cur EXCEPT !.k = @ + 1,
                              !.pattern_ids = Append(@, id),
                              !.pending = IF new THEN @ \cup {id} ELSE @]
        /\ UNCHANGED <<rules, sub_patterns, anchored_sub_patterns, atoms, re_code,
                       filesize_bounds, header_constraints, symbol_table, names,
                       rules_depending_on_unsupported_modules, errors, ignored_rules,
                       wasm_mod, pc, control, accepted>>

Declares(d) ==
  declared' = Put(declared, <<d.ident, namespace.id>>, TimesDeclared(d.ident, namespace.id) + 1)

Rejects(d, kind, others) ==
  /\ pc = "items" /\ items' = items + 1
  /\ kind # "OtherLinterError"
  /\ others \in Nat
  /\ Reject(d, kind, others)
  /\ Declares(d)
  /\ UNCHANGED <<pc, cur, tables, symbol_table, names, rules_depending_on_unsupported_modules,
                 wasm_mod, frames, include_stack, calls, results, accepted>>

Takes(d) ==
  /\ pc = "items" /\ items' = items + 1
  /\ ~Known(d.ident)
  /\ Declares(d)
  /\ cur' = [NoRule EXCEPT !.rule = d, !.snapshot = TakeSnapshot]
  /\ pc' = "patterns"
  /\ UNCHANGED <<errors, ignored_rules, tables, symbol_table, names,
                 rules_depending_on_unsupported_modules, wasm_mod, frames, include_stack, calls,
                 results, accepted>>

Step ==
  \/ AddSource \/ Build \/ EndSource
  \/ \E v \in Variables : DefineGlobal(v)
  \/ \E n \in Namespaces : NewNamespace(n)
  \/ \E f \in Files : IncludeItem(f)
  \/ \E m \in ModuleNames : ImportItem(m)
  \/ \E d \in Decls : \E kind, others : Rejects(d, kind, others)
  \/ \E d \in Decls : Takes(d)
  \/ \E kind : Fails(kind)
  \/ \E reason, what, module : Ignores(reason, what, module)
  \/ Passes \/ ConditionFromAst \/ Assigns \/ PushRule \/ NextPattern \/ CRegexp
  \/ AddSubPattern \/ FinishPattern \/ CommitRule

LEMMA FailRuleIsFails ==
  ASSUME NEW kind, pc \in RulePcs, kind # "OtherLinterError", FailRule(kind)
  PROVE  Step
<1>1. Fails(kind)
  BY DEF FailRule, Fails, Rollback
<1> QED
  BY <1>1 DEF Step

LEMMA NextIsStep ==
  ASSUME Shape, IgnoredInv, Next
  PROVE  Step
<1>1. CASE \E d \in Decls : RuleItem(d)
  <2>1. PICK d \in Decls : RuleItem(d)
    BY <1>1
  <2>2. CASE Known(d.ident) \/ d.duplicate_tags \/ d.linter_errors > 0
    <3>1. \E kind, others : kind # "OtherLinterError" /\ others \in Nat /\ Reject(d, kind, others)
      <4>1. CASE Known(d.ident)
        <5>1. Reject(d, "DuplicateRule", 0) \/ Reject(d, "ConflictingRuleIdentifier", 0)
          BY <2>1, <2>2, <4>1 DEF RuleItem
        <5> QED
          BY <5>1
      <4>2. CASE ~Known(d.ident) /\ d.duplicate_tags
        <5>1. Reject(d, "DuplicateTag", 0)
          BY <2>1, <2>2, <4>2 DEF RuleItem
        <5> QED
          BY <5>1
      <4>3. CASE ~Known(d.ident) /\ ~d.duplicate_tags
        <5>1. Reject(d, "LinterError", d.linter_errors - 1)
          BY <2>1, <2>2, <4>3 DEF RuleItem
        <5>2. d.linter_errors - 1 \in Nat
          BY <2>2, <4>3, CompilerAssumption
        <5> QED
          BY <5>1, <5>2
      <4> QED
        BY <4>1, <4>2, <4>3
    <3>2. PICK kind, others : kind # "OtherLinterError" /\ others \in Nat /\ Reject(d, kind, others)
      BY <3>1
    <3>3. Rejects(d, kind, others)
      BY <2>1, <2>2, <3>2 DEF RuleItem, Rejects, Declares, Item
    <3> QED
      BY <3>3 DEF Step
  <2>3. CASE ~(Known(d.ident) \/ d.duplicate_tags \/ d.linter_errors > 0)
    <3>1. Takes(d)
      BY <2>1, <2>3 DEF RuleItem, Takes, Declares, Item
    <3> QED
      BY <3>1 DEF Step
  <2> QED
    BY <2>2, <2>3
<1>2. CASE PatternsFromAst
  <2>1. CASE FailRule("BadPattern")
    BY <1>2, <2>1, FailRuleIsFails DEF PatternsFromAst, RulePcs
  <2>2. CASE ~FailRule("BadPattern")
    BY <1>2, <2>2 DEF PatternsFromAst, Passes, Step
  <2> QED
    BY <2>1, <2>2
<1>3. CASE SlowPatterns
  <2>1. CASE FailRule("SlowPattern")
    BY <1>3, <2>1, FailRuleIsFails DEF SlowPatterns, RulePcs
  <2>2. CASE ~FailRule("SlowPattern")
    BY <1>3, <2>2 DEF SlowPatterns, Passes, Step
  <2> QED
    BY <2>1, <2>2
<1>4. CASE ConditionResult
  <2>1. pc = "result" /\ pc \in RulePcs
    BY <1>4 DEF ConditionResult, RulePcs
  <2>2. CASE cur.cond = <<>>
    <3>1. Passes
      BY <1>4, <2>2 DEF ConditionResult, Passes
    <3> QED
      BY <3>1 DEF Step
  <2>3. CASE cur.cond # <<>> /\ Len(cur.cond) = 2 /\ cur.cond[2] \in IgnoredModules
    <3>1. IgnoreRule("IgnoredModule", cur.cond[2], cur.cond[2])
      BY <1>4, <2>3 DEF ConditionResult
    <3>2. Ignores("IgnoredModule", cur.cond[2], cur.cond[2])
      BY <2>1, <2>3, <3>1 DEF IgnoreRule, Ignores, Rollback
    <3> QED
      BY <3>2 DEF Step
  <2>4. CASE /\ cur.cond # <<>> /\ Len(cur.cond) = 2 /\ cur.cond[2] \notin IgnoredModules
             /\ cur.cond[2] \in DOMAIN rules_depending_on_unsupported_modules
    <3> DEFINE m == rules_depending_on_unsupported_modules[cur.cond[2]]
    <3>1. IgnoreRule("IgnoredRule", cur.cond[2], m)
      BY <1>4, <2>4 DEF ConditionResult
    <3>2. Ignores("IgnoredRule", cur.cond[2], m)
      BY <2>1, <2>4, <3>1 DEF IgnoreRule, Ignores, Rollback
    <3> QED
      BY <3>2 DEF Step
  <2>5. CASE /\ cur.cond # <<>>
             /\ ~(Len(cur.cond) = 2 /\ cur.cond[2] \in IgnoredModules)
             /\ ~(Len(cur.cond) = 2 /\ cur.cond[2] \notin IgnoredModules
                  /\ cur.cond[2] \in DOMAIN rules_depending_on_unsupported_modules)
    <3>1. FailRule(cur.cond[1])
      BY <1>4, <2>5 DEF ConditionResult
    <3>2. cur.cond[1] # "OtherLinterError"
      BY <2>5 DEF IgnoredInv
    <3> QED
      BY <2>1, <3>1, <3>2, FailRuleIsFails
  <2> QED
    BY <2>2, <2>3, <2>4, <2>5
<1>5. CASE AssignPatternId
  <2>1. pc \in RulePcs
    BY <1>5 DEF AssignPatternId, RulePcs
  <2>2. CASE FailRule("UnusedPattern")
    BY <2>1, <2>2, FailRuleIsFails
  <2>3. CASE ~FailRule("UnusedPattern")
    <3>1. Assigns
      BY <1>5, <2>3 DEF AssignPatternId, Assigns
    <3> QED
      BY <3>1 DEF Step
  <2> QED
    BY <2>2, <2>3
<1>6. CASE RegexpRefused
  BY <1>6, FailRuleIsFails DEF RegexpRefused, RulePcs
<1> QED
  BY <1>1, <1>2, <1>3, <1>4, <1>5, <1>6 DEF Next, Step
-----------------------------------------------------------------------------
(* Control                                                                 *)

LEMMA RuleFields ==
  ASSUME NEW d
  PROVE  /\ DOMAIN NoRule = CurFields
         /\ LET c == [NoRule EXCEPT !.rule = d, !.snapshot = TakeSnapshot]
            IN /\ DOMAIN c = CurFields
               /\ c.rule = d /\ c.snapshot = TakeSnapshot /\ c.cond = <<>> /\ c.k = 1
               /\ c.pattern_ids = <<>> /\ c.pending = {} /\ c.calls = <<>> /\ c.code = 0
BY DEF NoRule, CurFields

LEMMA ShapeStep ==
  ASSUME IInv, Step
  PROVE  Shape'
<1> USE DEF RestPcs, RulePcs
<1>1. /\ DOMAIN cur = CurFields /\ IsSeq(frames) /\ (frames = <<>> <=> pc \in {"idle", "built"})
      /\ pc \in RulePcs => cur.rule \in Decls
  BY DEF IInv, Shape
<1>2. CASE AddSource
  <2>1. CASE pc' = "items"
    <3>1. frames' = <<[existing_errors |-> Len(errors)]>> \/ UNCHANGED frames
      BY <1>2 DEF AddSource
    <3>2. frames' = <<[existing_errors |-> Len(errors)]>>
      BY <1>2, <2>1 DEF AddSource, Call
    <3>3. IsSeq(frames') /\ Len(frames') = 1
      BY <3>2, OneIs
    <3>4. frames' # <<>>
      BY <3>3, SeqIs
    <3> QED
      BY <1>1, <1>2, <2>1, <3>3, <3>4 DEF AddSource, Shape
  <2>2. CASE pc' # "items"
    BY <1>1, <1>2, <2>2 DEF AddSource, Call, Shape
  <2> QED
    BY <2>1, <2>2
<1>3. CASE Build
  BY <1>1, <1>3 DEF Build, control, Shape
<1>4. CASE EndSource
  <2>1. frames # <<>> /\ frames' = Front(frames)
    BY <1>1, <1>4 DEF EndSource
  <2>2. IsSeq(frames') /\ Len(frames') = Len(frames) - 1 /\ Len(frames) \in Nat /\ Len(frames) # 0
    BY <1>1, <2>1, FrontIs, SeqIs
  <2>3. frames' = <<>> <=> ~(Len(frames) > 1)
    BY <2>2, SeqIs
  <2> QED
    BY <1>1, <1>4, <2>2, <2>3 DEF EndSource, Shape
<1>5. CASE \E v \in Variables : DefineGlobal(v)
  BY <1>1, <1>5 DEF DefineGlobal, Call, Shape
<1>6. CASE \E n \in Namespaces : NewNamespace(n)
  BY <1>1, <1>6 DEF NewNamespace, Call, Shape
<1>7. CASE \E f \in Files : IncludeItem(f)
  <2>1. UNCHANGED <<pc, cur>> /\ pc = "items"
    BY <1>7 DEF IncludeItem, Item
  <2>2. UNCHANGED frames \/ \E e : frames' = Append(frames, e)
    BY <1>7 DEF IncludeItem
  <2>3. IsSeq(frames') /\ frames' # <<>>
    BY <1>1, <2>1, <2>2, AppendIs
  <2> QED
    BY <1>1, <2>1, <2>3 DEF Shape
<1>8. CASE \E m \in ModuleNames : ImportItem(m)
  BY <1>1, <1>8 DEF ImportItem, Item, Shape
<1>9. CASE \E d \in Decls : \E kind, others : Rejects(d, kind, others)
  BY <1>1, <1>9 DEF Rejects, Shape
<1>10. CASE \E d \in Decls : Takes(d)
  <2>1. PICK d \in Decls : Takes(d)
    BY <1>10
  <2>2. DOMAIN cur' = CurFields /\ cur'.rule = d
    BY <2>1, RuleFields DEF Takes
  <2> QED
    BY <1>1, <2>1, <2>2 DEF Takes, Shape
<1>11. CASE Rollback
  <2>1. DOMAIN cur' = CurFields
    BY <1>11, RuleFields DEF Rollback
  <2> QED
    BY <1>1, <1>11, <2>1 DEF Rollback, control, Shape
<1>12. CASE Passes
  BY <1>1, <1>12 DEF Passes, control, Shape
<1>13. CASE ConditionFromAst \/ Assigns \/ PushRule \/ NextPattern \/ CRegexp \/ AddSubPattern
  <2>1. pc \in RulePcs /\ UNCHANGED frames /\ pc' \in RulePcs
    BY <1>13 DEF ConditionFromAst, Assigns, PushRule, NextPattern, CRegexp, AddSubPattern, control
  <2>2. DOMAIN cur' = CurFields
    BY <1>1, <1>13 DEF ConditionFromAst, Assigns, PushRule, NextPattern, CRegexp, AddSubPattern
  <2>3. cur'.rule = cur.rule
    BY <1>1, <1>13 DEF ConditionFromAst, Assigns, PushRule, NextPattern, CRegexp, AddSubPattern,
                       CurFields
  <2> QED
    BY <1>1, <2>1, <2>2, <2>3 DEF Shape
<1>14. CASE FinishPattern
  <2>1. pc' = "next"
    BY <1>14 DEF FinishPattern, IInv, BoundInv
  <2>2. DOMAIN cur' = CurFields /\ cur'.rule = cur.rule
    BY <1>1, <1>14 DEF FinishPattern, CurFields
  <2> QED
    BY <1>1, <1>14, <2>1, <2>2 DEF FinishPattern, control, Shape
<1>15. CASE CommitRule
  <2>1. pc' = "items"
    BY <1>15 DEF CommitRule, IInv, NameInv
  <2>2. DOMAIN cur' = CurFields
    BY <1>15, RuleFields DEF CommitRule
  <2> QED
    BY <1>1, <1>15, <2>1, <2>2 DEF CommitRule, control, Shape
<1> QED
  BY <1>2, <1>3, <1>4, <1>5, <1>6, <1>7, <1>8, <1>9, <1>10, <1>11, <1>12, <1>13, <1>14, <1>15
     DEF Step, Fails, Ignores

-----------------------------------------------------------------------------
(* Errors                                                                  *)

\* Errors are only added.
LEMMA ErrorsGrow ==
  ASSUME IInv, Step
  PROVE  IsSeq(errors') /\ Extends(errors', errors)
<1>1. IsSeq(errors) /\ Len(errors) \in Nat
  BY SeqIs DEF IInv, ErrorInv
<1>2. CASE UNCHANGED errors
  BY <1>1, <1>2 DEF Extends
<1>3. CASE \E e : errors' = Append(errors, e)
  BY <1>1, <1>3, AppendIs
<1>4. CASE EndSource
  <2>1. PICK n \in 0..1 : errors' = errors \o Repeat(n, Error(None, "SyntaxError"))
    BY <1>4 DEF EndSource
  <2>2. IsSeq(Repeat(n, Error(None, "SyntaxError")))
    BY RepeatIs
  <2> QED
    BY <1>1, <2>1, <2>2, ConcatIs
<1>5. ASSUME NEW d, NEW kind, NEW others \in Nat, Reject(d, kind, others)
      PROVE  IsSeq(errors') /\ Extends(errors', errors)
  <2> DEFINE t == Repeat(others, Error(d.ident, "OtherLinterError"))
             u == errors \o t
             e == Error(d.ident, kind)
  <2>1. IsSeq(t)
    BY RepeatIs
  <2>2. IsSeq(u) /\ Extends(u, errors) /\ Len(u) \in Nat
    BY <1>1, <2>1, ConcatIs, SeqIs
  <2>3. errors' = u \o <<e>>
    BY <1>5 DEF Reject
  <2> HIDE DEF t, u, e
  <2>4. IsSeq(u \o <<e>>) /\ Extends(u \o <<e>>, u) /\ Len(u \o <<e>>) \in Nat
    BY <2>2, OneIs, ConcatIs, SeqIs
  <2> QED
    BY <1>1, <2>2, <2>3, <2>4 DEF Extends
<1>6. CASE \E d \in Decls : \E kind, others : Rejects(d, kind, others)
  BY <1>5, <1>6 DEF Rejects
<1>7. CASE \E kind : Fails(kind)
  <2>1. 0 \in Nat
    OBVIOUS
  <2> QED
    BY <1>5, <1>7, <2>1 DEF Fails
<1>8. CASE AddSource \/ (\E f \in Files : IncludeItem(f)) \/ (\E m \in ModuleNames : ImportItem(m))
  BY <1>2, <1>3, <1>8 DEF AddSource, IncludeItem, IncludeFails, ImportItem
<1>9. CASE \/ Build \/ (\E v \in Variables : DefineGlobal(v)) \/ (\E n \in Namespaces : NewNamespace(n))
           \/ (\E d \in Decls : Takes(d)) \/ (\E reason, what, module : Ignores(reason, what, module))
           \/ Passes \/ ConditionFromAst \/ Assigns \/ PushRule \/ NextPattern \/ CRegexp
           \/ AddSubPattern \/ FinishPattern \/ CommitRule
  BY <1>2, <1>9 DEF Build, DefineGlobal, NewNamespace, Takes, Ignores, Passes, ConditionFromAst,
     Assigns, PushRule, NextPattern, CRegexp, AddSubPattern, FinishPattern, CommitRule
<1> QED
  BY <1>4, <1>6, <1>7, <1>8, <1>9 DEF Step

\* One more call, that found n errors and left m.
LEMMA ToldAppend ==
  ASSUME NEW rs, IsSeq(rs), NEW n \in Nat, Told(rs, n), NEW m \in Nat, n <= m,
         NEW error, error = IF m > n THEN n + 1 ELSE 0, NEW errs, Len(errs) = m
  PROVE  Told(Append(rs, Returned(error, errs)), m)
<1> DEFINE r == Returned(error, errs)
           l == Len(rs)
           s == Append(rs, r)
           B(i) == IF i = 1 THEN 0 ELSE rs[i - 1].errors
           C(i) == IF i = 1 THEN 0 ELSE s[i - 1].errors
<1>1. l \in Nat /\ Len(s) = l + 1 /\ s[l + 1] = r /\ \A i \in 1..l : s[i] = rs[i]
  BY AppendIs, SeqIs
<1>2. DOMAIN rs = 1..l /\ DOMAIN s = 1..(l + 1)
  BY <1>1, AppendIs, SeqIs
<1>3. r.error = error /\ r.errors = m
  BY DEF Returned
<1>4. /\ \A i \in 1..l : B(i) <= rs[i].errors /\ rs[i].error = IF B(i) < rs[i].errors THEN B(i) + 1 ELSE 0
      /\ n = B(l + 1)
  BY <1>2 DEF Told
<1> HIDE DEF r, l, s
<1>5. ASSUME NEW i \in 1..(l + 1) PROVE C(i) = B(i)
  <2>1. CASE i = 1
    BY <2>1
  <2>2. CASE i # 1
    <3>1. i - 1 \in 1..l
      BY <1>1, <2>2
    <3> QED
      BY <1>1, <2>2, <3>1
  <2> QED
    BY <2>1, <2>2
<1>6. C((l + 1) + 1) = m
  BY <1>1, <1>3
<1> HIDE DEF B, C
<1>7. ASSUME NEW i \in 1..(l + 1)
      PROVE  C(i) <= s[i].errors /\ s[i].error = IF C(i) < s[i].errors THEN C(i) + 1 ELSE 0
  <2>1. CASE i \in 1..l
    BY <1>1, <1>4, <1>5, <2>1
  <2>2. CASE i \notin 1..l
    <3>1. i = l + 1
      BY <1>1, <2>2
    <3>2. C(i) = n /\ s[i].errors = m /\ s[i].error = error
      BY <1>1, <1>3, <1>4, <1>5, <3>1
    <3> QED
      BY <3>2
  <2> QED
    BY <2>1, <2>2
<1>8. Told(s, m)
  BY <1>1, <1>2, <1>6, <1>7 DEF Told, C
<1> QED
  BY <1>8 DEF s, r

\* The call that is under way began with the errors of its outermost source.
LEMMA ErrorStep ==
  ASSUME IInv, Step
  PROVE  ErrorInv'
<1>1. /\ IsSeq(errors) /\ IsSeq(results) /\ IsSeq(frames)
      /\ Len(errors) \in Nat /\ Len(frames) \in Nat
      /\ frames = <<>> <=> pc \in {"idle", "built"}
      /\ pc = "idle" => Told(results, Len(errors))
      /\ frames # <<>> => /\ frames[1].existing_errors \in 0..Len(errors)
                          /\ Told(results, frames[1].existing_errors)
  BY SeqIs DEF IInv, ErrorInv, Shape
<1>2. IsSeq(errors') /\ Len(errors) <= Len(errors') /\ Len(errors') \in Nat
  BY ErrorsGrow, SeqIs DEF Extends
<1>3. Shape'
  BY ShapeStep
<1>4. CASE AddSource
  <2>1. pc = "idle" /\ Told(results, Len(errors)) /\ frames = <<>>
    BY <1>1, <1>4 DEF AddSource, Call
  <2>2. CASE pc' = "items"
    <3>1. frames' = <<[existing_errors |-> Len(errors)]>> /\ UNCHANGED <<errors, results>>
      BY <1>4, <2>1, <2>2 DEF AddSource
    <3>2. frames'[1].existing_errors = Len(errors)
      BY <3>1
    <3> QED
      BY <1>1, <2>1, <2>2, <3>1, <3>2 DEF ErrorInv
  <2>3. CASE pc' # "items"
    <3>1. /\ errors' = Append(errors, Error(None, "InvalidUTF8"))
          /\ results' = Append(results, Returned(Len(errors) + 1, errors'))
          /\ UNCHANGED <<pc, frames>>
      BY <1>4, <2>3 DEF AddSource
    <3>2. Len(errors') = Len(errors) + 1
      BY <1>1, <3>1, AppendIs
    <3>3. /\ Len(errors') \in Nat /\ Len(errors) <= Len(errors')
          /\ Len(errors) + 1 = IF Len(errors') > Len(errors) THEN Len(errors) + 1 ELSE 0
      BY <1>1, <3>2
    <3>4. Told(results', Len(errors'))
      BY <1>1, <2>1, <3>1, <3>3, ToldAppend
    <3>5. IsSeq(results')
      BY <1>1, <3>1, AppendIs
    <3> QED
      BY <1>2, <2>1, <3>1, <3>4, <3>5 DEF ErrorInv
  <2> QED
    BY <2>2, <2>3
<1>5. CASE EndSource
  <2>1. frames # <<>> /\ Len(frames) # 0
    BY <1>1, <1>5, SeqIs DEF EndSource
  <2> DEFINE n == frames[1].existing_errors
  <2>2. n \in Nat /\ n <= Len(errors') /\ Told(results, n)
    BY <1>1, <1>2, <2>1
  <2>3. CASE Len(frames) > 1
    <3>1. frames' = Front(frames) /\ results' = results /\ pc' = "items"
      BY <1>5, <2>3 DEF EndSource
    <3>2. 1 \in 1..(Len(frames) - 1)
      BY <1>1, <2>3
    <3>3. frames'[1] = frames[1]
      BY <1>1, <2>1, <3>1, <3>2, FrontIs
    <3> QED
      BY <1>1, <1>2, <2>2, <3>1, <3>3 DEF ErrorInv
  <2>4. CASE ~(Len(frames) > 1)
    <3>1. Len(frames) = 1
      <4>1. Len(frames) \in Nat
        BY <1>1
      <4>2. Len(frames) # 0
        BY <2>1
      <4> HIDE DEF n
      <4> QED
        BY <2>4, <4>1, <4>2, SMT
    <3>2. Last(frames) = frames[1]
      BY <3>1 DEF Last
    <3>3. results' = Append(results, Returned(FirstNewError(n, errors'), errors')) /\ pc' = "idle"
      BY <1>5, <2>4, <3>2 DEF EndSource
    <3>4. FirstNewError(n, errors') = IF Len(errors') > n THEN n + 1 ELSE 0
      BY DEF FirstNewError
    <3> HIDE DEF n
    <3>5. Told(results', Len(errors'))
      BY <1>1, <1>2, <2>2, <3>3, <3>4, ToldAppend
    <3>6. IsSeq(results')
      BY <1>1, <3>3, AppendIs
    <3>7. frames' = <<>>
      BY <1>3, <3>3 DEF Shape
    <3> QED
      BY <1>2, <3>5, <3>6, <3>7 DEF ErrorInv
  <2> QED
    BY <2>3, <2>4
<1>6. CASE \E f \in Files : IncludeItem(f)
  <2>1. UNCHANGED <<pc, results>> /\ pc = "items"
    BY <1>6 DEF IncludeItem, Item
  <2>2. frames # <<>> /\ Len(frames) # 0
    BY <1>1, <2>1, SeqIs
  <2>3. UNCHANGED frames \/ \E e : frames' = Append(frames, e)
    BY <1>6 DEF IncludeItem
  <2>4. 1 \in 1..Len(frames)
    BY <1>1, <2>2
  <2>5. frames'[1] = frames[1]
    BY <1>1, <2>3, <2>4, AppendIs
  <2> QED
    BY <1>1, <1>2, <2>1, <2>2, <2>5 DEF ErrorInv
<1>7. CASE Build
  BY <1>1, <1>2, <1>7 DEF Build, control, ErrorInv
<1>8. CASE (\E v \in Variables : DefineGlobal(v)) \/ (\E n \in Namespaces : NewNamespace(n))
  <2>1. UNCHANGED <<pc, results, frames, errors>>
    BY <1>8 DEF DefineGlobal, NewNamespace
  <2> QED
    BY <1>1, <2>1 DEF ErrorInv
<1>9. CASE /\ UNCHANGED <<results, frames>> /\ pc # "idle" /\ pc' # "idle"
  BY <1>1, <1>2, <1>9 DEF ErrorInv
<1>10. CASE \/ (\E m \in ModuleNames : ImportItem(m))
            \/ (\E d \in Decls : \E kind, others : Rejects(d, kind, others))
            \/ (\E d \in Decls : Takes(d)) \/ Rollback
            \/ Passes \/ ConditionFromAst \/ Assigns \/ PushRule \/ NextPattern \/ CRegexp
            \/ AddSubPattern \/ FinishPattern \/ CommitRule
  <2>1. UNCHANGED <<results, frames>>
    BY <1>10 DEF ImportItem, Rejects, Takes, Rollback, Passes, ConditionFromAst,
       Assigns, PushRule, NextPattern, CRegexp, AddSubPattern, FinishPattern, CommitRule, control
  <2>2. pc # "idle" /\ pc' # "idle"
    BY <1>10 DEF ImportItem, Item, Rejects, Takes, Rollback, Passes, ConditionFromAst, RulePcs,
       Assigns, PushRule, NextPattern, CRegexp, AddSubPattern, FinishPattern, CommitRule
  <2> QED
    BY <1>9, <2>1, <2>2
<1> QED
  BY <1>4, <1>5, <1>6, <1>7, <1>8, <1>10 DEF Step, Fails, Ignores

-----------------------------------------------------------------------------
(* Declared rules                                                          *)

LEMMA OneMore ==
  ASSUME NEW l \in Nat, NEW T, T \subseteq 1..l
  PROVE  Cardinality(T) \in Nat /\ Cardinality(T \cup {l + 1}) = Cardinality(T) + 1
<1>1. IsFiniteSet(1..l)
  BY FS_Interval
<1>2. IsFiniteSet(T) /\ Cardinality(T) \in Nat
  BY <1>1, FS_Subset, FS_CardinalityType
<1>3. l + 1 \notin T
  OBVIOUS
<1> QED
  BY <1>2, <1>3, FS_AddElement

\* A rule is added to the list of ignored rules.
LEMMA IgnoredOnce ==
  ASSUME IsSeq(ignored_rules), NEW g, ignored_rules' = Append(ignored_rules, g), NEW ident, NEW n
  PROVE  Cardinality(IgnoredAs(ident, n)') =
           Cardinality(IgnoredAs(ident, n)) + IF g.rule = ident /\ g.namespace = n THEN 1 ELSE 0
<1> DEFINE l == Len(ignored_rules)
<1>1. l \in Nat /\ Len(ignored_rules') = l + 1 /\ ignored_rules'[l + 1] = g
      /\ \A i \in 1..l : ignored_rules'[i] = ignored_rules[i]
  BY AppendIs, SeqIs
<1>2. 1..(l + 1) = (1..l) \cup {l + 1}
  BY <1>1
<1>3. IgnoredAs(ident, n)' =
        IF g.rule = ident /\ g.namespace = n THEN IgnoredAs(ident, n) \cup {l + 1}
        ELSE IgnoredAs(ident, n)
  BY <1>1, <1>2 DEF IgnoredAs
<1>4. IgnoredAs(ident, n) \subseteq 1..l
  BY DEF IgnoredAs
<1> HIDE DEF l
<1>5. /\ Cardinality(IgnoredAs(ident, n)) \in Nat
      /\ Cardinality(IgnoredAs(ident, n) \cup {l + 1}) = Cardinality(IgnoredAs(ident, n)) + 1
  BY <1>1, <1>4, OneMore
<1>6. CASE g.rule = ident /\ g.namespace = n
  BY <1>3, <1>5, <1>6
<1>7. CASE ~(g.rule = ident /\ g.namespace = n)
  BY <1>3, <1>5, <1>7
<1> QED
  BY <1>6, <1>7

\* A rule is accepted.
LEMMA AcceptedOnce ==
  ASSUME IsSeq(accepted), NEW g, accepted' = Append(accepted, g), NEW ident, NEW n
  PROVE  Cardinality(AcceptedAs(ident, n)') =
           Cardinality(AcceptedAs(ident, n)) + IF g.rule.ident = ident /\ g.namespace = n THEN 1 ELSE 0
<1> DEFINE l == Len(accepted)
<1>1. l \in Nat /\ Len(accepted') = l + 1 /\ accepted'[l + 1] = g
      /\ \A i \in 1..l : accepted'[i] = accepted[i]
  BY AppendIs, SeqIs
<1>2. 1..(l + 1) = (1..l) \cup {l + 1}
  BY <1>1
<1>3. AcceptedAs(ident, n)' =
        IF g.rule.ident = ident /\ g.namespace = n THEN AcceptedAs(ident, n) \cup {l + 1}
        ELSE AcceptedAs(ident, n)
  BY <1>1, <1>2 DEF AcceptedAs
<1>4. AcceptedAs(ident, n) \subseteq 1..l
  BY DEF AcceptedAs
<1> HIDE DEF l
<1>5. /\ Cardinality(AcceptedAs(ident, n)) \in Nat
      /\ Cardinality(AcceptedAs(ident, n) \cup {l + 1}) = Cardinality(AcceptedAs(ident, n)) + 1
  BY <1>1, <1>4, OneMore
<1>6. CASE g.rule.ident = ident /\ g.namespace = n
  BY <1>3, <1>5, <1>6
<1>7. CASE ~(g.rule.ident = ident /\ g.namespace = n)
  BY <1>3, <1>5, <1>7
<1> QED
  BY <1>6, <1>7

LEMMA CountsAreNat ==
  ASSUME IsSeq(accepted), IsSeq(ignored_rules), NEW ident, NEW n
  PROVE  Cardinality(AcceptedAs(ident, n)) \in Nat /\ Cardinality(IgnoredAs(ident, n)) \in Nat
<1>1. Len(accepted) \in Nat /\ Len(ignored_rules) \in Nat
  BY SeqIs
<1>2. AcceptedAs(ident, n) \subseteq 1..Len(accepted) /\ IgnoredAs(ident, n) \subseteq 1..Len(ignored_rules)
  BY DEF AcceptedAs, IgnoredAs
<1> QED
  BY <1>1, <1>2, OneMore

LEMMA DeclaredOnce ==
  ASSUME NEW d, Declares(d), NEW ident, NEW n
  PROVE  TimesDeclared(ident, n)' =
           IF d.ident = ident /\ namespace.id = n THEN TimesDeclared(ident, n) + 1
           ELSE TimesDeclared(ident, n)
BY DEF Declares, TimesDeclared, Put

\* A rule that is met is counted; it stays the current rule until it is
\* accepted or ignored, and is then in one of the two lists.
LEMMA DeclaredStep ==
  ASSUME IInv, Step
  PROVE  DeclaredInv'
<1>1. IsSeq(accepted) /\ IsSeq(ignored_rules) /\ DOMAIN cur = CurFields
  BY DEF IInv, RuleInv, IgnoredInv, Shape
<1> SUFFICES ASSUME NEW ident, NEW n
             PROVE  TimesDeclared(ident, n)' =
                      Cardinality(AcceptedAs(ident, n)') + Cardinality(IgnoredAs(ident, n)')
                      + CurrentAs(ident, n)'
  BY DEF DeclaredInv
<1> DEFINE a == Cardinality(AcceptedAs(ident, n))
           g == Cardinality(IgnoredAs(ident, n))
           c == CurrentAs(ident, n)
<1>2. TimesDeclared(ident, n) = a + g + c
  BY DEF IInv, DeclaredInv
<1>3. a \in Nat /\ g \in Nat /\ c \in {0, 1}
  BY <1>1, CountsAreNat DEF CurrentAs
<1>4. UNCHANGED declared => TimesDeclared(ident, n)' = a + g + c
  BY <1>2 DEF TimesDeclared
<1>5. UNCHANGED accepted => AcceptedAs(ident, n)' = AcceptedAs(ident, n)
  BY DEF AcceptedAs
<1>6. UNCHANGED ignored_rules => IgnoredAs(ident, n)' = IgnoredAs(ident, n)
  BY DEF IgnoredAs
<1>7. CASE UNCHANGED <<declared, accepted, ignored_rules>> /\ CurrentAs(ident, n)' = c
  BY <1>4, <1>5, <1>6, <1>7
<1>8. CASE \/ AddSource \/ Build \/ EndSource \/ (\E v \in Variables : DefineGlobal(v))
           \/ (\E k \in Namespaces : NewNamespace(k)) \/ (\E f \in Files : IncludeItem(f))
           \/ (\E m \in ModuleNames : ImportItem(m))
  <2>1. UNCHANGED <<declared, accepted, ignored_rules>>
    BY <1>8 DEF AddSource, Build, EndSource, DefineGlobal, NewNamespace, IncludeItem, ImportItem, control
  <2>2. pc \notin RulePcs /\ pc' \notin RulePcs
    BY <1>8 DEF AddSource, Build, EndSource, DefineGlobal, NewNamespace, IncludeItem, ImportItem,
       Call, Item, RulePcs
  <2>3. CurrentAs(ident, n)' = c
    BY <2>2 DEF CurrentAs
  <2> QED
    BY <1>7, <2>1, <2>3
<1>9. CASE \/ Passes \/ ConditionFromAst \/ Assigns \/ PushRule \/ NextPattern \/ CRegexp
           \/ AddSubPattern \/ FinishPattern
  <2>1. UNCHANGED <<declared, accepted, ignored_rules, namespace>>
    BY <1>9 DEF Passes, ConditionFromAst, Assigns, PushRule, NextPattern, CRegexp, AddSubPattern,
       FinishPattern, control, names
  <2>2. pc \in RulePcs
    BY <1>9 DEF Passes, ConditionFromAst, Assigns, PushRule, NextPattern, CRegexp, AddSubPattern,
       FinishPattern, RulePcs
  <2>3. pc' \in RulePcs
    <3>1. CASE FinishPattern
      BY <3>1 DEF FinishPattern, IInv, BoundInv, RulePcs
    <3>2. CASE ~FinishPattern
      BY <1>9, <3>2 DEF Passes, ConditionFromAst, Assigns, PushRule, NextPattern, CRegexp,
         AddSubPattern, RulePcs
    <3> QED
      BY <3>1, <3>2
  <2>4. cur'.rule = cur.rule
    BY <1>1, <1>9 DEF Passes, ConditionFromAst, Assigns, PushRule, NextPattern, CRegexp,
       AddSubPattern, FinishPattern, CurFields
  <2>5. CurrentAs(ident, n)' = c
    BY <2>1, <2>2, <2>3, <2>4 DEF CurrentAs
  <2> QED
    BY <1>7, <2>1, <2>5
<1>10. ASSUME NEW d, NEW kind, NEW others, Reject(d, kind, others)
       PROVE  Cardinality(IgnoredAs(ident, n)') =
                g + IF d.ident = ident /\ namespace.id = n THEN 1 ELSE 0
  <2> DEFINE e == Ignored(d.ident, "CompileError", None, Len(errors) + others)
  <2>1. ignored_rules' = Append(ignored_rules, e)
    BY <1>10 DEF Reject
  <2>2. e.rule = d.ident /\ e.namespace = namespace.id
    BY DEF Ignored
  <2> HIDE DEF e
  <2> QED
    BY <1>1, <2>1, <2>2, IgnoredOnce
<1>11. CASE \E d \in Decls : \E kind, others : Rejects(d, kind, others)
  <2>0. PICK d \in Decls : \E kind, others : Rejects(d, kind, others)
    BY <1>11
  <2>1. PICK kind, others : Rejects(d, kind, others)
    BY <2>0
  <2>2. c = 0 /\ CurrentAs(ident, n)' = 0 /\ UNCHANGED accepted
    BY <2>1 DEF Rejects, CurrentAs, RulePcs
  <2>3. TimesDeclared(ident, n)' =
          IF d.ident = ident /\ namespace.id = n THEN TimesDeclared(ident, n) + 1
          ELSE TimesDeclared(ident, n)
    BY <2>1, DeclaredOnce DEF Rejects
  <2>4. Cardinality(IgnoredAs(ident, n)') =
          g + IF d.ident = ident /\ namespace.id = n THEN 1 ELSE 0
    BY <1>10, <2>1 DEF Rejects
  <2>5. Cardinality(AcceptedAs(ident, n)') = a
    BY <1>5, <2>2
  <2> HIDE DEF a, g, c
  <2> QED
    BY <1>2, <1>3, <2>2, <2>3, <2>4, <2>5
<1>12. CASE \E d \in Decls : Takes(d)
  <2>1. PICK d \in Decls : Takes(d)
    BY <1>12
  <2>2. c = 0 /\ UNCHANGED <<accepted, ignored_rules, namespace>>
    BY <2>1 DEF Takes, CurrentAs, RulePcs, names
  <2>3. cur'.rule = d /\ pc' \in RulePcs
    BY <2>1, RuleFields DEF Takes, RulePcs
  <2>4. CurrentAs(ident, n)' = IF d.ident = ident /\ namespace.id = n THEN 1 ELSE 0
    BY <2>2, <2>3 DEF CurrentAs
  <2>5. TimesDeclared(ident, n)' =
          IF d.ident = ident /\ namespace.id = n THEN TimesDeclared(ident, n) + 1
          ELSE TimesDeclared(ident, n)
    BY <2>1, DeclaredOnce DEF Takes
  <2>6. Cardinality(AcceptedAs(ident, n)') = a /\ Cardinality(IgnoredAs(ident, n)') = g
    BY <1>5, <1>6, <2>2
  <2> HIDE DEF a, g, c
  <2> QED
    BY <1>2, <1>3, <2>2, <2>4, <2>5, <2>6
<1>13. CASE Rollback /\ Cardinality(IgnoredAs(ident, n)') =
                          g + IF cur.rule.ident = ident /\ namespace.id = n THEN 1 ELSE 0
  <2>1. UNCHANGED <<declared, accepted>> /\ CurrentAs(ident, n)' = 0
    BY <1>13 DEF Rollback, control, CurrentAs, RulePcs
  <2>2. c = IF cur.rule.ident = ident /\ namespace.id = n THEN 1 ELSE 0
    BY <1>13 DEF Rollback, CurrentAs
  <2>3. Cardinality(AcceptedAs(ident, n)') = a
    BY <1>5, <2>1
  <2>4. TimesDeclared(ident, n)' = a + g + c
    BY <1>4, <2>1
  <2> HIDE DEF a, g, c
  <2> QED
    BY <1>3, <1>13, <2>1, <2>2, <2>3, <2>4
<1>14. CASE \E kind : Fails(kind)
  BY <1>10, <1>13, <1>14 DEF Fails
<1>15. CASE \E reason, what, module : Ignores(reason, what, module)
  <2>1. PICK reason, what, module : Ignores(reason, what, module)
    BY <1>15
  <2> DEFINE e == Ignored(cur.rule.ident, reason, what, 0)
  <2>2. ignored_rules' = Append(ignored_rules, e) /\ Rollback
    BY <2>1 DEF Ignores
  <2>3. e.rule = cur.rule.ident /\ e.namespace = namespace.id
    BY DEF Ignored
  <2> HIDE DEF e
  <2>4. Cardinality(IgnoredAs(ident, n)') =
          g + IF cur.rule.ident = ident /\ namespace.id = n THEN 1 ELSE 0
    BY <1>1, <2>2, <2>3, IgnoredOnce
  <2> QED
    BY <1>13, <2>2, <2>4
<1>16. CASE CommitRule
  <2> DEFINE e == [rule |-> cur.rule, namespace |-> namespace.id]
  <2>1. accepted' = Append(accepted, e) /\ UNCHANGED <<declared, ignored_rules>>
    BY <1>16 DEF CommitRule, control
  <2>2. e.rule = cur.rule /\ e.namespace = namespace.id
    OBVIOUS
  <2> HIDE DEF e
  <2>3. Cardinality(AcceptedAs(ident, n)') =
          a + IF cur.rule.ident = ident /\ namespace.id = n THEN 1 ELSE 0
    BY <1>1, <2>1, <2>2, AcceptedOnce
  <2>4. c = IF cur.rule.ident = ident /\ namespace.id = n THEN 1 ELSE 0
    BY <1>16 DEF CommitRule, CurrentAs, RulePcs
  <2>5. CurrentAs(ident, n)' = 0
    BY <1>16 DEF CommitRule, CurrentAs, RulePcs
  <2>6. TimesDeclared(ident, n)' = a + g + c /\ Cardinality(IgnoredAs(ident, n)') = g
    BY <1>4, <1>6, <2>1
  <2> HIDE DEF a, g, c
  <2> QED
    BY <1>3, <2>3, <2>4, <2>5, <2>6
<1> QED
  BY <1>8, <1>9, <1>11, <1>12, <1>14, <1>15, <1>16 DEF Step

LEMMA DeclaredImpliesAccounted ==
  ASSUME IInv
  PROVE  RulesAreAccountedFor
<1> SUFFICES ASSUME AtRest, NEW ident \in Idents, NEW n \in 0..namespace.id
             PROVE  TimesDeclared(ident, n) =
                      Cardinality({i \in DOMAIN accepted : accepted[i].rule.ident = ident
                                                           /\ accepted[i].namespace = n})
                      + Cardinality({i \in DOMAIN ignored_rules : ignored_rules[i].rule = ident
                                                                  /\ ignored_rules[i].namespace = n})
  BY DEF RulesAreAccountedFor
<1>1. IsSeq(accepted) /\ IsSeq(ignored_rules)
  BY DEF IInv, RuleInv, IgnoredInv
<1>2. DOMAIN accepted = 1..Len(accepted) /\ DOMAIN ignored_rules = 1..Len(ignored_rules)
  BY <1>1, SeqIs
<1>3. CurrentAs(ident, n) = 0
  BY DEF AtRest, CurrentAs, RulePcs
<1>4. /\ Cardinality(AcceptedAs(ident, n)) \in Nat /\ Cardinality(IgnoredAs(ident, n)) \in Nat
      /\ TimesDeclared(ident, n) =
           Cardinality(AcceptedAs(ident, n)) + Cardinality(IgnoredAs(ident, n)) + CurrentAs(ident, n)
  BY <1>1, CountsAreNat DEF IInv, DeclaredInv
<1>5. TimesDeclared(ident, n) = Cardinality(AcceptedAs(ident, n)) + Cardinality(IgnoredAs(ident, n))
  BY <1>3, <1>4
<1> QED
  BY <1>2, <1>5 DEF AcceptedAs, IgnoredAs

-----------------------------------------------------------------------------
(* Ignored rules                                                           *)

LEMMA ReasonsStay ==
  ASSUME NEW igs, IsSeq(igs), NEW igs2, IsSeq(igs2), Extends(igs2, igs),
         NEW errs, IsSeq(errs), NEW errs2, IsSeq(errs2), Extends(errs2, errs),
         NEW i \in 1..Len(igs), Reason(igs, errs, i)
  PROVE  Reason(igs2, errs2, i)
<1>1. Len(igs) \in Nat /\ Len(errs) \in Nat /\ Len(errs2) \in Nat /\ Len(errs) <= Len(errs2)
  BY SeqIs DEF Extends
<1>2. igs2[i] = igs[i] /\ \A j \in 1..(i - 1) : igs2[j] = igs[j]
  BY <1>1 DEF Extends
<1>3. \A k \in Nat : k < Len(errs) => errs2[k + 1] = errs[k + 1] /\ k < Len(errs2)
  BY <1>1 DEF Extends
<1> QED
  BY <1>2, <1>3 DEF Reason

\* The entry of a rule that fails leads to its error.
LEMMA RejectHasReason ==
  ASSUME IsSeq(errors), IsSeq(ignored_rules), NEW d, NEW kind, NEW others \in Nat,
         kind # "OtherLinterError", Reject(d, kind, others)
  PROVE  /\ IsSeq(ignored_rules') /\ Extends(ignored_rules', ignored_rules)
         /\ Len(ignored_rules') = Len(ignored_rules) + 1
         /\ Reason(ignored_rules', errors', Len(ignored_rules) + 1)
<1> DEFINE n == Len(errors)
           t == Repeat(others, Error(d.ident, "OtherLinterError"))
           u == errors \o t
           e == Error(d.ident, kind)
           g == Ignored(d.ident, "CompileError", None, n + others)
<1>1. n \in Nat /\ IsSeq(t) /\ Len(t) = others
  BY RepeatIs, SeqIs
<1>2. IsSeq(u) /\ Len(u) = n + others
  BY <1>1, ConcatIs
<1>3. ignored_rules' = Append(ignored_rules, g) /\ errors' = u \o <<e>>
  BY DEF Reject
<1>4. e.of = d.ident /\ e.kind = kind
  BY DEF Error
<1>5. g.reason = "CompileError" /\ g.index = n + others /\ g.rule = d.ident
  BY DEF Ignored
<1> HIDE DEF t, u, e, g, n
<1>6. IsSeq(<<e>>) /\ Len(<<e>>) = 1 /\ <<e>>[1] = e
  BY OneIs
<1>7. 1 \in 1..Len(<<e>>)
  BY <1>6
<1>8. Len(errors') = (n + others) + 1 /\ errors'[(n + others) + 1] = e
  BY <1>2, <1>3, <1>6, <1>7, ConcatIs
<1>9. /\ IsSeq(ignored_rules') /\ Extends(ignored_rules', ignored_rules)
      /\ Len(ignored_rules') = Len(ignored_rules) + 1
      /\ ignored_rules'[Len(ignored_rules) + 1] = g
  BY <1>3, AppendIs
<1>10. n + others \in Nat /\ n + others < (n + others) + 1
  BY <1>1
<1>11. Reason(ignored_rules', errors', Len(ignored_rules) + 1)
  BY <1>4, <1>5, <1>8, <1>9, <1>10 DEF Reason
<1> QED
  BY <1>9, <1>11

LEMMA IgnoredStep ==
  ASSUME IInv, Step
  PROVE  IgnoredInv'
<1>1. /\ IsSeq(errors) /\ IsSeq(ignored_rules) /\ Len(ignored_rules) \in Nat
      /\ \A i \in 1..Len(ignored_rules) : Reason(ignored_rules, errors, i)
      /\ \A x \in DOMAIN rules_depending_on_unsupported_modules : IgnoredHere(x)
  BY SeqIs DEF IInv, IgnoredInv
<1>2. IsSeq(errors') /\ Extends(errors', errors)
  BY ErrorsGrow
\* The condition of the rule has no error that is another rule's.
<1>3. cur'.cond # <<>> => cur'.cond[1] # "OtherLinterError"
  <2>1. cur.cond # <<>> => cur.cond[1] # "OtherLinterError"
    BY DEF IInv, IgnoredInv
  <2>2. DOMAIN cur = CurFields
    BY DEF IInv, Shape
  <2>3. CASE ConditionFromAst
    <3>1. \/ cur'.cond = <<>> \/ cur'.cond = <<"BadCondition">>
          \/ \E x : cur'.cond = <<"UnknownIdentifier", x>>
      BY <2>2, <2>3 DEF ConditionFromAst, CurFields
    <3> QED
      BY <3>1
  <2>4. CASE Rollback \/ CommitRule \/ \E d \in Decls : Takes(d)
    <3>1. cur'.cond = <<>>
      BY <2>4, RuleFields DEF Rollback, CommitRule, Takes, NoRule
    <3> QED
      BY <3>1
  <2>5. CASE Assigns \/ PushRule \/ NextPattern \/ CRegexp \/ AddSubPattern \/ FinishPattern
    <3>1. cur'.cond = cur.cond
      BY <2>2, <2>5 DEF Assigns, PushRule, NextPattern, CRegexp, AddSubPattern, FinishPattern,
                        CurFields
    <3> QED
      BY <2>1, <3>1
  <2>6. CASE UNCHANGED cur
    BY <2>1, <2>6
  <2> QED
    BY <2>3, <2>4, <2>5, <2>6
       DEF Step, Fails, Ignores, AddSource, Build, EndSource, DefineGlobal, NewNamespace, IncludeItem,
           ImportItem, Rejects, Passes
<1> DEFINE Kept == \A x \in DOMAIN rules_depending_on_unsupported_modules' : IgnoredHere(x)'
           More == /\ IsSeq(ignored_rules') /\ Extends(ignored_rules', ignored_rules)
                   /\ \A i \in 1..Len(ignored_rules') : i > Len(ignored_rules) =>
                        Reason(ignored_rules', errors', i)
<1>4. ASSUME More, Kept PROVE IgnoredInv'
  <2>1. ASSUME NEW i \in 1..Len(ignored_rules') PROVE Reason(ignored_rules', errors', i)
    <3>1. Len(ignored_rules') \in Nat
      BY <1>4, SeqIs
    <3>2. CASE i > Len(ignored_rules)
      BY <1>4, <3>2
    <3>3. CASE ~(i > Len(ignored_rules))
      <4>1. i \in 1..Len(ignored_rules)
        BY <1>1, <3>1, <3>3
      <4>2. Reason(ignored_rules, errors, i)
        BY <1>1, <4>1
      <4> HIDE DEF Kept
      <4> QED
        BY <1>1, <1>2, <1>4, <4>1, <4>2, ReasonsStay
    <3> QED
      BY <3>2, <3>3
  <2> QED
    BY <1>2, <1>3, <1>4, <2>1 DEF IgnoredInv
\* A rule ignored because of a module stays so in its namespace.
<1>5. ASSUME More, UNCHANGED <<rules_depending_on_unsupported_modules, namespace>> PROVE Kept
  <2> SUFFICES ASSUME NEW x \in DOMAIN rules_depending_on_unsupported_modules PROVE IgnoredHere(x)'
    BY <1>5
  <2>1. IgnoredHere(x)
    BY <1>1
  <2>2. Len(ignored_rules') \in Nat /\ Len(ignored_rules) <= Len(ignored_rules')
    BY <1>5, SeqIs DEF Extends
  <2>3. \A j \in 1..Len(ignored_rules) : ignored_rules'[j] = ignored_rules[j] /\ j \in 1..Len(ignored_rules')
    BY <1>1, <1>5, <2>2 DEF Extends
  <2> QED
    BY <1>5, <2>1, <2>3 DEF IgnoredHere
<1>6. CASE UNCHANGED <<ignored_rules, rules_depending_on_unsupported_modules, namespace>>
  <2>1. More
    BY <1>1, <1>6 DEF Extends
  <2> HIDE DEF More, Kept
  <2> QED
    BY <1>4, <1>5, <1>6, <2>1
<1>7. ASSUME NEW d, NEW kind, NEW others \in Nat, kind # "OtherLinterError", Reject(d, kind, others),
             UNCHANGED <<rules_depending_on_unsupported_modules, namespace>>
      PROVE  IgnoredInv'
  <2>1. /\ IsSeq(ignored_rules') /\ Extends(ignored_rules', ignored_rules)
        /\ Len(ignored_rules') = Len(ignored_rules) + 1
        /\ Reason(ignored_rules', errors', Len(ignored_rules) + 1)
    BY <1>1, <1>7, RejectHasReason
  <2>2. ASSUME NEW i \in 1..Len(ignored_rules'), i > Len(ignored_rules)
        PROVE  Reason(ignored_rules', errors', i)
    <3>1. i = Len(ignored_rules) + 1
      BY <1>1, <2>1, <2>2
    <3> QED
      BY <2>1, <3>1
  <2>3. More
    BY <2>1, <2>2
  <2> HIDE DEF More, Kept
  <2> QED
    BY <1>4, <1>5, <1>7, <2>3
<1>8. CASE \E d \in Decls : \E kind, others : Rejects(d, kind, others)
  <2>1. PICK d, kind, others : Rejects(d, kind, others)
    BY <1>8
  <2> QED
    BY <1>7, <2>1 DEF Rejects, names
<1>9. CASE \E kind : Fails(kind)
  <2>1. PICK kind : Fails(kind)
    BY <1>9
  <2>2. 0 \in Nat
    OBVIOUS
  <2> QED
    BY <1>7, <2>1, <2>2 DEF Fails, Rollback, names
<1>10. CASE \E reason, what, module : Ignores(reason, what, module)
  <2>1. PICK reason, what, module : Ignores(reason, what, module)
    BY <1>10
  <2> DEFINE g == Ignored(cur.rule.ident, reason, what, 0)
             n == Len(ignored_rules)
  <2>2. /\ IsSeq(ignored_rules') /\ Extends(ignored_rules', ignored_rules)
        /\ Len(ignored_rules') = n + 1 /\ ignored_rules'[n + 1] = g
    BY <1>1, <2>1, AppendIs DEF Ignores
  <2>3. g.rule = cur.rule.ident /\ g.reason = reason /\ g.what = what /\ g.namespace = namespace.id
    BY DEF Ignored
  <2>4. UNCHANGED namespace /\ reason \in {"IgnoredModule", "IgnoredRule"}
    BY <2>1 DEF Ignores, Rollback, names
  <2>5. n \in Nat /\ \A j \in 1..n : ignored_rules'[j] = ignored_rules[j]
    BY <1>1, <2>2 DEF Extends
  <2> HIDE DEF g, n
  <2>6. Reason(ignored_rules', errors', n + 1)
    <3>1. CASE reason = "IgnoredModule" /\ what \in IgnoredModules
      BY <2>2, <2>3, <3>1 DEF Reason
    <3>2. CASE reason = "IgnoredRule" /\ what \in DOMAIN rules_depending_on_unsupported_modules
      <4>1. PICK j \in 1..n : /\ ignored_rules[j].rule = what
                              /\ ignored_rules[j].namespace = namespace.id
                              /\ ignored_rules[j].reason # "CompileError"
        BY <1>1, <3>2 DEF IgnoredHere, n
      <4>2. j \in 1..((n + 1) - 1) /\ ignored_rules'[j] = ignored_rules[j]
        BY <2>5, <4>1
      <4> QED
        BY <2>2, <2>3, <3>2, <4>1, <4>2 DEF Reason
    <3> QED
      BY <2>1, <3>1, <3>2 DEF Ignores
  <2>7. ASSUME NEW i \in 1..Len(ignored_rules'), i > n PROVE Reason(ignored_rules', errors', i)
    <3>1. i = n + 1
      BY <2>2, <2>5, <2>7
    <3> QED
      BY <2>6, <3>1
  <2>8. More
    BY <2>2, <2>7 DEF n
  <2>9. ASSUME NEW x \in DOMAIN rules_depending_on_unsupported_modules' PROVE IgnoredHere(x)'
    <3>1. CASE x = cur.rule.ident
      <4>1. n + 1 \in 1..Len(ignored_rules')
        BY <2>2, <2>5
      <4> QED
        BY <2>2, <2>3, <2>4, <3>1, <4>1 DEF IgnoredHere
    <3>2. CASE x # cur.rule.ident
      <4>1. x \in DOMAIN rules_depending_on_unsupported_modules
        BY <2>1, <2>9, <3>2 DEF Ignores, Put
      <4>2. IgnoredHere(x)
        BY <1>1, <4>1
      <4>3. \A j \in 1..n : ignored_rules'[j] = ignored_rules[j] /\ j \in 1..Len(ignored_rules')
        BY <2>2, <2>5
      <4> QED
        BY <2>4, <4>2, <4>3 DEF IgnoredHere, n
    <3> QED
      BY <3>1, <3>2
  <2>10. Kept
    BY <2>9
  <2> HIDE DEF More, Kept
  <2> QED
    BY <1>4, <2>8, <2>10
<1>11. CASE \E n \in Namespaces : NewNamespace(n)
  <2>1. UNCHANGED ignored_rules /\ rules_depending_on_unsupported_modules' = Empty
    BY <1>11 DEF NewNamespace
  <2>2. More
    BY <1>1, <2>1 DEF Extends
  <2>3. Kept
    BY <2>1 DEF Empty
  <2> HIDE DEF More, Kept
  <2> QED
    BY <1>4, <2>2, <2>3
<1>12. CASE \/ AddSource \/ Build \/ EndSource \/ (\E v \in Variables : DefineGlobal(v))
            \/ (\E f \in Files : IncludeItem(f)) \/ (\E m \in ModuleNames : ImportItem(m))
            \/ (\E d \in Decls : Takes(d))
            \/ Passes \/ ConditionFromAst \/ Assigns \/ PushRule \/ NextPattern \/ CRegexp
            \/ AddSubPattern \/ FinishPattern \/ CommitRule
  BY <1>6, <1>12 DEF AddSource, Build, EndSource, DefineGlobal, IncludeItem, ImportItem, Takes, Passes,
     ConditionFromAst, Assigns, PushRule, NextPattern, CRegexp, AddSubPattern, FinishPattern, CommitRule,
     names
<1> QED
  BY <1>8, <1>9, <1>10, <1>11, <1>12 DEF Step

LEMMA IgnoredImpliesReasons ==
  ASSUME IgnoredInv
  PROVE  IgnoredRulesHaveReasons
<1> SUFFICES ASSUME NEW i \in DOMAIN ignored_rules
             PROVE  LET g == ignored_rules[i] IN
                      CASE g.reason = "CompileError" ->
                             /\ g.index < Len(errors)
                             /\ errors[g.index + 1].of = g.rule
                             /\ errors[g.index + 1].kind # "OtherLinterError"
                        [] g.reason = "IgnoredModule" -> g.what \in IgnoredModules
                        [] g.reason = "IgnoredRule" ->
                             \E j \in 1..(i - 1) : /\ ignored_rules[j].rule = g.what
                                                   /\ ignored_rules[j].namespace = g.namespace
                                                   /\ ignored_rules[j].reason # "CompileError"
  BY DEF IgnoredRulesHaveReasons
<1>1. Reason(ignored_rules, errors, i)
  BY SeqIs DEF IgnoredInv
<1> QED
  BY <1>1 DEF Reason
-----------------------------------------------------------------------------
(* Includes and names                                                      *)

LEMMA IncludeStep ==
  ASSUME IInv, Step
  PROVE  IncludeInv'
<1>1. /\ IsSeq(include_stack) /\ IsInjective(include_stack) /\ Len(include_stack) \in Nat
      /\ DOMAIN include_stack = 1..Len(include_stack)
      /\ Len(include_stack) = IF frames = <<>> THEN 0 ELSE Len(frames) - 1
      /\ IsSeq(frames) /\ Len(frames) \in Nat /\ (frames = <<>> <=> Len(frames) = 0)
  BY SeqIs DEF IInv, IncludeInv, IncludesNest, Shape
<1>2. frames = <<>> <=> pc \in {"idle", "built"}
  BY DEF IInv, Shape
<1>3. CASE UNCHANGED <<include_stack, frames>>
  BY <1>1, <1>3 DEF IncludeInv, IncludesNest
<1>4. CASE AddSource
  <2>1. UNCHANGED frames \/ frames' = <<[existing_errors |-> Len(errors)]>>
    BY <1>4 DEF AddSource
  <2>2. UNCHANGED include_stack /\ frames = <<>>
    BY <1>2, <1>4 DEF AddSource, Call
  <2>3. CASE frames' = <<[existing_errors |-> Len(errors)]>>
    <3>1. IsSeq(frames') /\ Len(frames') = 1
      BY <2>3, OneIs
    <3>2. frames' # <<>>
      BY <3>1, SeqIs
    <3> QED
      BY <1>1, <2>2, <3>1, <3>2 DEF IncludeInv, IncludesNest
  <2> QED
    BY <1>3, <2>1, <2>2, <2>3
<1>5. CASE EndSource
  <2>1. frames # <<>> /\ frames' = Front(frames)
    BY <1>2, <1>5 DEF EndSource
  <2>2. IsSeq(frames') /\ Len(frames') = Len(frames) - 1 /\ (frames' = <<>> <=> Len(frames') = 0)
    BY <1>1, <2>1, FrontIs, SeqIs
  <2>3. CASE Len(frames) > 1
    <3>1. include_stack' = Front(include_stack) /\ include_stack # <<>>
      BY <1>1, <1>5, <2>1, <2>3, SeqIs DEF EndSource
    <3>2. /\ IsSeq(include_stack') /\ Len(include_stack') = Len(include_stack) - 1
          /\ DOMAIN include_stack' = 1..Len(include_stack')
          /\ \A i \in 1..(Len(include_stack) - 1) : include_stack'[i] = include_stack[i]
      BY <1>1, <3>1, FrontIs, SeqIs
    <3>3. IsInjective(include_stack')
      BY <1>1, <3>2 DEF IsInjective
    <3> QED
      BY <1>1, <2>1, <2>2, <2>3, <3>2, <3>3 DEF IncludeInv, IncludesNest
  <2>4. CASE ~(Len(frames) > 1)
    <3>1. UNCHANGED include_stack /\ Len(frames) = 1
      BY <1>1, <1>5, <2>1, <2>4 DEF EndSource
    <3> QED
      BY <1>1, <2>1, <2>2, <3>1 DEF IncludeInv, IncludesNest
  <2> QED
    BY <2>3, <2>4
<1>6. CASE \E f \in Files : IncludeItem(f)
  <2>1. PICK f \in Files : IncludeItem(f)
    BY <1>6
  <2>2. frames # <<>>
    BY <1>2, <2>1 DEF IncludeItem, Item
  <2>3. CASE ~Circular(f) /\ include_stack' = Append(include_stack, f)
             /\ frames' = Append(frames, [existing_errors |-> Len(errors)])
    <3>1. /\ IsSeq(include_stack') /\ Len(include_stack') = Len(include_stack) + 1
          /\ \A i \in 1..Len(include_stack) : include_stack'[i] = include_stack[i]
          /\ include_stack'[Len(include_stack) + 1] = f
          /\ Len(frames') = Len(frames) + 1 /\ frames' # <<>>
      BY <1>1, <2>3, AppendIs
    <3>2. DOMAIN include_stack' = 1..(Len(include_stack) + 1)
      BY <3>1, SeqIs
    <3>3. \A i \in 1..Len(include_stack) : include_stack[i] # f
      BY <1>1, <2>3 DEF Circular, ToSet
    <3>4. ASSUME NEW i \in DOMAIN include_stack', NEW j \in DOMAIN include_stack',
                 include_stack'[i] = include_stack'[j]
          PROVE  i = j
      <4>1. /\ i \in 1..Len(include_stack) \/ i = Len(include_stack) + 1
            /\ j \in 1..Len(include_stack) \/ j = Len(include_stack) + 1
        BY <1>1, <3>2
      <4> QED
        BY <1>1, <3>1, <3>3, <3>4, <4>1 DEF IsInjective
    <3>5. IsInjective(include_stack')
      BY <3>4 DEF IsInjective
    <3> QED
      BY <1>1, <2>2, <3>1, <3>5 DEF IncludeInv, IncludesNest
  <2>4. CASE UNCHANGED <<frames, include_stack>>
    BY <1>3, <2>4
  <2> QED
    BY <2>1, <2>3, <2>4 DEF IncludeItem
<1>7. CASE \/ Build \/ (\E v \in Variables : DefineGlobal(v)) \/ (\E n \in Namespaces : NewNamespace(n))
           \/ (\E m \in ModuleNames : ImportItem(m))
           \/ (\E d \in Decls : \E kind, others : Rejects(d, kind, others))
           \/ (\E d \in Decls : Takes(d)) \/ Rollback
           \/ Passes \/ ConditionFromAst \/ Assigns \/ PushRule \/ NextPattern \/ CRegexp
           \/ AddSubPattern \/ FinishPattern \/ CommitRule
  BY <1>3, <1>7 DEF Build, DefineGlobal, NewNamespace, ImportItem, Rejects, Takes, Rollback, Passes,
     ConditionFromAst, Assigns, PushRule, NextPattern, CRegexp, AddSubPattern, FinishPattern, CommitRule,
     control
<1> QED
  BY <1>4, <1>5, <1>6, <1>7 DEF Step, Fails, Ignores

\* What a name may refer to only grows within a namespace.
LEMMA ResolvedStays ==
  ASSUME NEW x, Resolved(x), IsSeq(accepted), IsSeq(accepted'), Extends(accepted', accepted),
         DOMAIN root_struct \subseteq DOMAIN root_struct', UNCHANGED namespace
  PROVE  Resolved(x)'
<1>1. \A j \in 1..Len(accepted) : j \in 1..Len(accepted') /\ accepted'[j] = accepted[j]
  BY SeqIs DEF Extends
<1> QED
  BY <1>1 DEF Resolved

LEMMA ReferencesStay ==
  ASSUME ReferencesResolve, IsSeq(accepted), DOMAIN root_struct \subseteq DOMAIN root_struct',
         UNCHANGED accepted
  PROVE  ReferencesResolve'
BY DEF ReferencesResolve

\* The steps that leave symbols, names and the rule as they are.
LEMMA NamesStay ==
  ASSUME NameInv, Shape, UNCHANGED <<symbol_table, root_struct, namespace, accepted>>,
         pc' \in RestPcs \cup {"patterns", "condition"} => Len(symbol_table) = 2,
         pc' \in RulePcs => /\ pc \in RulePcs
                            /\ cur'.rule = cur.rule /\ cur'.snapshot = cur.snapshot,
         pc' \in {"slow", "result"} => pc \in {"slow", "result"} /\ cur'.cond = cur.cond,
         pc' \in {"assign"} \cup PushedPcs => Len(symbol_table) = 2 /\ ResolvedRefs(cur.rule)
  PROVE  NameInv'
<1>1. ReferencesResolve'
  BY ReferencesStay DEF NameInv
<1>2. (\A x : Resolved(x)' <=> Resolved(x))
  BY DEF Resolved
<1>3. pc' \in RulePcs => (ResolvedRefs(cur.rule)' <=> ResolvedRefs(cur.rule))
  BY <1>2 DEF ResolvedRefs
<1>4. {"slow", "result"} \subseteq RulePcs /\ {"assign"} \cup PushedPcs \subseteq RulePcs
  BY DEF RulePcs, PushedPcs
<1>5. pc' \in {"slow", "result"} /\ cur'.cond = <<>> => Len(symbol_table') = 2 /\ ResolvedRefs(cur.rule)'
  BY <1>3, <1>4 DEF NameInv
<1>6. pc' \in {"assign"} \cup PushedPcs => Len(symbol_table') = 2 /\ ResolvedRefs(cur.rule)'
  BY <1>3, <1>4
<1>7. \A x \in DOMAIN symbol_table'[2] : Resolved(x)'
  BY <1>2 DEF NameInv
<1>8. pc' \in RulePcs => /\ cur'.snapshot.symbol_table_len = 2
                         /\ cur'.rule.ident \notin DOMAIN symbol_table'[2]
  BY DEF NameInv
<1>9. IsSeq(symbol_table') /\ IsSeq(accepted') /\ Len(symbol_table') >= 2
      /\ (pc' \in RestPcs \cup {"patterns", "condition"} => Len(symbol_table') = 2)
      /\ DOMAIN symbol_table'[1] \subseteq DOMAIN root_struct'
  BY DEF NameInv
<1> QED
  BY <1>1, <1>5, <1>6, <1>7, <1>8, <1>9 DEF NameInv

\* The steps between rules that may add names.
LEMMA NamesGrow ==
  ASSUME NameInv, pc' \in RestPcs, IsSeq(symbol_table'), Len(symbol_table') = 2,
         UNCHANGED accepted, DOMAIN root_struct \subseteq DOMAIN root_struct',
         DOMAIN symbol_table'[1] \subseteq DOMAIN root_struct',
         \A x \in DOMAIN symbol_table'[2] : Resolved(x)'
  PROVE  NameInv'
<1>1. ReferencesResolve'
  BY ReferencesStay DEF NameInv
<1>2. pc' \notin RulePcs /\ pc' \notin {"slow", "result"} /\ pc' \notin {"assign"} \cup PushedPcs
  BY DEF RestPcs, RulePcs, PushedPcs
<1> QED
  BY <1>1, <1>2 DEF NameInv
\* A condition with no unknown name refers to what is in the two lower tables.
LEMMA ConditionResolves ==
  ASSUME IInv, ConditionFromAst
  PROVE  /\ IsSeq(symbol_table') /\ Len(symbol_table') >= 2
         /\ symbol_table'[1] = symbol_table[1] /\ symbol_table'[2] = symbol_table[2]
         /\ cur'.rule = cur.rule /\ cur'.snapshot = cur.snapshot
         /\ cur'.cond = <<>> => Len(symbol_table') = 2 /\ ResolvedRefs(cur.rule)
<1>1. pc = "condition" /\ IsSeq(symbol_table) /\ Len(symbol_table) = 2
  BY DEF ConditionFromAst, IInv, NameInv
<1>2. DOMAIN symbol_table = 1..2
  BY <1>1, SeqIs
<1>3. DOMAIN cur = CurFields
  BY DEF IInv, Shape
<1> DEFINE cond == cur.rule.condition
           unknown == {i \in DOMAIN cond.refs : ~Known(cond.refs[i]) /\ cond.refs[i] \notin cond.loop}
<1>4. cur'.rule = cur.rule /\ cur'.snapshot = cur.snapshot
  BY <1>3 DEF ConditionFromAst, CurFields
<1>5. cur'.cond = <<>> => unknown = {}
  BY <1>3 DEF ConditionFromAst, CurFields
<1>6. UNCHANGED symbol_table \/ \E e : symbol_table' = Append(symbol_table, e)
  BY DEF ConditionFromAst
<1>7. 1 \in 1..Len(symbol_table) /\ 2 \in 1..Len(symbol_table)
  BY <1>1
<1>8. /\ IsSeq(symbol_table') /\ Len(symbol_table') >= 2
      /\ symbol_table'[1] = symbol_table[1] /\ symbol_table'[2] = symbol_table[2]
  <2>1. CASE UNCHANGED symbol_table
    BY <1>1, <2>1
  <2>2. CASE \E e : symbol_table' = Append(symbol_table, e)
    <3>1. PICK e : symbol_table' = Append(symbol_table, e)
      BY <2>2
    <3>2. IsSeq(symbol_table') /\ Len(symbol_table') = Len(symbol_table) + 1
      BY <1>1, <3>1, AppendIs
    <3> QED
      BY <1>1, <1>7, <3>1, <3>2, AppendIs
  <2> QED
    BY <1>6, <2>1, <2>2
<1>9. ASSUME NEW x, Known(x) PROVE Resolved(x)
  <2>1. x \in DOMAIN symbol_table[1] \/ x \in DOMAIN symbol_table[2]
    <3>1. PICK i \in DOMAIN symbol_table : x \in DOMAIN symbol_table[i]
      BY <1>9 DEF Known
    <3>2. i = 1 \/ i = 2
      BY <1>2, <3>1
    <3> QED
      BY <3>1, <3>2
  <2> QED
    BY <2>1 DEF IInv, NameInv, Resolved
<1>10. ASSUME cur'.cond = <<>> PROVE Len(symbol_table') = 2
  <2>1. UNCHANGED symbol_table
    BY <1>3, <1>10 DEF ConditionFromAst, CurFields
  <2> QED
    BY <1>1, <2>1
<1>11. ASSUME cur'.cond = <<>> PROVE ResolvedRefs(cur.rule)
  <2> SUFFICES ASSUME NEW r \in ToSet(cond.refs) \ cond.loop PROVE Resolved(r)
    BY DEF ResolvedRefs
  <2>1. PICK i \in DOMAIN cond.refs : r = cond.refs[i]
    BY DEF ToSet
  <2>2. i \notin unknown
    BY <1>5, <1>11
  <2>3. Known(r)
    BY <2>1, <2>2
  <2> QED
    BY <1>9, <2>3
<1> QED
  BY <1>4, <1>8, <1>10, <1>11

LEMMA NameStep ==
  ASSUME IInv, Step
  PROVE  NameInv'
<1>1. NameInv /\ Shape
  BY DEF IInv
<1>2. /\ IsSeq(symbol_table) /\ IsSeq(accepted) /\ Len(symbol_table) >= 2 /\ Len(symbol_table) \in Nat
      /\ DOMAIN symbol_table = 1..Len(symbol_table)
      /\ DOMAIN symbol_table[1] \subseteq DOMAIN root_struct
      /\ \A x \in DOMAIN symbol_table[2] : Resolved(x)
  BY <1>1, SeqIs DEF NameInv
<1>3. DOMAIN cur = CurFields
  BY <1>1 DEF Shape
<1>4. 1 \in 1..Len(symbol_table) /\ 2 \in 1..Len(symbol_table)
  BY <1>2
<1>5. Extends(accepted, accepted)
  BY <1>2, SeqIs DEF Extends
<1>6. CASE \/ AddSource \/ Build \/ EndSource \/ (\E f \in Files : IncludeItem(f))
           \/ (\E d \in Decls : \E kind, others : Rejects(d, kind, others))
  <2>1. UNCHANGED <<symbol_table, root_struct, namespace, accepted>>
    BY <1>6 DEF AddSource, Build, EndSource, IncludeItem, Rejects, names
  <2>2. pc \in RestPcs /\ pc' \in RestPcs
    BY <1>6 DEF AddSource, Call, Build, EndSource, IncludeItem, Item, Rejects, RestPcs
  <2>3. Len(symbol_table) = 2
    BY <1>1, <2>2 DEF NameInv
  <2>4. pc' \notin RulePcs /\ pc' \notin {"slow", "result"} /\ pc' \notin {"assign"} \cup PushedPcs
    BY <2>2 DEF RestPcs, RulePcs, PushedPcs
  <2> QED
    BY <1>1, <2>1, <2>3, <2>4, NamesStay
<1>7. CASE \E v \in Variables : DefineGlobal(v)
  <2>1. PICK v \in Variables : DefineGlobal(v)
    BY <1>7
  <2>2. pc \in RestPcs /\ pc' \in RestPcs /\ UNCHANGED <<accepted, namespace>>
    BY <2>1 DEF DefineGlobal, Call, RestPcs
  <2>3. Len(symbol_table) = 2
    BY <1>1, <2>2 DEF NameInv
  <2>4. DOMAIN root_struct' = DOMAIN root_struct \cup {v}
    BY <2>1 DEF DefineGlobal, Put
  <2>5. /\ IsSeq(symbol_table') /\ Len(symbol_table') = 2 /\ symbol_table'[2] = symbol_table[2]
        /\ DOMAIN symbol_table'[1] \subseteq DOMAIN symbol_table[1] \cup {v}
    <3>1. CASE UNCHANGED symbol_table
      BY <1>2, <2>3, <3>1
    <3>2. CASE symbol_table' = [symbol_table EXCEPT ![1] = Put(@, v, Symbol("var", 0))]
      <4> DEFINE e == Put(symbol_table[1], v, Symbol("var", 0))
      <4>1. symbol_table' = [symbol_table EXCEPT ![1] = e]
        BY <3>2
      <4>2. DOMAIN e = DOMAIN symbol_table[1] \cup {v}
        BY DEF Put
      <4> HIDE DEF e
      <4>3. IsSeq(symbol_table') /\ Len(symbol_table') = Len(symbol_table) /\ symbol_table'[1] = e
        BY <1>2, <1>4, <4>1, ExceptIs
      <4>4. symbol_table'[2] = symbol_table[2]
        BY <1>2, <1>4, <4>1, ExceptIs
      <4> QED
        BY <2>3, <4>2, <4>3, <4>4
    <3> QED
      BY <2>1, <3>1, <3>2 DEF DefineGlobal
  <2>6. \A x \in DOMAIN symbol_table'[2] : Resolved(x)'
    BY <1>2, <1>5, <2>2, <2>4, <2>5, ResolvedStays
  <2> QED
    BY <1>1, <1>2, <2>2, <2>4, <2>5, <2>6, NamesGrow
<1>8. CASE \E n \in Namespaces : NewNamespace(n)
  <2>1. /\ symbol_table' = Append(Front(symbol_table), Empty)
        /\ UNCHANGED <<accepted, root_struct, pc>> /\ pc = "idle"
    BY <1>8 DEF NewNamespace, Call
  <2>2. Len(symbol_table) = 2 /\ pc' \in RestPcs
    BY <1>1, <2>1 DEF NameInv, RestPcs
  <2>3. symbol_table # <<>>
    BY <1>2, <2>2, SeqIs
  <2> DEFINE f == Front(symbol_table)
  <2>4. IsSeq(f) /\ Len(f) = 1 /\ f[1] = symbol_table[1]
    <3>1. /\ IsSeq(f) /\ Len(f) = Len(symbol_table) - 1
          /\ \A i \in 1..(Len(symbol_table) - 1) : f[i] = symbol_table[i]
      BY <1>2, <2>3, FrontIs
    <3>2. Len(symbol_table) - 1 = 1 /\ 1 \in 1..(Len(symbol_table) - 1)
      BY <2>2
    <3> QED
      BY <3>1, <3>2
  <2> HIDE DEF f
  <2>5. IsSeq(Append(f, Empty)) /\ Len(Append(f, Empty)) = 2 /\ Append(f, Empty)[1] = f[1]
        /\ Append(f, Empty)[2] = Empty
    <3>1. PICK e : e = Empty
      OBVIOUS
    <3>2. /\ IsSeq(Append(f, e)) /\ Len(Append(f, e)) = Len(f) + 1
          /\ \A i \in 1..Len(f) : Append(f, e)[i] = f[i]
          /\ Append(f, e)[Len(f) + 1] = e
      <4>1. IsSeq(f)
        BY <2>4
      <4> QED
        BY <4>1, AppendIs
    <3>3. Len(f) + 1 = 2 /\ 1 \in 1..Len(f)
      BY <2>4
    <3>4. IsSeq(Append(f, e)) /\ Len(Append(f, e)) = 2 /\ Append(f, e)[1] = f[1] /\ Append(f, e)[2] = e
      BY <3>2, <3>3
    <3> QED
      BY <3>1, <3>4, Zenon
  <2>6. /\ IsSeq(symbol_table') /\ Len(symbol_table') = 2
        /\ symbol_table'[1] = symbol_table[1] /\ symbol_table'[2] = Empty
    BY <2>1, <2>4, <2>5 DEF f
  <2>7. DOMAIN symbol_table'[2] = {}
    BY <2>6 DEF Empty
  <2> QED
    BY <1>1, <1>2, <2>1, <2>2, <2>6, <2>7, NamesGrow
<1>9. CASE \E m \in ModuleNames : ImportItem(m)
  <2>1. PICK m \in ModuleNames : ImportItem(m)
    BY <1>9
  <2>2. pc \in RestPcs /\ pc' \in RestPcs /\ UNCHANGED <<accepted, namespace>>
    BY <2>1 DEF ImportItem, Item, RestPcs
  <2>3. Len(symbol_table) = 2
    BY <1>1, <2>2 DEF NameInv
  <2>4. DOMAIN root_struct \subseteq DOMAIN root_struct'
    BY <2>1 DEF ImportItem, Put
  <2>5. /\ IsSeq(symbol_table') /\ Len(symbol_table') = 2 /\ symbol_table'[1] = symbol_table[1]
        /\ \A x \in DOMAIN symbol_table'[2] : x \in DOMAIN symbol_table[2] \/ x \in DOMAIN root_struct'
    <3>1. CASE UNCHANGED symbol_table
      BY <1>2, <2>3, <3>1
    <3>2. CASE /\ m \in Modules
               /\ symbol_table' = [symbol_table EXCEPT ![2] = Put(@, m, Symbol(root_struct'[m], 0))]
      <4> DEFINE e == Put(symbol_table[2], m, Symbol(root_struct'[m], 0))
      <4>1. symbol_table' = [symbol_table EXCEPT ![2] = e]
        BY <3>2
      <4>2. DOMAIN e = DOMAIN symbol_table[2] \cup {m}
        BY DEF Put
      <4>3. m \in DOMAIN root_struct'
        BY <2>1, <3>2 DEF ImportItem, Put
      <4> HIDE DEF e
      <4>4. IsSeq(symbol_table') /\ Len(symbol_table') = Len(symbol_table) /\ symbol_table'[2] = e
        BY <1>2, <1>4, <4>1, ExceptIs
      <4>5. symbol_table'[1] = symbol_table[1]
        BY <1>2, <1>4, <4>1, ExceptIs
      <4> QED
        BY <2>3, <4>2, <4>3, <4>4, <4>5
    <3> QED
      BY <2>1, <3>1, <3>2 DEF ImportItem
  <2>6. ASSUME NEW x \in DOMAIN symbol_table'[2] PROVE Resolved(x)'
    <3>1. CASE x \in DOMAIN root_struct'
      BY <3>1 DEF Resolved
    <3>2. CASE x \in DOMAIN symbol_table[2]
      BY <1>2, <1>5, <2>2, <2>4, <3>2, ResolvedStays
    <3> QED
      BY <2>5, <3>1, <3>2
  <2> QED
    BY <1>1, <1>2, <2>2, <2>4, <2>5, <2>6, NamesGrow
<1>10. CASE \E d \in Decls : Takes(d)
  <2>1. PICK d \in Decls : Takes(d)
    BY <1>10
  <2>2. UNCHANGED <<symbol_table, root_struct, namespace, accepted>> /\ pc = "items" /\ pc' = "patterns"
    BY <2>1 DEF Takes, names
  <2>3. Len(symbol_table) = 2
    BY <1>1, <2>2 DEF NameInv, RestPcs
  <2>4. cur'.rule = d /\ cur'.snapshot = TakeSnapshot
    BY <2>1, RuleFields DEF Takes
  <2>5. cur'.snapshot.symbol_table_len = 2
    BY <2>3, <2>4 DEF TakeSnapshot
  <2>6. d.ident \notin DOMAIN symbol_table[2]
    BY <1>2, <1>4, <2>1 DEF Takes, Known
  <2>7. \A x \in DOMAIN symbol_table'[2] : Resolved(x)'
    BY <1>2, <1>5, <2>2, ResolvedStays
  <2>8. ReferencesResolve'
    BY <1>1, <2>2, ReferencesStay DEF NameInv
  <2>9. pc' \notin {"slow", "result"} /\ pc' \notin {"assign"} \cup PushedPcs
    BY <2>2 DEF PushedPcs
  <2> QED
    BY <1>2, <2>2, <2>3, <2>4, <2>5, <2>6, <2>7, <2>8, <2>9 DEF NameInv
<1>11. CASE Rollback
  <2>1. UNCHANGED <<root_struct, namespace, accepted>> /\ pc' \in RestPcs
    BY <1>11 DEF Rollback, names, RestPcs
  <2>2. symbol_table' = Truncate(symbol_table, 2)
    BY <1>1, <1>11 DEF Rollback, RestoreSnapshot, RestoreScopes, NameInv
  <2>3. 2 \in Nat /\ 2 <= Len(symbol_table)
    BY <1>2
  <2>4. /\ IsSeq(symbol_table') /\ Len(symbol_table') = 2
        /\ \A i \in 1..2 : symbol_table'[i] = symbol_table[i]
    BY <1>2, <2>2, <2>3, TruncateIs
  <2>5. symbol_table'[1] = symbol_table[1] /\ symbol_table'[2] = symbol_table[2]
    BY <2>4
  <2>6. \A x \in DOMAIN symbol_table'[2] : Resolved(x)'
    BY <1>2, <1>5, <2>1, <2>5, ResolvedStays
  <2> QED
    BY <1>1, <1>2, <2>1, <2>4, <2>5, <2>6, NamesGrow
<1>12. CASE ConditionFromAst
  <2>1. /\ IsSeq(symbol_table') /\ Len(symbol_table') >= 2
        /\ symbol_table'[1] = symbol_table[1] /\ symbol_table'[2] = symbol_table[2]
        /\ cur'.rule = cur.rule /\ cur'.snapshot = cur.snapshot
        /\ cur'.cond = <<>> => Len(symbol_table') = 2 /\ ResolvedRefs(cur.rule)
    BY <1>12, ConditionResolves
  <2>2. UNCHANGED <<root_struct, namespace, accepted>> /\ pc = "condition" /\ pc' = "slow"
    BY <1>12 DEF ConditionFromAst, names
  <2>3. \A x : Resolved(x)' <=> Resolved(x)
    BY <2>2 DEF Resolved
  <2>4. cur'.cond = <<>> => ResolvedRefs(cur.rule)'
    BY <2>1, <2>3 DEF ResolvedRefs
  <2>5. ReferencesResolve'
    BY <1>1, <2>2, ReferencesStay DEF NameInv
  <2>6. /\ pc' \notin RestPcs \cup {"patterns", "condition"} /\ pc' \notin {"assign"} \cup PushedPcs
        /\ pc \in RulePcs
    BY <2>2 DEF RestPcs, PushedPcs, RulePcs
  <2>7. cur'.snapshot.symbol_table_len = 2 /\ cur'.rule.ident \notin DOMAIN symbol_table'[2]
    BY <1>1, <2>1, <2>6 DEF NameInv
  <2> QED
    BY <1>2, <2>1, <2>2, <2>3, <2>4, <2>5, <2>6, <2>7 DEF NameInv
<1>13. CASE Passes \/ Assigns \/ PushRule \/ NextPattern \/ CRegexp \/ AddSubPattern \/ FinishPattern
  <2>1. UNCHANGED <<symbol_table, root_struct, namespace, accepted>>
    BY <1>13 DEF Passes, Assigns, PushRule, NextPattern, CRegexp, AddSubPattern, FinishPattern, names
  <2>2. cur'.rule = cur.rule /\ cur'.snapshot = cur.snapshot /\ cur'.cond = cur.cond
    BY <1>3, <1>13 DEF Passes, Assigns, PushRule, NextPattern, CRegexp, AddSubPattern, FinishPattern,
                       CurFields
  <2>3. Shape'
    BY ShapeStep
  <2>4. CASE Passes
    <3>1. pc' = "condition" => Len(symbol_table) = 2
      BY <1>1, <2>4 DEF Passes, NameInv
    <3>2. pc' \in {"assign"} \cup PushedPcs => Len(symbol_table) = 2 /\ ResolvedRefs(cur.rule)
      BY <1>1, <2>4 DEF Passes, NameInv, PushedPcs
    <3>3. pc \in RulePcs /\ pc' \in {"condition", "result", "assign"}
          /\ (pc' \in {"slow", "result"} => pc \in {"slow", "result"})
      BY <2>4 DEF Passes, RulePcs
    <3>4. pc' \in RestPcs \cup {"patterns", "condition"} => Len(symbol_table) = 2
      BY <3>1, <3>3 DEF RestPcs
    <3> QED
      BY <1>1, <2>1, <2>2, <3>2, <3>3, <3>4, NamesStay
  <2>5. CASE ~Passes
    <3>1. pc \in {"assign"} \cup PushedPcs /\ pc' \notin RestPcs \cup {"patterns", "condition"}
          /\ pc' \notin {"slow", "result"} /\ pc \in RulePcs
      BY <1>13, <2>5 DEF Assigns, PushRule, NextPattern, CRegexp, AddSubPattern, FinishPattern,
         RestPcs, PushedPcs, RulePcs
    <3>2. Len(symbol_table) = 2 /\ ResolvedRefs(cur.rule)
      BY <1>1, <3>1 DEF NameInv
    <3> QED
      BY <1>1, <2>1, <2>2, <3>1, <3>2, NamesStay
  <2> QED
    BY <2>4, <2>5
<1>14. CASE CommitRule
  <2> DEFINE a == [rule |-> cur.rule, namespace |-> namespace.id]
             n == Len(accepted)
             e == Put(symbol_table[2], cur.rule.ident, Symbol("rule", RuleId))
  <2>1. /\ accepted' = Append(accepted, a) /\ UNCHANGED <<root_struct, namespace>>
        /\ symbol_table' = [symbol_table EXCEPT ![2] = e] /\ pc = "next"
    BY <1>14 DEF CommitRule, names
  <2>2. /\ IsSeq(accepted') /\ Len(accepted') = n + 1 /\ Extends(accepted', accepted)
        /\ accepted'[n + 1] = a /\ n \in Nat /\ DOMAIN accepted' = 1..(n + 1)
        /\ \A i \in 1..n : accepted'[i] = accepted[i]
    BY <1>2, <2>1, AppendIs, SeqIs
  <2>3. DOMAIN e = DOMAIN symbol_table[2] \cup {cur.rule.ident}
    BY DEF Put
  <2>4. ResolvedRefs(cur.rule) /\ ReferencesResolve
    BY <1>1, <2>1 DEF NameInv, PushedPcs
  <2>5. a.rule = cur.rule /\ a.namespace = namespace.id
    OBVIOUS
  <2>6. DOMAIN accepted = 1..n
    BY <1>2, SeqIs
  <2> HIDE DEF a, e, n
  <2>7. IsSeq(symbol_table') /\ Len(symbol_table') = Len(symbol_table) /\ symbol_table'[2] = e
    BY <1>2, <1>4, <2>1, ExceptIs
  <2>8. symbol_table'[1] = symbol_table[1]
    BY <1>2, <1>4, <2>1, ExceptIs
  <2>9. ASSUME NEW x \in DOMAIN symbol_table'[2] PROVE Resolved(x)'
    <3>1. CASE x = cur.rule.ident
      <4>1. n + 1 \in 1..Len(accepted')
        BY <2>2
      <4> QED
        BY <2>1, <2>2, <2>5, <3>1, <4>1 DEF Resolved
    <3>2. CASE x \in DOMAIN symbol_table[2]
      BY <1>2, <2>1, <2>2, <3>2, ResolvedStays
    <3> QED
      BY <2>3, <2>7, <3>1, <3>2
  <2>10. ReferencesResolve'
    <3> SUFFICES ASSUME NEW i \in DOMAIN accepted',
                        NEW r \in ToSet(accepted'[i].rule.condition.refs)
                                  \ accepted'[i].rule.condition.loop
                 PROVE  \/ r \in DOMAIN root_struct'
                        \/ \E j \in 1..(i - 1) : accepted'[j].rule.ident = r
                                                 /\ accepted'[j].namespace = accepted'[i].namespace
      BY DEF ReferencesResolve
    <3>1. CASE i = n + 1
      <4>1. Resolved(r)
        BY <2>2, <2>4, <2>5, <3>1 DEF ResolvedRefs
      <4>2. CASE r \in DOMAIN root_struct
        BY <2>1, <4>2
      <4>3. CASE \E j \in 1..n : accepted[j].rule.ident = r /\ accepted[j].namespace = namespace.id
        <5>1. PICK j \in 1..n : accepted[j].rule.ident = r /\ accepted[j].namespace = namespace.id
          BY <4>3
        <5>2. j \in 1..(i - 1) /\ accepted'[j] = accepted[j]
          BY <2>2, <3>1, <5>1
        <5> QED
          BY <2>2, <2>5, <3>1, <5>1, <5>2
      <4> QED
        BY <4>1, <4>2, <4>3 DEF Resolved, n
    <3>2. CASE i # n + 1
      <4>1. i \in 1..n /\ accepted'[i] = accepted[i]
        BY <2>2, <3>2
      <4>2. \/ r \in DOMAIN root_struct
            \/ \E j \in 1..(i - 1) : accepted[j].rule.ident = r
                                     /\ accepted[j].namespace = accepted[i].namespace
        BY <2>4, <2>6, <4>1 DEF ReferencesResolve
      <4>3. \A j \in 1..(i - 1) : accepted'[j] = accepted[j]
        BY <2>2, <4>1
      <4> QED
        BY <2>1, <4>1, <4>2, <4>3
    <3> QED
      BY <3>1, <3>2
  <2>11. pc' = "items"
    BY <1>1, <1>14 DEF CommitRule, NameInv, RulePcs
  <2>12. Len(symbol_table') = 2
    BY <1>1, <2>1, <2>7 DEF NameInv, PushedPcs
  <2> QED
    BY <1>2, <2>1, <2>2, <2>7, <2>8, <2>9, <2>10, <2>11, <2>12
       DEF NameInv, RestPcs, RulePcs, PushedPcs
<1> QED
  BY <1>6, <1>7, <1>8, <1>9, <1>10, <1>11, <1>12, <1>13, <1>14 DEF Step, Fails, Ignores
-----------------------------------------------------------------------------
(* Patterns and rules                                                      *)

\* Bits are only cleared.
Cleared(bits2, bits, n) == \A j \in 1..n : bits2[j] = bits[j] \/ bits2[j] = FALSE

LEMMA UsesStay ==
  ASSUME NEW bits, NEW bits2, NEW ids, NEW d, NEW n \in Nat, NEW limit \in Nat, NEW limit2 \in Nat,
         limit <= limit2, Uses(bits, ids, d, n, limit), Cleared(bits2, bits, limit)
  PROVE  Uses(bits2, ids, d, n, limit2)
<1> SUFFICES ASSUME NEW k \in 1..n
             PROVE  /\ ids[k] \in 0..(limit2 - 1)
                    /\ bits2[ids[k] + 1] => d.patterns[k].fast_scan_allowed
  BY DEF Uses
<1>1. ids[k] \in 0..(limit - 1)
  BY DEF Uses
<1>2. bits[ids[k] + 1] => d.patterns[k].fast_scan_allowed
  BY DEF Uses
<1>3. ids[k] \in 0..(limit2 - 1) /\ ids[k] + 1 \in 1..limit
  BY <1>1
<1>4. bits2[ids[k] + 1] = bits[ids[k] + 1] \/ bits2[ids[k] + 1] = FALSE
  BY <1>3 DEF Cleared
<1>5. bits2[ids[k] + 1] => d.patterns[k].fast_scan_allowed
  BY <1>2, <1>4, Zenon
<1> QED
  BY <1>3, <1>5

\* What giving a pattern its id does.
Assigned(id) ==
  /\ next_pattern_id' \in {next_pattern_id, next_pattern_id + 1}
  /\ id \in 0..(next_pattern_id' - 1)
  /\ IsSeq(fast_scan_patterns') /\ Len(fast_scan_patterns') = next_pattern_id'
  /\ Cleared(fast_scan_patterns', fast_scan_patterns, next_pattern_id)
  /\ fast_scan_patterns'[id + 1] = FALSE \/ cur.rule.patterns[cur.k].fast_scan_allowed
  /\ DOMAIN patterns' \subseteq AnyPattern
  /\ \A p \in DOMAIN patterns' : patterns'[p] \in 0..(next_pattern_id' - 1)
  /\ cur'.k = cur.k + 1 /\ cur'.pattern_ids = Append(cur.pattern_ids, id)
  /\ \A j \in cur'.pending :
       j \in cur.pending \/ (j = next_pattern_id /\ j \in 0..(next_pattern_id' - 1))
  /\ cur'.rule = cur.rule /\ cur'.snapshot = cur.snapshot /\ cur'.code = cur.code

LEMMA ClearedBitIs ==
  ASSUME NEW bits, IsSeq(bits), NEW i \in 1..Len(bits)
  PROVE  LET b == [bits EXCEPT ![i] = FALSE]
         IN IsSeq(b) /\ Len(b) = Len(bits) /\ Cleared(b, bits, Len(bits)) /\ b[i] = FALSE
<1> DEFINE b == [bits EXCEPT ![i] = FALSE]
<1>1. IsSeq(b) /\ Len(b) = Len(bits) /\ b[i] = FALSE
  BY ExceptIs
<1>2. \A j \in 1..Len(bits) : j # i => b[j] = bits[j]
  BY ExceptIs
<1> HIDE DEF b
<1>3. Cleared(b, bits, Len(bits))
  BY <1>1, <1>2 DEF Cleared
<1> QED
  BY <1>1, <1>3 DEF b

LEMMA AssignsAssigns ==
  ASSUME IInv, Assigns
  PROVE  \E id : Assigned(id)
<1> DEFINE use == cur.rule.patterns[cur.k]
           p == Bounded(cur.rule, use.pattern)
           new == p \notin DOMAIN patterns
           id == IF new THEN next_pattern_id ELSE patterns[p]
           bits == IF new THEN Append(fast_scan_patterns, TRUE) ELSE fast_scan_patterns
           n == next_pattern_id
<1>1. pc = "assign" /\ pc \in RulePcs /\ DOMAIN cur = CurFields /\ cur.rule \in Decls
  BY DEF Assigns, RulePcs, IInv, Shape
<1>2. cur.k \in 1..(Len(cur.rule.patterns) + 1) /\ cur.k <= Len(cur.rule.patterns)
  BY <1>1 DEF Assigns, IInv, RuleInv
<1>3. /\ n \in Nat /\ IsSeq(fast_scan_patterns) /\ Len(fast_scan_patterns) = n
      /\ DOMAIN patterns \subseteq AnyPattern
      /\ \A q \in DOMAIN patterns : patterns[q] \in 0..(n - 1)
  BY DEF IInv, PatternInv
<1>4. p \in AnyPattern
  <2>1. Len(cur.rule.patterns) \in Nat /\ DOMAIN cur.rule.patterns = 1..Len(cur.rule.patterns)
    BY <1>1, CompilerAssumption
  <2>2. cur.k \in DOMAIN cur.rule.patterns
    BY <1>2, <2>1
  <2>3. use.pattern \in AnyPattern
    BY <1>1, <2>2, CompilerAssumption
  <2>4. cur.rule.filesize_bounds \in SUBSET Nat /\ cur.rule.header_constraints \in SUBSET Nat
    BY <1>1, CompilerAssumption
  <2> QED
    BY <2>3, <2>4 DEF Bounded, AnyPattern
<1>5. /\ patterns' = IF new THEN Put(patterns, p, id) ELSE patterns
      /\ next_pattern_id' = IF new THEN n + 1 ELSE n
      /\ fast_scan_patterns' = ClearBit(bits, id, use.fast_scan_allowed)
      /\ cur' = [cur EXCEPT !.k = @ + 1, !.pattern_ids = Append(@, id),
                            !.pending = IF new THEN @ \cup {id} ELSE @]
  BY DEF Assigns
<1>6. /\ cur'.k = cur.k + 1 /\ cur'.pattern_ids = Append(cur.pattern_ids, id)
      /\ cur'.pending = IF new THEN cur.pending \cup {id} ELSE cur.pending
      /\ cur'.rule = cur.rule /\ cur'.snapshot = cur.snapshot /\ cur'.code = cur.code
  <2> HIDE DEF id, new
  <2> QED
    BY <1>1, <1>5 DEF CurFields
<1>7. id \in 0..(next_pattern_id' - 1) /\ next_pattern_id' \in {n, n + 1}
  <2> HIDE DEF p
  <2>1. CASE new
    BY <1>3, <1>5, <2>1
  <2>2. CASE ~new
    <3>1. patterns[p] \in 0..(n - 1)
      BY <1>3, <2>2
    <3> QED
      BY <1>3, <1>5, <2>2, <3>1
  <2> QED
    BY <2>1, <2>2
<1>8. /\ IsSeq(bits) /\ Len(bits) = next_pattern_id'
      /\ \A j \in 1..n : bits[j] = fast_scan_patterns[j]
  <2> HIDE DEF p
  <2>1. CASE new
    <3>1. PICK fs : fs = fast_scan_patterns
      OBVIOUS
    <3>2. IsSeq(fs) /\ Len(fs) = n
      BY <1>3, <3>1
    <3>3. bits = Append(fs, TRUE) /\ next_pattern_id' = n + 1
      BY <1>5, <2>1, <3>1
    <3>4. PICK t : t = Append(fs, TRUE)
      OBVIOUS
    <3>5. IsSeq(t) /\ Len(t) = Len(fs) + 1 /\ \A j \in 1..Len(fs) : t[j] = fs[j]
      BY ONLY <3>2, <3>4, AppendIs
    <3>6. bits = t
      BY <3>3, <3>4
    <3> HIDE DEF bits
    <3> QED
      BY <3>1, <3>2, <3>3, <3>5, <3>6
  <2>2. CASE ~new
    BY <1>3, <1>5, <2>2
  <2> QED
    BY <2>1, <2>2
<1>9. id + 1 \in 1..Len(bits)
  <2>1. next_pattern_id' \in Nat
    BY <1>3, <1>7
  <2>2. Len(bits) = next_pattern_id'
    BY <1>8
  <2> HIDE DEF id, bits, new
  <2>3. \A i : \A m \in Nat : i \in 0..(m - 1) => i + 1 \in 1..m
    OBVIOUS
  <2>4. id \in 0..(next_pattern_id' - 1)
    BY <1>7
  <2> QED
    BY <2>1, <2>2, <2>3, <2>4, Zenon
<1>10. DOMAIN patterns' \subseteq AnyPattern /\ \A q \in DOMAIN patterns' : patterns'[q] \in 0..(next_pattern_id' - 1)
  <2>1. CASE new
    <3>1. patterns' = [x \in DOMAIN patterns \cup {p} |-> IF x = p THEN id ELSE patterns[x]]
      BY <1>5, <2>1 DEF Put
    <3>2. next_pattern_id' = n + 1
      BY <1>5, <2>1
    <3>3. \A j \in 0..(n - 1) : j \in 0..((n + 1) - 1)
      BY <1>3
    <3> HIDE DEF p, id
    <3> QED
      BY <1>3, <1>4, <1>7, <3>1, <3>2, <3>3
  <2>2. CASE ~new
    BY <1>3, <1>5, <2>2
  <2> QED
    BY <2>1, <2>2
<1>11. \A j \in cur'.pending : j \in cur.pending \/ (j = n /\ j \in 0..(next_pattern_id' - 1))
  <2> HIDE DEF p
  <2> QED
    BY <1>6, <1>7
<1> HIDE DEF use, p, id, bits
<1>12. /\ IsSeq(fast_scan_patterns') /\ Len(fast_scan_patterns') = Len(bits)
       /\ Cleared(fast_scan_patterns', bits, Len(bits))
       /\ fast_scan_patterns'[id + 1] = FALSE \/ use.fast_scan_allowed
  <2>1. CASE use.fast_scan_allowed
    <3>1. fast_scan_patterns' = bits
      BY <1>5, <2>1 DEF ClearBit
    <3>2. Cleared(bits, bits, Len(bits))
      BY DEF Cleared
    <3> QED
      BY <1>8, <2>1, <3>1, <3>2
  <2>2. CASE ~use.fast_scan_allowed
    <3>1. fast_scan_patterns' = [bits EXCEPT ![id + 1] = FALSE]
      BY <1>5, <2>2 DEF ClearBit
    <3> QED
      BY <1>8, <1>9, <3>1, ClearedBitIs
  <2> QED
    BY <2>1, <2>2
<1>13. Cleared(fast_scan_patterns', fast_scan_patterns, n)
  <2>1. \A j \in 1..n : j \in 1..Len(bits)
    BY <1>3, <1>7, <1>8
  <2> QED
    BY <1>8, <1>12, <2>1 DEF Cleared
<1>14. Assigned(id)
  BY <1>6, <1>7, <1>8, <1>10, <1>11, <1>12, <1>13 DEF Assigned, use
<1> QED
  BY <1>14
\* The steps outside of rules, and those of a rule that keep the tables of
\* patterns.
Outside ==
  \/ AddSource \/ Build \/ EndSource \/ (\E v \in Variables : DefineGlobal(v))
  \/ (\E n \in Namespaces : NewNamespace(n)) \/ (\E f \in Files : IncludeItem(f))
  \/ (\E m \in ModuleNames : ImportItem(m)) \/ (\E d \in Decls : \E kind, others : Rejects(d, kind, others))

Inside == Passes \/ ConditionFromAst \/ PushRule \/ NextPattern \/ CRegexp \/ AddSubPattern \/ FinishPattern

LEMMA StepIs ==
  ASSUME Step
  PROVE  Outside \/ (\E d \in Decls : Takes(d)) \/ Rollback \/ Assigns \/ Inside \/ CommitRule
BY DEF Step, Outside, Inside, Fails, Ignores

LEMMA OutsideKeeps ==
  ASSUME Outside
  PROVE  /\ pc \in RestPcs /\ pc' \in RestPcs /\ pc \notin RulePcs /\ pc' \notin RulePcs
         /\ UNCHANGED <<tables, wasm_mod, cur, accepted>>
<1>1. pc \in RestPcs /\ pc' \in RestPcs
  BY DEF Outside, AddSource, Call, Build, EndSource, DefineGlobal, NewNamespace, IncludeItem, Item,
     ImportItem, Rejects, RestPcs
<1>2. UNCHANGED <<tables, wasm_mod, cur, accepted>>
  BY DEF Outside, AddSource, Build, EndSource, DefineGlobal, NewNamespace, IncludeItem, ImportItem,
     Rejects
<1> QED
  BY <1>1, <1>2 DEF RestPcs, RulePcs

LEMMA InsideKeeps ==
  ASSUME IInv, Inside
  PROVE  /\ pc \in RulePcs /\ pc' \in RulePcs
         /\ UNCHANGED <<patterns, next_pattern_id, fast_scan_patterns, names, wasm_mod, accepted>>
         /\ cur'.rule = cur.rule /\ cur'.snapshot = cur.snapshot
         /\ cur'.pattern_ids = cur.pattern_ids
<1>1. DOMAIN cur = CurFields
  BY DEF IInv, Shape
<1>2. pc \in RulePcs
  BY DEF Inside, Passes, ConditionFromAst, PushRule, NextPattern, CRegexp, AddSubPattern, FinishPattern,
     RulePcs
<1>3. pc' \in RulePcs
  <2>1. Step
    BY DEF Inside, Step
  <2>2. Shape'
    BY <2>1, ShapeStep
  <2>3. pc' \notin RestPcs
    BY DEF Inside, Passes, ConditionFromAst, PushRule, NextPattern, CRegexp, AddSubPattern,
       FinishPattern, RestPcs
  <2> QED
    BY <2>2, <2>3 DEF Shape
<1>4. UNCHANGED <<patterns, next_pattern_id, fast_scan_patterns, names, wasm_mod, accepted>>
  BY DEF Inside, Passes, ConditionFromAst, PushRule, NextPattern, CRegexp, AddSubPattern, FinishPattern,
     tables
<1>5. /\ cur'.rule = cur.rule /\ cur'.snapshot = cur.snapshot
      /\ cur'.pattern_ids = cur.pattern_ids
  BY <1>1 DEF Inside, Passes, ConditionFromAst, PushRule, NextPattern, CRegexp, AddSubPattern,
     FinishPattern, CurFields
<1> QED
  BY <1>2, <1>3, <1>4, <1>5

\* What going back to the snapshot leaves.
LEMMA RollbackKeeps ==
  ASSUME IInv, Rollback
  PROVE  LET n == cur.snapshot.next_pattern_id
         IN /\ n \in 0..next_pattern_id /\ next_pattern_id' = n
            /\ IsSeq(fast_scan_patterns') /\ Len(fast_scan_patterns') = n
            /\ \A i \in 1..n : fast_scan_patterns'[i] = fast_scan_patterns[i]
            /\ UNCHANGED <<names, wasm_mod, accepted>> /\ pc' = "items" /\ pc' \notin RulePcs
            /\ pc \in RulePcs
<1> DEFINE n == cur.snapshot.next_pattern_id
<1>1. pc \in RulePcs /\ next_pattern_id' = n
      /\ fast_scan_patterns' = Truncate(fast_scan_patterns, cur.snapshot.fast_scan_patterns_len)
      /\ UNCHANGED <<names, wasm_mod, accepted>> /\ pc' = "items"
  BY DEF Rollback, RestoreSnapshot, RestoreLists
<1>2. n \in 0..next_pattern_id /\ cur.snapshot.fast_scan_patterns_len = n
      /\ next_pattern_id \in Nat /\ IsSeq(fast_scan_patterns) /\ Len(fast_scan_patterns) = next_pattern_id
  BY <1>1 DEF IInv, PatternInv
<1>3. n \in Nat /\ n <= Len(fast_scan_patterns)
  BY <1>2
<1>4. pc' \notin RulePcs
  BY <1>1 DEF RulePcs
<1> HIDE DEF n
<1>5. /\ IsSeq(fast_scan_patterns') /\ Len(fast_scan_patterns') = n
      /\ \A i \in 1..n : fast_scan_patterns'[i] = fast_scan_patterns[i]
  BY <1>1, <1>2, <1>3, TruncateIs
<1> QED
  BY <1>1, <1>2, <1>4, <1>5 DEF n

LEMMA PatternStep ==
  ASSUME IInv, Step
  PROVE  PatternInv'
<1>1. PatternInv /\ Shape
  BY DEF IInv
<1>2. CASE Outside
  BY <1>1, <1>2, OutsideKeeps DEF PatternInv, tables
<1>3. CASE \E d \in Decls : Takes(d)
  <2>1. PICK d \in Decls : Takes(d)
    BY <1>3
  <2>2. UNCHANGED <<patterns, next_pattern_id, fast_scan_patterns>>
    BY <2>1 DEF Takes, tables
  <2>3. cur'.snapshot = TakeSnapshot
    BY <2>1, RuleFields DEF Takes
  <2>4. cur'.snapshot.next_pattern_id = next_pattern_id
        /\ cur'.snapshot.fast_scan_patterns_len = Len(fast_scan_patterns)
    BY <2>3 DEF TakeSnapshot
  <2> QED
    BY <1>1, <2>2, <2>4 DEF PatternInv
<1>4. CASE Rollback
  <2> DEFINE n == cur.snapshot.next_pattern_id
  <2>1. /\ n \in 0..next_pattern_id /\ next_pattern_id' = n
        /\ IsSeq(fast_scan_patterns') /\ Len(fast_scan_patterns') = n /\ pc' \notin RulePcs
    BY <1>4, RollbackKeeps
  <2>2. patterns' = Restrict(patterns, {p \in DOMAIN patterns : patterns[p] < n})
    BY <1>4 DEF Rollback, RestoreSnapshot, RestoreMaps
  <2>3. next_pattern_id \in Nat /\ n \in Nat
    BY <1>1, <2>1 DEF PatternInv
  <2> HIDE DEF n
  <2>4. DOMAIN patterns' \subseteq DOMAIN patterns
        /\ \A p \in DOMAIN patterns' : patterns'[p] = patterns[p] /\ patterns[p] < n
    BY <2>2 DEF Restrict
  <2>5. ASSUME NEW p \in DOMAIN patterns' PROVE patterns'[p] \in 0..(next_pattern_id' - 1)
    <3>1. patterns[p] \in 0..(next_pattern_id - 1) /\ patterns[p] < n /\ patterns'[p] = patterns[p]
      BY <1>1, <2>4 DEF PatternInv
    <3> QED
      BY <2>1, <2>3, <3>1
  <2> QED
    BY <1>1, <2>1, <2>3, <2>4, <2>5 DEF PatternInv
<1>5. CASE Assigns
  <2>1. PICK id : Assigned(id)
    BY <1>5, AssignsAssigns
  <2>2. pc = "assign" /\ pc' = pc /\ pc \in RulePcs
    BY <1>5 DEF Assigns, RulePcs
  <2>3. next_pattern_id \in Nat /\ cur.snapshot.next_pattern_id \in 0..next_pattern_id
        /\ cur.snapshot.fast_scan_patterns_len = cur.snapshot.next_pattern_id
    BY <1>1, <2>2 DEF PatternInv
  <2>4. next_pattern_id' \in Nat /\ next_pattern_id <= next_pattern_id'
    BY <2>1, <2>3 DEF Assigned
  <2>5. cur'.snapshot.next_pattern_id \in 0..next_pattern_id'
        /\ cur'.snapshot.fast_scan_patterns_len = cur'.snapshot.next_pattern_id
    BY <2>1, <2>3, <2>4 DEF Assigned
  <2> QED
    BY <2>1, <2>4, <2>5 DEF PatternInv, Assigned
<1>6. CASE Inside
  BY <1>1, <1>6, InsideKeeps DEF PatternInv
<1>7. CASE CommitRule
  <2>1. UNCHANGED <<patterns, next_pattern_id, fast_scan_patterns>>
    BY <1>7 DEF CommitRule, tables
  <2>2. pc' \notin RulePcs
    BY <1>7 DEF CommitRule, RulePcs
  <2> QED
    BY <1>1, <2>1, <2>2 DEF PatternInv
<1> QED
  BY <1>2, <1>3, <1>4, <1>5, <1>6, <1>7, StepIs

-----------------------------------------------------------------------------
(* The table of rules                                                      *)

LEMMA KeptIsNat ==
  ASSUME PatternInv
  PROVE  KeptPatterns \in Nat /\ KeptPatterns <= next_pattern_id
<1>1. CASE pc \in RulePcs
  BY <1>1 DEF PatternInv, KeptPatterns
<1>2. CASE pc \notin RulePcs
  BY <1>2 DEF PatternInv, KeptPatterns
<1> QED
  BY <1>1, <1>2

\* Clearing bits of the patterns, or registering more, leaves the entries of
\* the accepted rules right.
LEMMA RulesStay ==
  ASSUME IInv, PatternInv', UNCHANGED accepted, KeptPatterns' = KeptPatterns,
         \A i \in 1..Len(accepted) : rules'[i] = rules[i],
         Cleared(fast_scan_patterns', fast_scan_patterns, KeptPatterns)
  PROVE  \A i \in 1..Len(accepted') :
           RuleIs(fast_scan_patterns', rules'[i], accepted'[i], KeptPatterns')
<1>1. KeptPatterns \in Nat
  BY KeptIsNat DEF IInv
<1> SUFFICES ASSUME NEW i \in 1..Len(accepted)
             PROVE  RuleIs(fast_scan_patterns', rules[i], accepted[i], KeptPatterns)
  OBVIOUS
<1>2. RuleIs(fast_scan_patterns, rules[i], accepted[i], KeptPatterns)
  BY DEF IInv, RuleInv
<1>3. accepted[i].rule \in Decls
  BY <1>2 DEF RuleIs
<1>4. Len(accepted[i].rule.patterns) \in Nat
  BY <1>3, CompilerAssumption
<1>5. Uses(fast_scan_patterns, rules[i].patterns, accepted[i].rule, Len(accepted[i].rule.patterns), KeptPatterns)
  BY <1>2 DEF RuleIs
<1>6. Uses(fast_scan_patterns', rules[i].patterns, accepted[i].rule, Len(accepted[i].rule.patterns), KeptPatterns)
  BY <1>1, <1>4, <1>5, UsesStay
<1> QED
  BY <1>2, <1>6 DEF RuleIs

\* One more pattern has its id.
LEMMA UsesGrows ==
  ASSUME NEW bits, NEW ids, NEW d, NEW n \in Nat, NEW limit \in Nat, Uses(bits, ids, d, n, limit),
         NEW id \in 0..(limit - 1), bits[id + 1] = FALSE \/ d.patterns[n + 1].fast_scan_allowed
  PROVE  Uses(bits, Append(ids, id), d, n + 1, limit)
<1> DEFINE t == Append(ids, id)
<1>1. IsSeq(ids) /\ Len(ids) = n
  BY DEF Uses
<1>2. IsSeq(t) /\ Len(t) = n + 1 /\ t[n + 1] = id /\ \A k \in 1..n : t[k] = ids[k]
  BY <1>1, AppendIs
<1> HIDE DEF t
<1>3. ASSUME NEW k \in 1..(n + 1)
      PROVE  t[k] \in 0..(limit - 1) /\ (bits[t[k] + 1] => d.patterns[k].fast_scan_allowed)
  <2>1. CASE k = n + 1
    <3>1. t[k] = id
      BY <1>2, <2>1
    <3>2. bits[t[k] + 1] => d.patterns[k].fast_scan_allowed
      BY <2>1, <3>1, Zenon
    <3> QED
      BY <3>1, <3>2
  <2>2. CASE k # n + 1
    <3>1. k \in 1..n
      BY <2>2
    <3>2. t[k] = ids[k]
      BY <1>2, <3>1
    <3> QED
      BY <3>1, <3>2 DEF Uses
  <2> QED
    BY <2>1, <2>2
<1> QED
  BY <1>2, <1>3 DEF Uses, t

LEMMA RuleStep ==
  ASSUME IInv, Step, PatternInv', Shape'
  PROVE  RuleInv'
<1>1. /\ RuleInv /\ PatternInv /\ Shape /\ IsSeq(accepted) /\ IsSeq(rules)
      /\ KeptPatterns \in Nat /\ Len(accepted) \in Nat /\ next_pattern_id \in Nat
  BY KeptIsNat, SeqIs DEF IInv, RuleInv, PatternInv
<1>2. CASE Outside
  <2>1. /\ pc \in RestPcs /\ pc' \in RestPcs /\ UNCHANGED <<rules, fast_scan_patterns, next_pattern_id, accepted, cur>>
    BY <1>2, OutsideKeeps DEF tables
  <2>2. pc \notin PushedPcs /\ pc' \notin PushedPcs /\ pc \notin RulePcs /\ pc' \notin RulePcs
    BY <2>1 DEF RestPcs, PushedPcs, RulePcs
  <2>3. pc' # "assign" /\ pc' \notin {"patterns", "condition", "slow", "result"}
    BY <2>1 DEF RestPcs
  <2>4. KeptPatterns' = KeptPatterns
    BY <2>1, <2>2 DEF KeptPatterns
  <2> QED
    BY <1>1, <2>1, <2>2, <2>3, <2>4 DEF RuleInv
<1>3. CASE \E d \in Decls : Takes(d)
  <2>1. PICK d \in Decls : Takes(d)
    BY <1>3
  <2>2. /\ UNCHANGED <<rules, fast_scan_patterns, next_pattern_id, accepted>>
        /\ pc = "items" /\ pc' = "patterns"
    BY <2>1 DEF Takes, tables
  <2>3. cur'.snapshot = TakeSnapshot /\ cur'.k = 1 /\ cur'.pattern_ids = <<>>
    BY <2>1, RuleFields DEF Takes
  <2>4. cur'.snapshot.next_pattern_id = next_pattern_id /\ cur'.snapshot.rules_len = Len(rules)
    BY <2>3 DEF TakeSnapshot
  <2>5. pc \notin PushedPcs /\ pc' \notin PushedPcs /\ pc \notin RulePcs /\ pc' \in RulePcs
    BY <2>2 DEF PushedPcs, RulePcs
  <2>6. KeptPatterns' = KeptPatterns
    BY <2>2, <2>4, <2>5 DEF KeptPatterns
  <2> QED
    BY <1>1, <2>2, <2>3, <2>4, <2>5, <2>6 DEF RuleInv
<1>4. CASE Rollback
  <2> DEFINE n == cur.snapshot.next_pattern_id
  <2>1. /\ n \in 0..next_pattern_id /\ next_pattern_id' = n /\ UNCHANGED accepted
        /\ \A i \in 1..n : fast_scan_patterns'[i] = fast_scan_patterns[i]
        /\ pc' = "items" /\ pc' \notin RulePcs /\ pc \in RulePcs
    BY <1>4, RollbackKeeps
  <2>2. rules' = Truncate(rules, Len(accepted))
    BY <1>1, <1>4, <2>1 DEF RuleInv, Rollback, RestoreSnapshot, RestoreLists
  <2>3. Len(accepted) <= Len(rules)
    BY <1>1 DEF RuleInv
  <2>4. IsSeq(rules') /\ Len(rules') = Len(accepted) /\ \A i \in 1..Len(accepted) : rules'[i] = rules[i]
    BY <1>1, <2>2, <2>3, TruncateIs
  <2>5. KeptPatterns = n /\ KeptPatterns' = n
    BY <2>1 DEF KeptPatterns
  <2>6. Cleared(fast_scan_patterns', fast_scan_patterns, KeptPatterns)
    BY <2>1, <2>5 DEF Cleared
  <2>7. \A i \in 1..Len(accepted') : RuleIs(fast_scan_patterns', rules'[i], accepted'[i], KeptPatterns')
    BY <2>1, <2>4, <2>5, <2>6, RulesStay
  <2>8. pc' \notin PushedPcs /\ pc' # "assign" /\ pc' \notin {"patterns", "condition", "slow", "result"}
    BY <2>1 DEF PushedPcs
  <2> QED
    BY <1>1, <2>1, <2>4, <2>7, <2>8 DEF RuleInv
<1>5. CASE Assigns
  <2>1. PICK id : Assigned(id)
    BY <1>5, AssignsAssigns
  <2>2. /\ pc = "assign" /\ pc' = "assign" /\ UNCHANGED <<rules, accepted>>
        /\ cur.k <= Len(cur.rule.patterns)
    BY <1>5 DEF Assigns
  <2>3. pc \in RulePcs /\ pc' \in RulePcs /\ pc \notin PushedPcs /\ pc' \notin PushedPcs
    BY <2>2 DEF RulePcs, PushedPcs
  <2>4. KeptPatterns' = KeptPatterns
    BY <2>1, <2>3 DEF KeptPatterns, Assigned
  <2>5. Cleared(fast_scan_patterns', fast_scan_patterns, KeptPatterns)
    BY <1>1, <2>1, KeptIsNat DEF Cleared, Assigned
  <2>6. \A i \in 1..Len(accepted') : RuleIs(fast_scan_patterns', rules'[i], accepted'[i], KeptPatterns')
    BY <2>2, <2>4, <2>5, RulesStay
  <2>7. cur.rule \in Decls
    BY <1>1, <2>3 DEF Shape
  <2>8. Len(cur.rule.patterns) \in Nat
    BY <2>7, CompilerAssumption
  <2>9. /\ cur.k \in 1..(Len(cur.rule.patterns) + 1)
        /\ Uses(fast_scan_patterns, cur.pattern_ids, cur.rule, cur.k - 1, next_pattern_id)
    BY <1>1, <2>2 DEF RuleInv
  <2>10. cur.k \in Nat /\ cur.k - 1 \in Nat /\ (cur.k - 1) + 1 = cur.k /\ cur.k + 1 \in 1..(Len(cur.rule.patterns) + 1)
    BY <2>2, <2>8, <2>9
  <2>11. next_pattern_id' \in Nat /\ next_pattern_id <= next_pattern_id'
    BY <1>1, <2>1 DEF Assigned
  <2>12. Uses(fast_scan_patterns', cur.pattern_ids, cur.rule, cur.k - 1, next_pattern_id')
    <3>1. Cleared(fast_scan_patterns', fast_scan_patterns, next_pattern_id)
      BY <2>1 DEF Assigned
    <3> QED
      BY <1>1, <2>9, <2>10, <2>11, <3>1, UsesStay
  <2>13. id \in 0..(next_pattern_id' - 1)
         /\ (fast_scan_patterns'[id + 1] = FALSE \/ cur.rule.patterns[cur.k].fast_scan_allowed)
    BY <2>1 DEF Assigned
  <2>14. Uses(fast_scan_patterns', Append(cur.pattern_ids, id), cur.rule, (cur.k - 1) + 1, next_pattern_id')
    <3>1. fast_scan_patterns'[id + 1] = FALSE \/ cur.rule.patterns[(cur.k - 1) + 1].fast_scan_allowed
      BY <2>10, <2>13
    <3> QED
      BY <2>10, <2>11, <2>12, <2>13, <3>1, UsesGrows
  <2>15. cur'.k = cur.k + 1 /\ cur'.pattern_ids = Append(cur.pattern_ids, id)
         /\ cur'.rule = cur.rule /\ cur'.snapshot = cur.snapshot
    BY <2>1 DEF Assigned
  <2>16. cur'.k \in 1..(Len(cur'.rule.patterns) + 1) /\ cur'.k - 1 = (cur.k - 1) + 1
    BY <2>10, <2>15
  <2>17. Uses(fast_scan_patterns', cur'.pattern_ids, cur'.rule, cur'.k - 1, next_pattern_id')
    BY <2>14, <2>15, <2>16
  <2>18. cur'.snapshot.rules_len = Len(accepted')
    BY <1>1, <2>2, <2>3, <2>15 DEF RuleInv
  <2> QED
    BY <1>1, <2>2, <2>3, <2>6, <2>16, <2>17, <2>18 DEF RuleInv
<1>6. CASE Inside
  <2>1. /\ pc \in RulePcs /\ pc' \in RulePcs
        /\ UNCHANGED <<next_pattern_id, fast_scan_patterns, namespace, accepted>>
        /\ cur'.rule = cur.rule /\ cur'.snapshot = cur.snapshot
        /\ cur'.pattern_ids = cur.pattern_ids
    BY <1>6, InsideKeeps DEF names
  <2>2. KeptPatterns' = KeptPatterns
    BY <2>1 DEF KeptPatterns
  <2>3. Cleared(fast_scan_patterns', fast_scan_patterns, KeptPatterns)
    BY <2>1 DEF Cleared
  <2>4. cur'.snapshot.rules_len = Len(accepted') /\ cur.rule \in Decls
    BY <1>1, <2>1 DEF RuleInv, Shape
  <2>5. Len(cur.rule.patterns) \in Nat /\ DOMAIN cur = CurFields
    BY <1>1, <2>4, CompilerAssumption DEF Shape
  <2>6. CASE Passes \/ ConditionFromAst
    <3>1. UNCHANGED rules /\ pc \notin PushedPcs /\ pc' \notin PushedPcs
          /\ pc \in {"patterns", "condition", "slow", "result"}
      BY <2>6 DEF Passes, ConditionFromAst, PushedPcs, tables
    <3>2. cur'.k = cur.k
      BY <2>5, <2>6 DEF Passes, ConditionFromAst, CurFields
    <3>3. cur.k = 1 /\ cur.pattern_ids = <<>>
      BY <1>1, <3>1 DEF RuleInv
    <3>4. \A i \in 1..Len(accepted') : RuleIs(fast_scan_patterns', rules'[i], accepted'[i], KeptPatterns')
      BY <2>1, <2>2, <2>3, <3>1, RulesStay
    <3>5. Uses(fast_scan_patterns', cur'.pattern_ids, cur'.rule, 0, next_pattern_id')
      BY <2>1, <3>3, EmptyIs DEF Uses
    <3>6. cur'.k - 1 = 0 /\ cur'.k \in 1..(Len(cur'.rule.patterns) + 1)
      BY <2>1, <2>5, <3>2, <3>3
    <3>7. Uses(fast_scan_patterns', cur'.pattern_ids, cur'.rule, cur'.k - 1, next_pattern_id')
      BY <3>5, <3>6
    <3> QED
      BY <1>1, <2>1, <2>4, <3>1, <3>2, <3>3, <3>4, <3>6, <3>7 DEF RuleInv
  <2>7. CASE PushRule
    <3> DEFINE r == [ident |-> cur.rule.ident, namespace |-> namespace.id, patterns |-> cur.pattern_ids]
    <3>1. /\ rules' = Append(rules, r) /\ pc = "assign" /\ pc' = "next"
          /\ cur.k > Len(cur.rule.patterns)
      BY <2>7 DEF PushRule
    <3>2. cur'.k = 0
      BY <2>5, <2>7 DEF PushRule, CurFields
    <3>3. pc \notin PushedPcs /\ pc' \in PushedPcs
      BY <3>1 DEF PushedPcs
    <3>4. Len(rules) = Len(accepted)
      BY <1>1, <3>3 DEF RuleInv
    <3> HIDE DEF r
    <3>5. IsSeq(rules') /\ Len(rules') = Len(accepted) + 1 /\ rules'[Len(accepted) + 1] = r
          /\ \A i \in 1..Len(accepted) : rules'[i] = rules[i]
      BY <1>1, <3>1, <3>4, AppendIs
    <3>6. \A i \in 1..Len(accepted') : RuleIs(fast_scan_patterns', rules'[i], accepted'[i], KeptPatterns')
      BY <2>1, <2>2, <2>3, <3>5, RulesStay
    <3>7. /\ cur.k \in 1..(Len(cur.rule.patterns) + 1)
          /\ Uses(fast_scan_patterns, cur.pattern_ids, cur.rule, cur.k - 1, next_pattern_id)
      BY <1>1, <3>1 DEF RuleInv
    <3>8. cur.k - 1 = Len(cur.rule.patterns)
      <4>1. PICK l, k : l = Len(cur.rule.patterns) /\ k = cur.k
        OBVIOUS
      <4>2. l \in Nat /\ k > l /\ k \in 1..(l + 1)
        BY <2>5, <3>1, <3>7, <4>1
      <4>3. k - 1 = l
        BY ONLY <4>2
      <4> QED
        BY <4>1, <4>3
    <3>9. Uses(fast_scan_patterns', cur'.pattern_ids, cur'.rule, Len(cur'.rule.patterns), next_pattern_id')
      BY <2>1, <3>7, <3>8
    <3>10. rules'[Len(rules')] = [ident |-> cur'.rule.ident, namespace |-> namespace'.id, patterns |-> cur'.pattern_ids]
      BY <2>1, <3>5 DEF r
    <3>11. cur'.k \in 0..Len(cur'.rule.patterns)
      BY <2>1, <2>5, <3>2
    <3>12. pc' # "assign" /\ pc' \notin {"patterns", "condition", "slow", "result"}
      BY <3>1
    <3> QED
      BY <1>1, <2>1, <2>4, <3>3, <3>5, <3>6, <3>9, <3>10, <3>11, <3>12 DEF RuleInv
  <2>8. CASE NextPattern \/ CRegexp \/ AddSubPattern \/ FinishPattern
    <3>1. UNCHANGED rules /\ pc \in PushedPcs
      BY <2>8 DEF NextPattern, CRegexp, AddSubPattern, FinishPattern, PushedPcs, tables
    <3>2. pc' \in PushedPcs
      <4>1. pc' \in {"next", "compile", "refused", "panic"}
        BY <2>8 DEF NextPattern, CRegexp, AddSubPattern, FinishPattern
      <4> QED
        BY <2>1, <4>1 DEF PushedPcs, RulePcs
    <3>3. pc' # "assign" /\ pc' \notin {"patterns", "condition", "slow", "result"}
      BY <3>2 DEF PushedPcs
    <3>4. \A i \in 1..Len(accepted') : RuleIs(fast_scan_patterns', rules'[i], accepted'[i], KeptPatterns')
      BY <2>1, <2>2, <2>3, <3>1, RulesStay
    <3>5. cur.k \in 0..Len(cur.rule.patterns)
      BY <1>1, <3>1 DEF RuleInv
    <3>6. cur'.k \in 0..Len(cur'.rule.patterns)
      <4>1. CASE NextPattern
        <5>1. cur'.k = cur.k + 1 /\ cur.k < Len(cur.rule.patterns)
          BY <2>5, <4>1 DEF NextPattern, CurFields
        <5> QED
          BY <2>1, <2>5, <3>5, <5>1
      <4>2. CASE CRegexp \/ AddSubPattern \/ FinishPattern
        <5>1. cur'.k = cur.k
          BY <2>5, <4>2 DEF CRegexp, AddSubPattern, FinishPattern, CurFields
        <5> QED
          BY <2>1, <3>5, <5>1
      <4> QED
        BY <2>8, <4>1, <4>2
    <3> QED
      BY <1>1, <2>1, <2>4, <3>1, <3>2, <3>3, <3>4, <3>6 DEF RuleInv
  <2> QED
    BY <1>6, <2>6, <2>7, <2>8 DEF Inside
<1>7. CASE CommitRule
  <2> DEFINE a == [rule |-> cur.rule, namespace |-> namespace.id]
             r == [ident |-> cur.rule.ident, namespace |-> namespace.id, patterns |-> cur.pattern_ids]
             n == Len(accepted)
  <2>1. /\ pc = "next" /\ accepted' = Append(accepted, a)
        /\ UNCHANGED <<rules, fast_scan_patterns, next_pattern_id>> /\ pc' \notin RulePcs
        /\ pc' \notin PushedPcs /\ pc' # "assign" /\ pc' \notin {"patterns", "condition", "slow", "result"}
    BY <1>7 DEF CommitRule, tables, RulePcs, PushedPcs
  <2>2. pc \in PushedPcs /\ pc \in RulePcs
    BY <2>1 DEF PushedPcs, RulePcs
  <2>3. Len(rules) = n + 1 /\ rules[n + 1] = r /\ cur.rule \in Decls
    BY <1>1, <2>2 DEF RuleInv, Shape
  <2>4. Uses(fast_scan_patterns, cur.pattern_ids, cur.rule, Len(cur.rule.patterns), next_pattern_id)
    BY <1>1, <2>2 DEF RuleInv
  <2>5. RuleIs(fast_scan_patterns, r, a, next_pattern_id)
    BY <2>3, <2>4 DEF RuleIs
  <2> HIDE DEF r, a
  <2>6. IsSeq(accepted') /\ Len(accepted') = n + 1 /\ accepted'[n + 1] = a
        /\ \A i \in 1..n : accepted'[i] = accepted[i]
    BY <1>1, <2>1, AppendIs
  <2>7. KeptPatterns' = next_pattern_id
    BY <2>1 DEF KeptPatterns
  <2>8. ASSUME NEW i \in 1..n
        PROVE  RuleIs(fast_scan_patterns, rules[i], accepted[i], next_pattern_id)
    <3>1. RuleIs(fast_scan_patterns, rules[i], accepted[i], KeptPatterns)
      BY <1>1 DEF RuleInv
    <3>2. accepted[i].rule \in Decls
      BY <3>1 DEF RuleIs
    <3>3. Len(accepted[i].rule.patterns) \in Nat
      BY <3>2, CompilerAssumption
    <3>4. Uses(fast_scan_patterns, rules[i].patterns, accepted[i].rule,
               Len(accepted[i].rule.patterns), KeptPatterns)
      BY <3>1 DEF RuleIs
    <3>5. Cleared(fast_scan_patterns, fast_scan_patterns, KeptPatterns) /\ KeptPatterns <= next_pattern_id
      BY <1>1, KeptIsNat DEF Cleared
    <3>6. Uses(fast_scan_patterns, rules[i].patterns, accepted[i].rule,
               Len(accepted[i].rule.patterns), next_pattern_id)
      BY <1>1, <3>3, <3>4, <3>5, UsesStay
    <3> QED
      BY <3>1, <3>6 DEF RuleIs
  <2>9. ASSUME NEW i \in 1..(n + 1)
        PROVE  RuleIs(fast_scan_patterns, rules[i], accepted'[i], next_pattern_id)
    <3>1. CASE i \in 1..n
      BY <2>6, <2>8, <3>1
    <3>2. CASE i = n + 1
      BY <2>3, <2>5, <2>6, <3>2
    <3> QED
      BY <1>1, <3>1, <3>2
  <2> QED
    BY <1>1, <2>1, <2>3, <2>6, <2>7, <2>9 DEF RuleInv
<1> QED
  BY <1>2, <1>3, <1>4, <1>5, <1>6, <1>7, StepIs

-----------------------------------------------------------------------------
(* The bounds of the patterns                                              *)

LEMMA BoundStep ==
  ASSUME IInv, Step, PatternInv', Shape'
  PROVE  BoundInv'
<1>1. /\ BoundInv /\ PatternInv /\ Shape /\ DOMAIN cur = CurFields
      /\ DOMAIN filesize_bounds \cup DOMAIN header_constraints \subseteq 0..(next_pattern_id - 1)
      /\ next_pattern_id \in Nat
  BY DEF IInv, BoundInv, PatternInv, Shape
<1>2. CASE Outside
  <2>1. UNCHANGED <<filesize_bounds, header_constraints, next_pattern_id>>
        /\ pc' \in RestPcs /\ pc' \notin RulePcs
    BY <1>2, OutsideKeeps DEF tables
  <2> QED
    BY <1>1, <2>1 DEF BoundInv, RestPcs
<1>3. CASE \E d \in Decls : Takes(d)
  <2>1. PICK d \in Decls : Takes(d)
    BY <1>3
  <2>2. UNCHANGED <<filesize_bounds, header_constraints, next_pattern_id>> /\ pc' = "patterns"
    BY <2>1 DEF Takes, tables
  <2>3. cur'.pending = {}
    BY <2>1, RuleFields DEF Takes
  <2> QED
    BY <1>1, <2>2, <2>3 DEF BoundInv
<1>4. CASE Rollback
  <2> DEFINE n == cur.snapshot.next_pattern_id
  <2>1. n \in 0..next_pattern_id /\ next_pattern_id' = n /\ pc' = "items" /\ pc' \notin RulePcs
    BY <1>4, RollbackKeeps
  <2>2. /\ filesize_bounds' = Restrict(filesize_bounds, {i \in DOMAIN filesize_bounds : i < n})
        /\ header_constraints' = Restrict(header_constraints, {i \in DOMAIN header_constraints : i < n})
    BY <1>4 DEF Rollback, RestoreSnapshot, RestoreMaps
  <2> HIDE DEF n
  <2>3. DOMAIN filesize_bounds' \cup DOMAIN header_constraints' \subseteq 0..(n - 1)
    <3>1. \A i \in 0..(next_pattern_id - 1) : i < n => i \in 0..(n - 1)
      BY <1>1, <2>1
    <3>2. DOMAIN filesize_bounds' = {i \in DOMAIN filesize_bounds : i < n}
      BY <2>2 DEF Restrict
    <3>3. DOMAIN header_constraints' = {i \in DOMAIN header_constraints : i < n}
      BY <2>2 DEF Restrict
    <3> QED
      BY <1>1, <3>1, <3>2, <3>3
  <2> QED
    BY <2>1, <2>3 DEF BoundInv
<1>5. CASE Assigns
  <2>1. PICK id : Assigned(id)
    BY <1>5, AssignsAssigns
  <2>2. UNCHANGED <<filesize_bounds, header_constraints>> /\ pc = "assign" /\ pc' = "assign"
    BY <1>5 DEF Assigns
  <2>3. pc \in RulePcs
    BY <2>2 DEF RulePcs
  <2>4. \A j \in 0..(next_pattern_id - 1) : j \in 0..(next_pattern_id' - 1) /\ j # next_pattern_id
    <3>1. next_pattern_id' = next_pattern_id \/ next_pattern_id' = next_pattern_id + 1
      BY <2>1 DEF Assigned
    <3> QED
      BY <1>1, <3>1
  <2>5. \A j \in cur'.pending : j \in cur.pending \/ (j = next_pattern_id /\ j \in 0..(next_pattern_id' - 1))
    BY <2>1 DEF Assigned
  <2>6. /\ cur.pending \subseteq 0..(next_pattern_id - 1)
        /\ cur.pending \cap DOMAIN filesize_bounds = {}
        /\ cur.pending \cap DOMAIN header_constraints = {}
    BY <1>1, <2>3 DEF BoundInv
  <2>7. /\ cur'.pending \subseteq 0..(next_pattern_id' - 1)
        /\ cur'.pending \cap DOMAIN filesize_bounds = {}
        /\ cur'.pending \cap DOMAIN header_constraints = {}
    BY <1>1, <2>4, <2>5, <2>6
  <2>8. DOMAIN filesize_bounds \cup DOMAIN header_constraints \subseteq 0..(next_pattern_id' - 1)
    BY <1>1, <2>4
  <2> QED
    BY <2>2, <2>7, <2>8 DEF BoundInv
<1>6. CASE Inside
  <2>1. /\ pc \in RulePcs /\ pc' \in RulePcs /\ UNCHANGED next_pattern_id
        /\ cur'.pattern_ids = cur.pattern_ids
    BY <1>6, InsideKeeps
  <2>2. /\ cur.pending \subseteq 0..(next_pattern_id - 1)
        /\ cur.pending \cap DOMAIN filesize_bounds = {}
        /\ cur.pending \cap DOMAIN header_constraints = {}
    BY <1>1, <2>1 DEF BoundInv
  <2>3. CASE Passes \/ ConditionFromAst \/ PushRule \/ CRegexp \/ AddSubPattern
    <3>1. UNCHANGED <<filesize_bounds, header_constraints>>
      BY <2>3 DEF Passes, ConditionFromAst, PushRule, CRegexp, AddSubPattern, tables
    <3>2. cur'.pending = cur.pending
      BY <1>1, <2>3 DEF Passes, ConditionFromAst, PushRule, CRegexp, AddSubPattern, CurFields
    <3>3. pc' = "compile" => pc = "compile" /\ cur'.k = cur.k
      BY <1>1, <2>3 DEF Passes, ConditionFromAst, PushRule, CRegexp, AddSubPattern, CurFields
    <3> QED
      BY <1>1, <2>1, <2>2, <3>1, <3>2, <3>3 DEF BoundInv
  <2>4. CASE NextPattern
    <3>1. /\ UNCHANGED <<filesize_bounds, header_constraints>> /\ pc = "next"
          /\ pc' = IF cur.pattern_ids[cur.k + 1] \in cur.pending THEN "compile" ELSE "next"
      BY <2>4 DEF NextPattern, tables
    <3>2. cur'.pending = cur.pending /\ cur'.k = cur.k + 1
      BY <1>1, <2>4 DEF NextPattern, CurFields
    <3>3. cur.k \in 0..Len(cur.rule.patterns) /\ cur.rule \in Decls
      BY <1>1, <2>1, <3>1 DEF IInv, RuleInv, PushedPcs, Shape
    <3>4. Len(cur.rule.patterns) \in Nat
      BY <3>3, CompilerAssumption
    <3>5. cur.k + 1 # 0
      BY <3>3, <3>4
    <3>6. pc' = "compile" => cur'.k # 0 /\ cur'.pattern_ids[cur'.k] \in cur'.pending
      BY <2>1, <3>1, <3>2, <3>5
    <3> QED
      BY <1>1, <2>1, <2>2, <3>1, <3>2, <3>6 DEF BoundInv
  <2>5. CASE FinishPattern
    <3> DEFINE id == cur.pattern_ids[cur.k]
    <3>1. pc = "compile" /\ pc' # "compile"
      BY <2>5 DEF FinishPattern
    <3>2. id \in cur.pending
      BY <1>1, <3>1 DEF BoundInv
    <3>3. cur'.pending = cur.pending \ {id}
      BY <1>1, <2>5 DEF FinishPattern, StillPending, CurFields
    <3>4. filesize_bounds' = filesize_bounds \/ filesize_bounds' = Put(filesize_bounds, id, cur.rule.filesize_bounds)
      BY <2>5 DEF FinishPattern
    <3>5. header_constraints' = header_constraints
          \/ header_constraints' = Put(header_constraints, id, cur.rule.header_constraints)
      BY <2>5 DEF FinishPattern
    <3> HIDE DEF id
    <3>6. DOMAIN filesize_bounds' \subseteq DOMAIN filesize_bounds \cup {id}
      BY <3>4 DEF Put
    <3>7. DOMAIN header_constraints' \subseteq DOMAIN header_constraints \cup {id}
      BY <3>5 DEF Put
    <3>8. DOMAIN filesize_bounds' \cup DOMAIN header_constraints' \subseteq 0..(next_pattern_id - 1)
      BY <1>1, <2>2, <3>2, <3>6, <3>7
    <3>9. /\ cur'.pending \subseteq 0..(next_pattern_id - 1)
          /\ cur'.pending \cap DOMAIN filesize_bounds' = {}
          /\ cur'.pending \cap DOMAIN header_constraints' = {}
      BY <2>2, <3>3, <3>6, <3>7
    <3> QED
      BY <2>1, <3>1, <3>8, <3>9 DEF BoundInv
  <2> QED
    BY <1>6, <2>3, <2>4, <2>5 DEF Inside
<1>7. CASE CommitRule
  <2>1. UNCHANGED <<filesize_bounds, header_constraints, next_pattern_id>>
        /\ pc' \notin RulePcs /\ pc' # "compile"
    BY <1>7 DEF CommitRule, tables, RulePcs
  <2> QED
    BY <1>1, <2>1 DEF BoundInv
<1> QED
  BY <1>2, <1>3, <1>4, <1>5, <1>6, <1>7, StepIs

-----------------------------------------------------------------------------
(* The symbols and the code of the rules                                   *)

LEMMA CodeStays ==
  ASSUME CodeInv, UNCHANGED <<wasm_mod, accepted, root_struct, namespace>>,
         symbol_table'[2] = symbol_table[2]
  PROVE  CodeInv'
BY DEF CodeInv

LEMMA CodeStep ==
  ASSUME IInv, Step
  PROVE  CodeInv'
<1>1. CodeInv /\ IsSeq(symbol_table) /\ Len(symbol_table) >= 2 /\ Len(symbol_table) \in Nat
  BY SeqIs DEF IInv, NameInv
<1>2. CASE \/ AddSource \/ Build \/ EndSource \/ (\E f \in Files : IncludeItem(f))
           \/ (\E d \in Decls : \E kind, others : Rejects(d, kind, others)) \/ (\E d \in Decls : Takes(d))
           \/ Passes \/ Assigns \/ PushRule \/ NextPattern \/ CRegexp \/ AddSubPattern \/ FinishPattern
  <2>1. UNCHANGED <<wasm_mod, accepted, root_struct, namespace, symbol_table>>
    BY <1>2 DEF AddSource, Build, EndSource, IncludeItem, Rejects, Takes, Passes, Assigns, PushRule,
       NextPattern, CRegexp, AddSubPattern, FinishPattern, names
  <2> QED
    BY <1>1, <2>1, CodeStays
<1>3. CASE \E v \in Variables : DefineGlobal(v)
  <2>1. PICK v \in Variables : DefineGlobal(v)
    BY <1>3
  <2>2. /\ UNCHANGED <<wasm_mod, accepted, namespace>> /\ root_struct' = Put(root_struct, v, "var")
        /\ \/ UNCHANGED symbol_table
           \/ symbol_table' = [symbol_table EXCEPT ![1] = Put(@, v, Symbol("var", 0))]
    BY <2>1 DEF DefineGlobal
  <2>3. symbol_table'[2] = symbol_table[2]
    BY <1>1, <2>2
  <2>4. \A x \in DOMAIN root_struct' : root_struct'[x] # "rule"
    BY <1>1, <2>2 DEF Put, CodeInv
  <2> QED
    BY <1>1, <2>2, <2>3, <2>4 DEF CodeInv
<1>4. CASE \E n \in Namespaces : NewNamespace(n)
  <2>1. PICK n \in Namespaces : NewNamespace(n)
    BY <1>4
  <2>2. /\ UNCHANGED <<wasm_mod, accepted, root_struct>> /\ pc = "idle"
        /\ symbol_table' = Append(Front(symbol_table), Empty)
    BY <2>1 DEF NewNamespace, Call
  <2>3. Len(symbol_table) = 2
    BY <2>2 DEF IInv, NameInv, RestPcs
  <2>4. symbol_table # <<>>
    BY <1>1, <2>3, SeqIs
  <2>5. PICK f : f = Front(symbol_table)
    OBVIOUS
  <2>6. symbol_table'[2] = Empty
    <3>1. IsSeq(f) /\ Len(f) = Len(symbol_table) - 1
      BY <1>1, <2>4, <2>5, FrontIs
    <3>2. Len(f) = 1
      BY <2>3, <3>1
    <3>3. Append(f, Empty)[Len(f) + 1] = Empty
      BY <3>1, AppendIs
    <3>4. Len(f) + 1 = 2
      BY <3>2
    <3>5. symbol_table' = Append(f, Empty)
      BY <2>2, <2>5
    <3> QED
      BY <3>3, <3>4, <3>5
  <2>7. DOMAIN symbol_table'[2] = {}
    BY <2>6 DEF Empty
  <2> QED
    BY <1>1, <2>2, <2>7 DEF CodeInv
<1>5. CASE \E m \in ModuleNames : ImportItem(m)
  <2>1. PICK m \in ModuleNames : ImportItem(m)
    BY <1>5
  <2>2. UNCHANGED <<wasm_mod, accepted, namespace>>
    BY <2>1 DEF ImportItem
  <2>3. CASE m \notin Modules
    <3>1. UNCHANGED <<root_struct, symbol_table>>
      BY <2>1, <2>3 DEF ImportItem
    <3> QED
      BY <1>1, <2>2, <3>1, CodeStays
  <2>4. CASE m \in Modules
    <3>1. /\ \/ root_struct' = root_struct /\ m \in DOMAIN root_struct
             \/ root_struct' = Put(root_struct, m, "module")
          /\ \/ UNCHANGED symbol_table
             \/ symbol_table' = [symbol_table EXCEPT ![2] = Put(@, m, Symbol(root_struct'[m], 0))]
      BY <2>1, <2>4 DEF ImportItem
    <3>2. \A x \in DOMAIN root_struct' : root_struct'[x] # "rule"
      BY <1>1, <3>1 DEF Put, CodeInv
    <3>3. m \in DOMAIN root_struct'
      BY <3>1 DEF Put
    <3>4. CASE UNCHANGED symbol_table
      BY <1>1, <2>2, <3>2, <3>4 DEF CodeInv
    <3>5. CASE symbol_table' = [symbol_table EXCEPT ![2] = Put(@, m, Symbol(root_struct'[m], 0))]
      <4>1. symbol_table'[2] = Put(symbol_table[2], m, Symbol(root_struct'[m], 0))
        BY <1>1, <3>5, ExceptIs
      <4>2. \A x \in DOMAIN symbol_table'[2] :
              \/ x = m /\ symbol_table'[2][x].kind # "rule"
              \/ x \in DOMAIN symbol_table[2] /\ symbol_table'[2][x] = symbol_table[2][x]
        BY <3>2, <3>3, <4>1 DEF Put, Symbol
      <4> QED
        BY <1>1, <2>2, <3>2, <4>2 DEF CodeInv
    <3> QED
      BY <3>1, <3>4, <3>5
  <2> QED
    BY <2>3, <2>4
<1>6. CASE Rollback
  <2>1. UNCHANGED <<wasm_mod, accepted, root_struct, namespace>> /\ pc \in RulePcs
        /\ symbol_table' = Truncate(symbol_table, cur.snapshot.symbol_table_len)
    BY <1>6 DEF Rollback, names, RestoreSnapshot, RestoreScopes
  <2>2. cur.snapshot.symbol_table_len = 2
    BY <2>1 DEF IInv, NameInv
  <2>3. symbol_table'[2] = symbol_table[2]
    BY <1>1, <2>1, <2>2, TruncateIs
  <2> QED
    BY <1>1, <2>1, <2>3, CodeStays
<1>7. CASE ConditionFromAst
  <2>1. UNCHANGED <<wasm_mod, accepted, root_struct, namespace>>
    BY <1>7 DEF ConditionFromAst, names
  <2>2. UNCHANGED symbol_table \/ \E e : symbol_table' = Append(symbol_table, e)
    BY <1>7 DEF ConditionFromAst
  <2>3. symbol_table'[2] = symbol_table[2]
    BY <1>1, <2>2, AppendIs
  <2> QED
    BY <1>1, <2>1, <2>3, CodeStays
<1>8. CASE CommitRule
  <2> DEFINE n == Len(accepted)
             a == [rule |-> cur.rule, namespace |-> namespace.id]
             w == [namespace |-> namespace.id, rule |-> RuleId]
             x == cur.rule.ident
  <2>1. /\ pc = "next" /\ UNCHANGED <<root_struct, namespace>>
        /\ accepted' = Append(accepted, a) /\ wasm_mod' = Append(wasm_mod, w)
        /\ symbol_table' = [symbol_table EXCEPT ![2] = Put(@, x, Symbol("rule", RuleId))]
    BY <1>8 DEF CommitRule, names
  <2>2. IsSeq(accepted) /\ n \in Nat /\ IsSeq(wasm_mod) /\ Len(wasm_mod) = n /\ Len(rules) = n + 1
    BY <2>1, SeqIs DEF IInv, RuleInv, CodeInv, PushedPcs
  <2>3. RuleId = n
    BY <2>2 DEF RuleId
  <2>4. a.rule.ident = x /\ a.namespace = namespace.id /\ w = [namespace |-> a.namespace, rule |-> (n + 1) - 1]
    BY <2>2, <2>3
  <2>5. symbol_table'[2] = Put(symbol_table[2], x, Symbol("rule", n))
    BY <1>1, <2>1, <2>3, ExceptIs
  <2> HIDE DEF a, w, x
  <2>6. IsSeq(accepted') /\ Len(accepted') = n + 1 /\ accepted'[n + 1] = a
        /\ \A i \in 1..n : accepted'[i] = accepted[i]
    BY <2>1, <2>2, AppendIs
  <2>7. IsSeq(wasm_mod') /\ Len(wasm_mod') = n + 1 /\ wasm_mod'[n + 1] = w
        /\ \A i \in 1..n : wasm_mod'[i] = wasm_mod[i]
    BY <2>1, <2>2, AppendIs
  <2>8. ASSUME NEW i \in 1..(n + 1)
        PROVE  wasm_mod'[i] = [namespace |-> accepted'[i].namespace, rule |-> i - 1]
    <3>1. CASE i \in 1..n
      BY <1>1, <2>6, <2>7, <3>1 DEF CodeInv
    <3>2. CASE i = n + 1
      BY <2>4, <2>6, <2>7, <3>2
    <3> QED
      BY <2>2, <3>1, <3>2
  <2>9. ASSUME NEW y \in DOMAIN symbol_table'[2], symbol_table'[2][y].kind = "rule"
        PROVE  LET i == symbol_table'[2][y].id + 1
               IN i \in 1..(n + 1) /\ accepted'[i].rule.ident = y /\ accepted'[i].namespace = namespace.id
    <3>1. CASE y = x
      <4>1. symbol_table'[2][y].id = n
        BY <2>5, <3>1 DEF Put, Symbol
      <4> QED
        BY <2>2, <2>4, <2>6, <3>1, <4>1
    <3>2. CASE y # x
      <4>1. y \in DOMAIN symbol_table[2] /\ symbol_table'[2][y] = symbol_table[2][y]
        BY <2>5, <3>2 DEF Put
      <4> DEFINE i == symbol_table[2][y].id + 1
      <4>2. i \in 1..n /\ accepted[i].rule.ident = y /\ accepted[i].namespace = namespace.id
        BY <1>1, <2>9, <4>1 DEF CodeInv
      <4> HIDE DEF i
      <4>3. i \in 1..(n + 1) /\ accepted'[i].rule.ident = y /\ accepted'[i].namespace = namespace.id
        BY <2>2, <2>6, <4>2
      <4> QED
        BY <4>1, <4>3 DEF i
    <3> QED
      BY <3>1, <3>2
  <2> QED
    BY <1>1, <2>1, <2>6, <2>7, <2>8, <2>9 DEF CodeInv
<1> QED
  BY <1>2, <1>3, <1>4, <1>5, <1>6, <1>7, <1>8 DEF Step, Fails, Ignores

-----------------------------------------------------------------------------
(* The calls that compiling a pattern makes                                *)

LEMMA GoodEmpty ==
  ASSUME NEW P
  PROVE  GoodCalls(P, <<>>)
BY EmptyIs DEF GoodCalls

LEMMA GoodRegexp ==
  ASSUME NEW P, NEW piece \in P
  PROVE  GoodCalls(P, CallRegexp(piece))
<1> DEFINE c == [call |-> "c_regexp", piece |-> piece]
<1>1. GoodCall(P, c)
  BY DEF GoodCall
<1> HIDE DEF c
<1>2. IsSeq(<<c>>) /\ Len(<<c>>) = 1 /\ <<c>>[1] = c
  BY OneIs
<1>3. GoodCalls(P, <<c>>)
  BY <1>1, <1>2 DEF GoodCalls
<1> QED
  BY <1>3 DEF c, CallRegexp

LEMMA GoodAdd ==
  ASSUME NEW P, NEW kind, NEW wide, NEW anchored_at, NEW left, NEW right, NEW last,
         anchored_at = {} \/ kind = "Literal"
  PROVE  GoodCalls(P, CallAdd(kind, wide, anchored_at, left, right, last))
<1> DEFINE c == [call |-> "add_sub_pattern", kind |-> kind, wide |-> wide, anchored_at |-> anchored_at,
                 left |-> left, right |-> right, last |-> last]
<1>1. c.anchored_at = anchored_at /\ c.kind = kind
  OBVIOUS
<1>2. GoodCall(P, c)
  BY <1>1 DEF GoodCall
<1> HIDE DEF c
<1>3. IsSeq(<<c>>) /\ Len(<<c>>) = 1 /\ <<c>>[1] = c
  BY OneIs
<1>4. GoodCalls(P, <<c>>)
  BY <1>2, <1>3 DEF GoodCalls
<1> QED
  BY <1>4 DEF c, CallAdd

LEMMA GoodConcat ==
  ASSUME NEW P, NEW s, NEW t, GoodCalls(P, s), GoodCalls(P, t)
  PROVE  GoodCalls(P, s \o t)
<1>1. IsSeq(s) /\ IsSeq(t)
  BY DEF GoodCalls
<1>2. Len(s) \in Nat /\ Len(t) \in Nat
  BY <1>1, SeqIs
<1>3. PICK u : u = s \o t
  OBVIOUS
<1>4. /\ IsSeq(u) /\ Len(u) = Len(s) + Len(t)
      /\ \A i \in 1..Len(s) : u[i] = s[i]
      /\ \A i \in 1..Len(t) : u[Len(s) + i] = t[i]
  BY <1>1, <1>3, ConcatIs
<1>5. ASSUME NEW i \in 1..Len(u) PROVE GoodCall(P, u[i])
  <2>1. CASE i \in 1..Len(s)
    BY <1>4, <2>1 DEF GoodCalls
  <2>2. CASE i \notin 1..Len(s)
    <3>1. i - Len(s) \in 1..Len(t) /\ Len(s) + (i - Len(s)) = i
      BY <1>2, <1>4, <2>2
    <3>2. u[i] = t[i - Len(s)]
      BY <1>4, <3>1
    <3> QED
      BY <3>1, <3>2 DEF GoodCalls
  <2> QED
    BY <2>1, <2>2
<1> QED
  BY <1>3, <1>4, <1>5 DEF GoodCalls

LEMMA GoodFlatten ==
  ASSUME NEW P, NEW ss, NEW n \in Nat \ {0}, Len(ss) = n, \A i \in 1..n : GoodCalls(P, ss[i])
  PROVE  GoodCalls(P, FlattenSeq(ss))
<1>1. PICK g : Flattens(g, ss, n) /\ FlattenSeq(ss) = g[n]
  BY FlattenIs
<1> DEFINE T == {i \in 1..n : ~GoodCalls(P, g[i])}
<1>2. T = {}
  <2> SUFFICES ASSUME T # {} PROVE FALSE
    OBVIOUS
  <2>1. PICK i \in T : \A y \in T : i <= y
    <3>1. T \subseteq Nat
      OBVIOUS
    <3> HIDE DEF T
    <3> QED
      BY <3>1, LeastIs
  <2>2. i \in 1..n /\ ~GoodCalls(P, g[i])
    OBVIOUS
  <2>3. g[i] = IF i = 1 THEN ss[i] ELSE g[i - 1] \o ss[i]
    BY <1>1, <2>2 DEF Flattens
  <2>4. CASE i = 1
    BY <2>2, <2>3, <2>4
  <2>5. CASE i # 1
    <3>1. i - 1 \in 1..n /\ ~(i <= i - 1)
      BY <2>2, <2>5
    <3>2. GoodCalls(P, g[i - 1])
      BY <2>1, <3>1
    <3>3. GoodCalls(P, g[i - 1] \o ss[i])
      BY <2>2, <3>2, GoodConcat
    <3> QED
      BY <2>2, <2>3, <2>5, <3>3
  <2> QED
    BY <2>4, <2>5
<1>3. n \in 1..n
  OBVIOUS
<1> QED
  BY <1>1, <1>2, <1>3

LEMMA GoodWhen ==
  ASSUME NEW P, NEW p, NEW s, GoodCalls(P, s)
  PROVE  GoodCalls(P, When(IsWide(p), s)) /\ GoodCalls(P, When(IsRaw(p), s))
BY GoodEmpty DEF When

LEMMA GoodWhole ==
  ASSUME NEW P, NEW p, NEW kind, NEW wide, NEW anchored_at, anchored_at = {} \/ kind = "Literal"
  PROVE  GoodCalls(P, CallWhole(p, kind, wide, anchored_at))
BY GoodAdd DEF CallWhole

LEMMA GoodLiteral ==
  ASSUME NEW P, NEW p, NEW wide
  PROVE  GoodCalls(P, CLiteralMain(p, wide))
<1>1. CASE "xor" \in p.mods
  <2>1. CLiteralMain(p, wide) = CallWhole(p, "Xor", wide, {})
    BY <1>1 DEF CLiteralMain
  <2> QED
    BY <2>1, GoodWhole
<1>2. CASE "xor" \notin p.mods /\ "nocase" \in p.mods
  <2>1. CLiteralMain(p, wide) = CallWhole(p, "Literal", wide, {})
    BY <1>2 DEF CLiteralMain
  <2> QED
    BY <2>1, GoodWhole
<1>3. CASE "xor" \notin p.mods /\ "nocase" \notin p.mods /\ {"base64", "base64wide"} \cap p.mods # {}
  <2> DEFINE b == When("base64" \in p.mods, CallWhole(p, "Base64", wide, {}))
             w == When("base64wide" \in p.mods, CallWhole(p, "Base64Wide", wide, {}))
             ss == Repeat(3, b) \o Repeat(3, w)
  <2>1. CLiteralMain(p, wide) = FlattenSeq(ss)
    BY <1>3 DEF CLiteralMain
  <2>2. GoodCalls(P, b) /\ GoodCalls(P, w)
    <3>1. GoodCalls(P, CallWhole(p, "Base64", wide, {})) /\ GoodCalls(P, CallWhole(p, "Base64Wide", wide, {}))
      BY GoodWhole
    <3> QED
      BY <3>1, GoodEmpty DEF When
  <2> HIDE DEF b, w
  <2>3. /\ IsSeq(Repeat(3, b)) /\ Len(Repeat(3, b)) = 3 /\ \A i \in 1..3 : Repeat(3, b)[i] = b
        /\ IsSeq(Repeat(3, w)) /\ Len(Repeat(3, w)) = 3 /\ \A i \in 1..3 : Repeat(3, w)[i] = w
    BY RepeatIs DEF Repeat
  <2>4. PICK x, y : x = Repeat(3, b) /\ y = Repeat(3, w)
    OBVIOUS
  <2>5. /\ Len(x \o y) = Len(x) + Len(y)
        /\ \A i \in 1..Len(x) : (x \o y)[i] = x[i]
        /\ \A i \in 1..Len(y) : (x \o y)[Len(x) + i] = y[i]
    BY <2>3, <2>4, ConcatIs
  <2>6. Len(x) = 3 /\ Len(y) = 3 /\ \A i \in 1..3 : x[i] = b /\ y[i] = w
    BY <2>3, <2>4
  <2>7. PICK u : u = x \o y
    OBVIOUS
  <2>8. Len(u) = 6 /\ (\A i \in 1..3 : u[i] = b) /\ \A i \in 1..3 : u[3 + i] = w
    BY <2>5, <2>6, <2>7
  <2>9. ASSUME NEW i \in 1..6 PROVE GoodCalls(P, u[i])
    <3>1. CASE i \in 1..3
      BY <2>2, <2>8, <3>1
    <3>2. CASE i \notin 1..3
      <4>1. i - 3 \in 1..3 /\ 3 + (i - 3) = i
        BY <3>2
      <4>2. u[i] = w
        BY <2>8, <4>1
      <4> QED
        BY <2>2, <4>2
    <3> QED
      BY <3>1, <3>2
  <2>10. GoodCalls(P, FlattenSeq(u))
    <3>1. 6 \in Nat \ {0} /\ Len(u) = 6 /\ \A i \in 1..6 : GoodCalls(P, u[i])
      BY <2>8, <2>9
    <3> QED
      BY <3>1, GoodFlatten
  <2> QED
    BY <2>1, <2>4, <2>7, <2>10
<1>4. CASE "xor" \notin p.mods /\ "nocase" \notin p.mods /\ {"base64", "base64wide"} \cap p.mods = {}
  <2>1. CLiteralMain(p, wide) = CallWhole(p, "Literal", wide, p.anchored_at)
    BY <1>4 DEF CLiteralMain
  <2> QED
    BY <2>1, GoodWhole
<1> QED
  BY <1>1, <1>2, <1>3, <1>4

LEMMA GoodHead ==
  ASSUME NEW P, NEW p, p.pieces[1] \in P
  PROVE  GoodCalls(P, CChainHead(p))
<1> DEFINE head(kind, wide) == CallAdd(kind, wide, {}, "fullword" \in p.mods, FALSE, FALSE)
<1>1. \A kind, wide : GoodCalls(P, head(kind, wide))
  BY GoodAdd
<1>2. CASE p.pieces[1] = "lit"
  <2>1. CChainHead(p) = When(IsRaw(p), head("LiteralChainHead", FALSE))
                        \o When(IsWide(p), head("LiteralChainHead", TRUE))
    BY <1>2 DEF CChainHead
  <2> HIDE DEF head
  <2> QED
    BY <1>1, <2>1, GoodWhen, GoodConcat
<1>3. CASE p.pieces[1] # "lit"
  <2>1. CChainHead(p) = (CallRegexp(p.pieces[1]) \o When(IsWide(p), head("RegexpChainHead", TRUE)))
                        \o When(IsRaw(p), head("RegexpChainHead", FALSE))
    BY <1>3 DEF CChainHead
  <2> HIDE DEF head
  <2> QED
    BY <1>1, <2>1, GoodRegexp, GoodWhen, GoodConcat
<1> QED
  BY <1>2, <1>3

LEMMA GoodTailOf ==
  ASSUME NEW P, NEW p, NEW i, p.pieces[i] \in P
  PROVE  GoodCalls(P, CChainTail(p, i))
<1> DEFINE last == i = Len(p.pieces)
           kind == IF p.pieces[i] = "lit" THEN "LiteralChainTail" ELSE "RegexpChainTail"
           tail(wide) == CallAdd(kind, wide, {}, FALSE, last /\ "fullword" \in p.mods, last)
           code == When(p.pieces[i] # "lit", CallRegexp(p.pieces[i]))
<1>1. GoodCalls(P, tail(TRUE)) /\ GoodCalls(P, tail(FALSE))
  BY GoodAdd
<1>2. GoodCalls(P, code)
  BY GoodRegexp, GoodEmpty DEF When
<1>3. CChainTail(p, i) = (code \o When(IsWide(p), tail(TRUE))) \o When(IsRaw(p), tail(FALSE))
  BY DEF CChainTail
<1> HIDE DEF tail, code
<1> QED
  BY <1>1, <1>2, <1>3, GoodWhen, GoodConcat

LEMMA PiecesIs ==
  ASSUME NEW p \in AnyPattern
  PROVE  /\ IsSeq(p.pieces) /\ Len(p.pieces) \in Nat /\ Len(p.pieces) > 0
         /\ \A i \in 1..Len(p.pieces) : p.pieces[i] \in AnyPiece
<1>1. p.pieces \in Seq(AnyPiece) /\ Len(p.pieces) > 0
  BY DEF AnyPattern, AnyPiece
<1> QED
  BY <1>1 DEF IsSeq

LEMMA GoodChain ==
  ASSUME NEW P, NEW p \in AnyPattern, Len(p.pieces) > 1, \A i \in 1..Len(p.pieces) : p.pieces[i] \in P
  PROVE  GoodCalls(P, CChain(p))
<1> DEFINE n == Len(p.pieces) - 1
           ss == [i \in 1..n |-> CChainTail(p, i + 1)]
<1>1. n \in Nat \ {0}
  <2>1. p.pieces \in Seq(Regexps \cup {"lit", "alt", "mask"})
    BY DEF AnyPattern
  <2>2. PICK l : l = Len(p.pieces)
    OBVIOUS
  <2>3. l \in Nat /\ l > 1
    BY <2>1, <2>2
  <2>4. l - 1 \in Nat \ {0}
    BY <2>3
  <2> QED
    BY <2>2, <2>4
<1>7. 1 \in 1..Len(p.pieces) /\ \A i \in 1..n : i + 1 \in 1..Len(p.pieces)
  <2>1. PICK l : l = Len(p.pieces)
    OBVIOUS
  <2>2. l \in Nat /\ l > 1
    BY <2>1, PiecesIs
  <2>3. 1 \in 1..l /\ \A i \in 1..(l - 1) : i + 1 \in 1..l
    BY <2>2
  <2> QED
    BY <2>1, <2>3
<1>2. GoodCalls(P, CChainHead(p))
  BY <1>7, GoodHead
<1>3. \A i \in 1..n : GoodCalls(P, CChainTail(p, i + 1))
  BY <1>7, GoodTailOf
<1>4. Len(ss) = n /\ \A i \in 1..n : ss[i] = CChainTail(p, i + 1)
  BY <1>1
<1>5. CChain(p) = CChainHead(p) \o FlattenSeq(ss)
  BY DEF CChain
<1> HIDE DEF ss, n
<1>6. GoodCalls(P, FlattenSeq(ss))
  BY <1>1, <1>3, <1>4, GoodFlatten
<1> QED
  BY <1>2, <1>5, <1>6, GoodConcat

\* A pattern of any kind anchors only its literals.
LEMMA CallsAreGood ==
  ASSUME NEW P, NEW p \in AnyPattern, \A i \in 1..Len(p.pieces) : p.pieces[i] \in P
  PROVE  GoodCalls(P, Calls(p))
<1>1. CASE p.text
  <2>1. Calls(p) = When(IsWide(p), CLiteralMain(p, TRUE)) \o When(IsRaw(p), CLiteralMain(p, FALSE))
    BY <1>1 DEF Calls, CLiteralPattern
  <2> QED
    BY <2>1, GoodLiteral, GoodWhen, GoodConcat
<1>2. CASE ~p.text
  <2>1. Calls(p) = CRegexpPattern(p)
    BY <1>2 DEF Calls
  <2>2. CASE Len(p.pieces) > 1
    <3>1. Calls(p) = CChain(p)
      BY <2>1, <2>2 DEF CRegexpPattern
    <3> QED
      BY <2>2, <3>1, GoodChain
  <2>3. CASE ~(Len(p.pieces) > 1) /\ p.pieces[1] \in {"lit", "alt"}
    <3> DEFINE one == When(IsRaw(p), CallWhole(p, "Literal", FALSE, p.anchored_at))
                      \o When(IsWide(p), CallWhole(p, "Literal", TRUE, p.anchored_at))
    <3>1. Calls(p) = IF p.pieces[1] = "alt" THEN one \o one ELSE one
      BY <2>1, <2>3 DEF CRegexpPattern, CAlternationLiteral
    <3>2. GoodCalls(P, one)
      BY GoodWhole, GoodWhen, GoodConcat
    <3> HIDE DEF one
    <3>3. GoodCalls(P, one \o one)
      BY <3>2, GoodConcat
    <3> QED
      BY <3>1, <3>2, <3>3
  <2>4. CASE /\ ~(Len(p.pieces) > 1) /\ p.pieces[1] \notin {"lit", "alt"}
             /\ p.pieces[1] = "mask" /\ p.mods \cap {"nocase", "wide"} = {}
    <3>1. Calls(p) = CallWhole(p, "LiteralWithMask", FALSE, {})
      BY <2>1, <2>4 DEF CRegexpPattern
    <3> QED
      BY <3>1, GoodWhole
  <2>5. CASE /\ ~(Len(p.pieces) > 1) /\ p.pieces[1] \notin {"lit", "alt"}
             /\ ~(p.pieces[1] = "mask" /\ p.mods \cap {"nocase", "wide"} = {})
    <3>3. p.pieces[1] \in P
      <4>1. PICK l : l = Len(p.pieces)
        OBVIOUS
      <4>2. 1 \in 1..l
        BY <4>1, PiecesIs
      <4> QED
        BY <4>1, <4>2
    <3>1. Calls(p) = (CallRegexp(p.pieces[1]) \o When(IsWide(p), CallWhole(p, "Regexp", TRUE, {})))
                     \o When(IsRaw(p), CallWhole(p, "Regexp", FALSE, {}))
      BY <2>1, <2>5 DEF CRegexpPattern
    <3>2. GoodCalls(P, CallWhole(p, "Regexp", TRUE, {})) /\ GoodCalls(P, CallWhole(p, "Regexp", FALSE, {}))
      BY GoodWhole
    <3> QED
      BY <3>1, <3>2, <3>3, GoodRegexp, GoodWhen, GoodConcat
  <2> QED
    BY <2>2, <2>3, <2>4, <2>5
<1> QED
  BY <1>1, <1>2

-----------------------------------------------------------------------------
(* Sub-patterns, atoms and code                                            *)

LEMMA GoodTail ==
  ASSUME NEW P, NEW s, GoodCalls(P, s), s # <<>>
  PROVE  GoodCall(P, Head(s)) /\ GoodCalls(P, Tail(s))
<1>1. PICK S : s \in Seq(S)
  BY DEF GoodCalls, IsSeq
<1>2. Len(s) \in Nat /\ Len(s) # 0
  BY <1>1, EmptySeq
<1>3. Head(s) = s[1] /\ 1 \in 1..Len(s)
  BY <1>1, <1>2
<1>4. Tail(s) \in Seq(S) /\ Len(Tail(s)) = Len(s) - 1 /\ \A i \in 1..(Len(s) - 1) : Tail(s)[i] = s[i + 1]
  BY <1>1, HeadTailProperties
<1>5. IsSeq(Tail(s))
  BY <1>4 DEF IsSeq
<1>6. ASSUME NEW i \in 1..Len(Tail(s)) PROVE GoodCall(P, Tail(s)[i])
  <2>1. i \in 1..(Len(s) - 1) /\ i + 1 \in 1..Len(s)
    BY <1>2, <1>4
  <2>2. Tail(s)[i] = s[i + 1]
    BY <1>4, <2>1
  <2> QED
    BY <2>1, <2>2 DEF GoodCalls
<1> QED
  BY <1>3, <1>5, <1>6 DEF GoodCalls

LEMMA CodeIs ==
  ASSUME NEW piece
  PROVE  IsSeq(CodeOf(piece))
<1>1. IsSeq(<< <<"fast", piece>> >>) /\ IsSeq(<< <<"wasted", piece>> >>) /\ IsSeq(<< <<"pike", piece>> >>)
  BY OneIs
<1>2. IsSeq(When(piece \in WastedRegexps, << <<"wasted", piece>> >>))
  BY <1>1, EmptyIs DEF When
<1>3. IsSeq(When(piece \in WastedRegexps, << <<"wasted", piece>> >>) \o << <<"pike", piece>> >>)
  BY <1>1, <1>2, ConcatIs
<1> QED
  BY <1>1, <1>3 DEF CodeOf

\* Adding patterns, code and anchored sub-patterns, and what comes after the
\* first sub-patterns and atoms, does not matter.
LEMMA ReachStays ==
  ASSUME NEW np \in Nat, NEW np2 \in Nat, NEW ns \in Nat, NEW na \in Nat, NEW nc \in Nat, NEW nc2 \in Nat,
         NEW subs, NEW subs2, NEW ats, NEW ats2, NEW anch, NEW anch2,
         Reach(np, ns, na, nc, subs, ats, anch), np <= np2, nc <= nc2,
         \A i \in 1..ns : subs2[i] = subs[i], \A a \in 1..na : ats2[a] = ats[a],
         ToSet(anch) \subseteq ToSet(anch2)
  PROVE  Reach(np2, ns, na, nc2, subs2, ats2, anch2)
<1>1. \A i \in 1..ns : subs2[i].pattern \in 0..(np2 - 1)
  <2>1. \A i \in 1..ns : subs[i].pattern \in 0..(np - 1)
    BY DEF Reach
  <2> QED
    BY <2>1
<1>2. \A a \in 1..na : ats2[a].sub_pattern \in 0..(ns - 1) /\ ats2[a].code \in 0..nc2
  <2>1. \A a \in 1..na : ats[a].sub_pattern \in 0..(ns - 1) /\ ats[a].code \in 0..nc
    BY DEF Reach
  <2> QED
    BY <2>1
<1>3. ASSUME NEW i \in 0..(ns - 1)
      PROVE  IF subs2[i + 1].anchored_at # {}
             THEN i \in ToSet(anch2) /\ \A a \in 1..na : ats2[a].sub_pattern # i
             ELSE \E a \in 1..na : ats2[a].sub_pattern = i
  <2>1. i + 1 \in 1..ns
    OBVIOUS
  <2>2. subs2[i + 1] = subs[i + 1]
    BY <2>1
  <2>3. IF subs[i + 1].anchored_at # {}
        THEN i \in ToSet(anch) /\ \A a \in 1..na : ats[a].sub_pattern # i
        ELSE \E a \in 1..na : ats[a].sub_pattern = i
    BY DEF Reach
  <2> QED
    BY <2>2, <2>3
<1> QED
  BY <1>1, <1>2, <1>3 DEF Reach

Same(t, s, n) == \A i \in 1..n : t[i] = s[i]
NewAtom(subs, ats, np, ns, na, nc) ==
  /\ subs[ns + 1].pattern \in 0..(np - 1) /\ subs[ns + 1].anchored_at = {}
  /\ ats[na + 1].sub_pattern = ns /\ ats[na + 1].code \in 0..nc

\* One more sub-pattern, anchored and in the list.
LEMMA ReachAnchored ==
  ASSUME NEW np \in Nat, NEW ns \in Nat, NEW na \in Nat, NEW nc \in Nat,
         NEW subs, NEW subs2, NEW ats, NEW anch, NEW anch2,
         Reach(np, ns, na, nc, subs, ats, anch), Same(subs2, subs, ns),
         ToSet(anch) \subseteq ToSet(anch2),
         subs2[ns + 1].pattern \in 0..(np - 1),
         subs2[ns + 1].anchored_at # {}, ns \in ToSet(anch2)
  PROVE  Reach(np, ns + 1, na, nc, subs2, ats, anch2)
<1>1. ASSUME NEW i \in 1..(ns + 1) PROVE subs2[i].pattern \in 0..(np - 1)
  <2>1. CASE i \in 1..ns
    BY <2>1 DEF Reach, Same
  <2>2. CASE i = ns + 1
    BY <2>2
  <2> QED
    BY <2>1, <2>2
<1>2. \A a \in 1..na : /\ ats[a].code \in 0..nc
                       /\ ats[a].sub_pattern # ns /\ ats[a].sub_pattern \in 0..((ns + 1) - 1)
  <2>1. \A a \in 1..na : ats[a].sub_pattern \in 0..(ns - 1) /\ ats[a].code \in 0..nc
    BY DEF Reach
  <2> QED
    BY <2>1
<1>3. ASSUME NEW i \in 0..((ns + 1) - 1)
      PROVE  IF subs2[i + 1].anchored_at # {}
             THEN i \in ToSet(anch2) /\ \A a \in 1..na : ats[a].sub_pattern # i
             ELSE \E a \in 1..na : ats[a].sub_pattern = i
  <2>1. CASE i = ns
    BY <1>2, <2>1
  <2>2. CASE i # ns
    <3>1. i \in 0..(ns - 1) /\ i + 1 \in 1..ns
      BY <2>2
    <3>2. subs2[i + 1] = subs[i + 1]
      BY <3>1 DEF Same
    <3> QED
      BY <3>1, <3>2 DEF Reach
  <2> QED
    BY <2>1, <2>2
<1> QED
  BY <1>1, <1>2, <1>3 DEF Reach

\* One more sub-pattern, with an atom.
LEMMA ReachAtom ==
  ASSUME NEW np \in Nat, NEW ns \in Nat, NEW na \in Nat, NEW nc \in Nat,
         NEW subs, NEW subs2, NEW ats, NEW ats2, NEW anch,
         Reach(np, ns, na, nc, subs, ats, anch),
         Same(subs2, subs, ns), Same(ats2, ats, na), NewAtom(subs2, ats2, np, ns, na, nc)
  PROVE  Reach(np, ns + 1, na + 1, nc, subs2, ats2, anch)
<1>1. ASSUME NEW i \in 1..(ns + 1) PROVE subs2[i].pattern \in 0..(np - 1)
  <2>1. CASE i \in 1..ns
    BY <2>1 DEF Reach, Same
  <2>2. CASE i = ns + 1
    BY <2>2 DEF NewAtom
  <2> QED
    BY <2>1, <2>2
<1>2. \A a \in 1..na : ats2[a].sub_pattern \in 0..((ns + 1) - 1) /\ ats2[a].code \in 0..nc
  <2>1. \A a \in 1..na : ats[a].sub_pattern \in 0..(ns - 1) /\ ats[a].code \in 0..nc
    BY DEF Reach
  <2> QED
    BY <2>1 DEF Same
<1>3. ats2[na + 1].sub_pattern = ns /\ ats2[na + 1].code \in 0..nc
  BY DEF NewAtom
<1>4. ASSUME NEW a \in 1..(na + 1)
      PROVE  ats2[a].sub_pattern \in 0..((ns + 1) - 1) /\ ats2[a].code \in 0..nc
  <2>1. CASE a \in 1..na
    BY <1>2, <2>1
  <2>2. CASE a = na + 1
    BY <1>3, <2>2
  <2> QED
    BY <2>1, <2>2
<1>5. ASSUME NEW i \in 0..((ns + 1) - 1)
      PROVE  IF subs2[i + 1].anchored_at # {}
             THEN i \in ToSet(anch) /\ \A a \in 1..(na + 1) : ats2[a].sub_pattern # i
             ELSE \E a \in 1..(na + 1) : ats2[a].sub_pattern = i
  <2>1. CASE i = ns
    <3>1. na + 1 \in 1..(na + 1) /\ subs2[i + 1].anchored_at = {}
      BY <2>1 DEF NewAtom
    <3> QED
      BY <1>3, <2>1, <3>1
  <2>2. CASE i # ns
    <3>1. i \in 0..(ns - 1) /\ i + 1 \in 1..ns
      BY <2>2
    <3>2. subs2[i + 1] = subs[i + 1]
      BY <3>1 DEF Same
    <3>3. IF subs[i + 1].anchored_at # {}
          THEN i \in ToSet(anch) /\ \A a \in 1..na : ats[a].sub_pattern # i
          ELSE \E a \in 1..na : ats[a].sub_pattern = i
      BY <3>1 DEF Reach
    <3>4. \A a \in 1..na : a \in 1..(na + 1) /\ ats2[a] = ats[a]
      BY DEF Same
    <3>5. ats2[na + 1].sub_pattern # i
      BY <1>3, <2>2
    <3>6. CASE subs2[i + 1].anchored_at # {}
      <4>1. ASSUME NEW a \in 1..(na + 1) PROVE ats2[a].sub_pattern # i
        <5>1. a \in 1..na \/ a = na + 1
          OBVIOUS
        <5> QED
          BY <3>2, <3>3, <3>4, <3>5, <3>6, <5>1
      <4> QED
        BY <3>2, <3>3, <3>6, <4>1
    <3>7. CASE subs2[i + 1].anchored_at = {}
      BY <3>2, <3>3, <3>4, <3>7
    <3> QED
      BY <3>6, <3>7
  <2> QED
    BY <2>1, <2>2
<1> QED
  BY <1>1, <1>4, <1>5 DEF Reach

\* A rule's step that only appends to the tables of sub-patterns.
Appends ==
  /\ IsSeq(sub_patterns') /\ Extends(sub_patterns', sub_patterns)
  /\ IsSeq(atoms') /\ Extends(atoms', atoms)
  /\ IsSeq(re_code') /\ Len(re_code) <= Len(re_code')
  /\ IsSeq(anchored_sub_patterns')
  /\ ToSet(anchored_sub_patterns) \subseteq ToSet(anchored_sub_patterns')

LEMMA ExtendsItself ==
  ASSUME NEW s, IsSeq(s)
  PROVE  Extends(s, s)
BY SeqIs DEF Extends

LEMMA AppendedElements ==
  ASSUME NEW s, IsSeq(s), NEW e
  PROVE  ToSet(s) \subseteq ToSet(Append(s, e)) /\ e \in ToSet(Append(s, e))
<1>1. PICK t : t = Append(s, e)
  OBVIOUS
<1>2. /\ IsSeq(t) /\ Len(t) = Len(s) + 1 /\ (\A i \in 1..Len(s) : t[i] = s[i]) /\ t[Len(s) + 1] = e
  BY <1>1, AppendIs
<1>3. DOMAIN s = 1..Len(s) /\ DOMAIN t = 1..Len(t) /\ Len(s) \in Nat
  BY <1>2, SeqIs
<1>4. \A i \in 1..Len(s) : i \in 1..Len(t)
  BY <1>2, <1>3
<1>5. Len(s) + 1 \in 1..Len(t)
  BY <1>2, <1>3
<1>6. ToSet(s) \subseteq ToSet(t) /\ e \in ToSet(t)
  BY <1>2, <1>3, <1>4, <1>5 DEF ToSet
<1> QED
  BY <1>1, <1>6

\* What the snapshot stands for stays when a rule's step only appends.
LEMMA SnapshotStays ==
  ASSUME IInv, Appends, pc \in RulePcs, cur'.snapshot = cur.snapshot
  PROVE  LET s == cur'.snapshot
         IN /\ s.sub_patterns_len \in 0..Len(sub_patterns') /\ s.atoms_len \in 0..Len(atoms')
            /\ s.re_code_len \in 0..Len(re_code')
            /\ Reach(s.next_pattern_id, s.sub_patterns_len, s.atoms_len, s.re_code_len,
                     sub_patterns', atoms', anchored_sub_patterns')
<1> DEFINE s == cur.snapshot
<1>1. /\ s.sub_patterns_len \in 0..Len(sub_patterns) /\ s.atoms_len \in 0..Len(atoms)
      /\ s.re_code_len \in 0..Len(re_code)
      /\ Reach(s.next_pattern_id, s.sub_patterns_len, s.atoms_len, s.re_code_len,
               sub_patterns, atoms, anchored_sub_patterns)
      /\ IsSeq(sub_patterns) /\ IsSeq(atoms) /\ IsSeq(re_code)
  BY DEF IInv, SubInv
<1>2. s.next_pattern_id \in Nat
  BY DEF IInv, PatternInv
<1>3. /\ Len(sub_patterns) \in Nat /\ Len(sub_patterns') \in Nat /\ Len(sub_patterns) <= Len(sub_patterns')
      /\ Len(atoms) \in Nat /\ Len(atoms') \in Nat /\ Len(atoms) <= Len(atoms')
      /\ Len(re_code) \in Nat /\ Len(re_code') \in Nat /\ Len(re_code) <= Len(re_code')
  BY <1>1, SeqIs DEF Appends, Extends
<1>4. PICK np, ns, na, nc : np = s.next_pattern_id /\ ns = s.sub_patterns_len /\ na = s.atoms_len
                            /\ nc = s.re_code_len
  OBVIOUS
<1> HIDE DEF s
<1>5. ns \in Nat /\ na \in Nat /\ nc \in Nat /\ np \in Nat
      /\ ns \in 0..Len(sub_patterns') /\ na \in 0..Len(atoms') /\ nc \in 0..Len(re_code')
  BY <1>1, <1>2, <1>3, <1>4
<1>6. (\A i \in 1..ns : sub_patterns'[i] = sub_patterns[i]) /\ \A a \in 1..na : atoms'[a] = atoms[a]
  BY <1>1, <1>3, <1>4 DEF Appends, Extends
<1>7. Reach(np, ns, na, nc, sub_patterns, atoms, anchored_sub_patterns)
  BY <1>1, <1>4
<1>8. Reach(np, ns, na, nc, sub_patterns', atoms', anchored_sub_patterns')
  <2>1. ToSet(anchored_sub_patterns) \subseteq ToSet(anchored_sub_patterns') /\ np <= np /\ nc <= nc
    BY <1>5 DEF Appends
  <2> QED
    BY <1>5, <1>6, <1>7, <2>1, ReachStays
<1> QED
  BY <1>4, <1>5, <1>8 DEF s

LEMMA AddSubPatternStep ==
  ASSUME IInv, AddSubPattern
  PROVE  /\ Appends
         /\ Reach(next_pattern_id, Len(sub_patterns'), Len(atoms'), Len(re_code'),
                  sub_patterns', atoms', anchored_sub_patterns')
<1> DEFINE call == Head(cur.calls)
           ns == Len(sub_patterns)
           na == Len(atoms)
           tail == call.kind \in {"LiteralChainTail", "RegexpChainTail"}
           width == IF call.wide THEN 2 ELSE 1
           regexp == call.kind \in {"Regexp", "RegexpChainHead", "RegexpChainTail"}
           x == [pattern |-> cur.pattern_ids[cur.k], kind |-> call.kind,
                 wide |-> call.wide, anchored_at |-> call.anchored_at,
                 left |-> call.left, right |-> call.right, last |-> call.last,
                 chained_to |-> IF tail THEN {cur.prev[width]} ELSE {}]
           atom == [sub_pattern |-> ns, code |-> IF regexp THEN cur.code ELSE 0]
<1>1. /\ pc = "compile" /\ cur.calls # <<>> /\ call.call = "add_sub_pattern"
      /\ anchored_sub_patterns' = IF AnchoredLiteral(call) THEN Append(anchored_sub_patterns, ns)
                                  ELSE anchored_sub_patterns
      /\ atoms' = IF AnchoredLiteral(call) THEN atoms ELSE Append(atoms, atom)
      /\ sub_patterns' = Append(sub_patterns, x)
      /\ UNCHANGED <<next_pattern_id, re_code>>
  BY DEF AddSubPattern
<1>2. pc \in RulePcs /\ pc \in PushedPcs
  BY <1>1 DEF RulePcs, PushedPcs
<1>3. /\ IsSeq(sub_patterns) /\ IsSeq(atoms) /\ IsSeq(re_code) /\ IsSeq(anchored_sub_patterns)
      /\ GoodCalls(AnyPiece, cur.calls) /\ cur.code \in 0..Len(re_code)
      /\ Reach(next_pattern_id, ns, na, Len(re_code), sub_patterns, atoms, anchored_sub_patterns)
  BY <1>2 DEF IInv, SubInv
<1>4. ns \in Nat /\ na \in Nat /\ Len(re_code) \in Nat /\ next_pattern_id \in Nat
  BY <1>3, SeqIs DEF IInv, PatternInv
<1>5. GoodCall(AnyPiece, call)
  BY <1>1, <1>3, GoodTail
<1>6. call.anchored_at # {} <=> AnchoredLiteral(call)
  BY <1>1, <1>5 DEF GoodCall, AnchoredLiteral
<1>7. cur.pattern_ids[cur.k] \in 0..(next_pattern_id - 1)
  <2>1. cur.k # 0 /\ cur.k \in 0..Len(cur.rule.patterns)
    BY <1>1, <1>2 DEF IInv, BoundInv, RuleInv
  <2>2. Uses(fast_scan_patterns, cur.pattern_ids, cur.rule, Len(cur.rule.patterns), next_pattern_id)
    BY <1>2 DEF IInv, RuleInv
  <2>3. cur.k \in 1..Len(cur.rule.patterns)
    <3>1. cur.rule \in Decls
      BY <1>2 DEF IInv, Shape
    <3>2. Len(cur.rule.patterns) \in Nat
      BY <3>1, CompilerAssumption
    <3> QED
      BY <2>1, <3>2
  <2> QED
    BY <2>2, <2>3 DEF Uses
<1>8. x.pattern \in 0..(next_pattern_id - 1) /\ x.anchored_at = call.anchored_at
  BY <1>7
<1>9. atom.sub_pattern = ns /\ atom.code \in 0..Len(re_code)
  BY <1>3, <1>4
<1> HIDE DEF x, atom, call
<1>10. /\ IsSeq(sub_patterns') /\ Len(sub_patterns') = ns + 1 /\ Extends(sub_patterns', sub_patterns)
       /\ sub_patterns'[ns + 1] = x /\ \A i \in 1..ns : sub_patterns'[i] = sub_patterns[i]
  BY <1>1, <1>3, AppendIs
<1>11. CASE AnchoredLiteral(call)
  <2>1. anchored_sub_patterns' = Append(anchored_sub_patterns, ns) /\ atoms' = atoms
    BY <1>1, <1>11
  <2>2. /\ IsSeq(anchored_sub_patterns') /\ ns \in ToSet(anchored_sub_patterns')
        /\ ToSet(anchored_sub_patterns) \subseteq ToSet(anchored_sub_patterns')
    BY <1>3, <2>1, AppendIs, AppendedElements
  <2>3. Appends
    BY <1>1, <1>3, <1>4, <1>10, <2>1, <2>2, ExtendsItself DEF Appends
  <2>4. Len(atoms') = na /\ sub_patterns'[ns + 1].anchored_at # {}
        /\ sub_patterns'[ns + 1].pattern \in 0..(next_pattern_id - 1)
    BY <1>6, <1>8, <1>10, <1>11, <2>1
  <2>5. \A a \in 1..na : atoms'[a] = atoms[a]
    BY <2>1
  <2>6. Reach(next_pattern_id, ns + 1, na, Len(re_code), sub_patterns', atoms', anchored_sub_patterns')
    <3> HIDE DEF ns, na
    <3>1. ToSet(anchored_sub_patterns) \subseteq ToSet(anchored_sub_patterns')
          /\ Same(sub_patterns', sub_patterns, ns)
      BY <1>10, <2>2 DEF Same
    <3> QED
      BY <1>3, <1>4, <2>1, <2>2, <2>4, <3>1, ReachAnchored
  <2> QED
    BY <1>1, <1>10, <2>3, <2>4, <2>6
<1>12. CASE ~AnchoredLiteral(call)
  <2>1. anchored_sub_patterns' = anchored_sub_patterns /\ atoms' = Append(atoms, atom)
    BY <1>1, <1>12
  <2>2. /\ IsSeq(atoms') /\ Len(atoms') = na + 1 /\ Extends(atoms', atoms)
        /\ atoms'[na + 1] = atom /\ \A a \in 1..na : atoms'[a] = atoms[a]
    BY <1>3, <2>1, AppendIs
  <2>3. Appends
    BY <1>1, <1>3, <1>4, <1>10, <2>1, <2>2 DEF Appends
  <2>4. sub_patterns'[ns + 1].anchored_at = {}
        /\ sub_patterns'[ns + 1].pattern \in 0..(next_pattern_id - 1)
        /\ atoms'[na + 1].sub_pattern = ns /\ atoms'[na + 1].code \in 0..Len(re_code)
    BY <1>6, <1>8, <1>9, <1>10, <1>12, <2>2
  <2>5. ToSet(anchored_sub_patterns) \subseteq ToSet(anchored_sub_patterns') /\ na + 1 \in Nat
    BY <1>4, <2>1
  <2>6. Reach(next_pattern_id, ns + 1, na + 1, Len(re_code), sub_patterns', atoms', anchored_sub_patterns')
    <3> HIDE DEF ns, na
    <3>1. Same(sub_patterns', sub_patterns, ns) /\ Same(atoms', atoms, na)
      BY <1>10, <2>2 DEF Same
    <3>2. NewAtom(sub_patterns', atoms', next_pattern_id, ns, na, Len(re_code))
      BY <2>4 DEF NewAtom
    <3>3. Reach(next_pattern_id, ns + 1, na + 1, Len(re_code), sub_patterns', atoms', anchored_sub_patterns)
      BY <1>3, <1>4, <3>1, <3>2, ReachAtom
    <3> QED
      BY <2>1, <3>3
  <2> QED
    BY <1>1, <1>10, <2>2, <2>3, <2>6
<1> QED
  BY <1>11, <1>12

LEMMA SubStep ==
  ASSUME IInv, Step, PatternInv', Shape'
  PROVE  SubInv'
<1>1. /\ SubInv /\ DOMAIN cur = CurFields
      /\ IsSeq(sub_patterns) /\ IsSeq(atoms) /\ IsSeq(re_code) /\ IsSeq(anchored_sub_patterns)
      /\ Reach(next_pattern_id, Len(sub_patterns), Len(atoms), Len(re_code),
               sub_patterns, atoms, anchored_sub_patterns)
  BY DEF IInv, SubInv, Shape
<1>2. /\ Len(sub_patterns) \in Nat /\ Len(atoms) \in Nat /\ Len(re_code) \in Nat /\ next_pattern_id \in Nat
  BY <1>1, SeqIs DEF IInv, PatternInv
<1> DEFINE subs == <<sub_patterns, atoms, re_code, anchored_sub_patterns>>
<1>3. ASSUME UNCHANGED subs PROVE Appends
  BY <1>1, <1>2, <1>3, ExtendsItself DEF Appends
<1>4. CASE Outside \/ CommitRule
  <2>1. UNCHANGED <<subs, next_pattern_id>> /\ pc' \notin RulePcs
    BY <1>4, OutsideKeeps DEF tables, CommitRule, RulePcs
  <2> QED
    BY <1>1, <2>1 DEF SubInv
<1>5. CASE \E d \in Decls : Takes(d)
  <2>1. PICK d \in Decls : Takes(d)
    BY <1>5
  <2>2. UNCHANGED <<subs, next_pattern_id>>
    BY <2>1 DEF Takes, tables
  <2>3. cur'.snapshot = TakeSnapshot /\ cur'.calls = <<>> /\ cur'.code = 0
    BY <2>1, RuleFields DEF Takes
  <2>4. /\ cur'.snapshot.next_pattern_id = next_pattern_id
        /\ cur'.snapshot.sub_patterns_len = Len(sub_patterns)
        /\ cur'.snapshot.atoms_len = Len(atoms) /\ cur'.snapshot.re_code_len = Len(re_code)
    BY <2>3 DEF TakeSnapshot
  <2>5. GoodCalls(AnyPiece, cur'.calls) /\ cur'.code \in 0..Len(re_code)
    BY <1>2, <2>3, GoodEmpty
  <2>6. Len(sub_patterns) \in 0..Len(sub_patterns) /\ Len(atoms) \in 0..Len(atoms)
        /\ Len(re_code) \in 0..Len(re_code)
    BY <1>2
  <2> QED
    BY <1>1, <2>2, <2>4, <2>5, <2>6 DEF SubInv
<1>6. CASE Rollback
  <2> DEFINE s == cur.snapshot
  <2>1. /\ s.next_pattern_id \in 0..next_pattern_id /\ next_pattern_id' = s.next_pattern_id
        /\ pc' \notin RulePcs /\ pc \in RulePcs
    BY <1>6, RollbackKeeps
  <2>2. /\ s.sub_patterns_len \in 0..Len(sub_patterns) /\ s.atoms_len \in 0..Len(atoms)
        /\ s.re_code_len \in 0..Len(re_code)
        /\ Reach(s.next_pattern_id, s.sub_patterns_len, s.atoms_len, s.re_code_len,
                 sub_patterns, atoms, anchored_sub_patterns)
    BY <1>1, <2>1 DEF SubInv
  <2>3. /\ sub_patterns' = Truncate(sub_patterns, s.sub_patterns_len)
        /\ atoms' = Truncate(atoms, s.atoms_len) /\ re_code' = Truncate(re_code, s.re_code_len)
        /\ UNCHANGED anchored_sub_patterns
    BY <1>6 DEF Rollback, RestoreSnapshot, RestoreLists
  <2>4. PICK np, ns, na, nc : np = s.next_pattern_id /\ ns = s.sub_patterns_len /\ na = s.atoms_len
                              /\ nc = s.re_code_len
    OBVIOUS
  <2> HIDE DEF s
  <2>5. /\ np \in Nat /\ ns \in Nat /\ na \in Nat /\ nc \in Nat
        /\ ns <= Len(sub_patterns) /\ na <= Len(atoms) /\ nc <= Len(re_code)
    BY <1>2, <2>1, <2>2, <2>4
  <2>6. /\ IsSeq(sub_patterns') /\ Len(sub_patterns') = ns /\ \A i \in 1..ns : sub_patterns'[i] = sub_patterns[i]
    BY <1>1, <2>3, <2>4, <2>5, TruncateIs
  <2>7. /\ IsSeq(atoms') /\ Len(atoms') = na /\ \A i \in 1..na : atoms'[i] = atoms[i]
    BY <1>1, <2>3, <2>4, <2>5, TruncateIs
  <2>8. IsSeq(re_code') /\ Len(re_code') = nc
    BY <1>1, <2>3, <2>4, <2>5, TruncateIs
  <2>9. Reach(np, ns, na, nc, sub_patterns', atoms', anchored_sub_patterns')
    <3>1. Reach(np, ns, na, nc, sub_patterns, atoms, anchored_sub_patterns)
      BY <2>2, <2>4
    <3>2. ToSet(anchored_sub_patterns) \subseteq ToSet(anchored_sub_patterns') /\ np <= np /\ nc <= nc
      BY <2>3, <2>5
    <3> QED
      BY <2>5, <2>6, <2>7, <3>1, <3>2, ReachStays
  <2> QED
    BY <1>1, <2>1, <2>3, <2>4, <2>6, <2>7, <2>8, <2>9 DEF SubInv
<1>7. CASE Assigns
  <2>1. PICK id : Assigned(id)
    BY <1>7, AssignsAssigns
  <2>2. UNCHANGED subs /\ pc = "assign"
    BY <1>7 DEF Assigns
  <2>3. pc \in RulePcs /\ cur'.snapshot = cur.snapshot /\ cur'.code = cur.code
    BY <2>1, <2>2 DEF RulePcs, Assigned
  <2>4. cur'.calls = cur.calls
    BY <1>1, <1>7 DEF Assigns, CurFields
  <2>5. next_pattern_id' \in Nat /\ next_pattern_id <= next_pattern_id'
    <3>1. next_pattern_id' = next_pattern_id \/ next_pattern_id' = next_pattern_id + 1
      BY <2>1 DEF Assigned
    <3> QED
      BY <1>2, <3>1
  <2>6. Reach(next_pattern_id', Len(sub_patterns), Len(atoms), Len(re_code),
              sub_patterns, atoms, anchored_sub_patterns)
    <3>1. Len(re_code) <= Len(re_code)
      BY <1>2
    <3> QED
      BY <1>1, <1>2, <2>5, <3>1, ReachStays
  <2>7. Appends
    BY <1>3, <2>2
  <2>8. GoodCalls(AnyPiece, cur'.calls) /\ cur'.code \in 0..Len(re_code)
    BY <1>1, <2>3, <2>4 DEF SubInv
  <2> QED
    BY <1>1, <2>2, <2>3, <2>6, <2>7, <2>8, SnapshotStays DEF SubInv
<1>8. CASE Inside
  <2>1. pc \in RulePcs /\ UNCHANGED next_pattern_id /\ cur'.snapshot = cur.snapshot /\ cur.rule \in Decls
    BY <1>8, InsideKeeps DEF IInv, Shape
  <2>2. GoodCalls(AnyPiece, cur.calls) /\ cur.code \in 0..Len(re_code)
    BY <1>1, <2>1 DEF SubInv
  <2>3. SUFFICES /\ Appends
                 /\ Reach(next_pattern_id, Len(sub_patterns'), Len(atoms'), Len(re_code'),
                          sub_patterns', atoms', anchored_sub_patterns')
                 /\ GoodCalls(AnyPiece, cur'.calls) /\ cur'.code \in 0..Len(re_code')
    BY <2>1, SnapshotStays DEF SubInv, Appends
  <2>4. CASE Passes \/ ConditionFromAst \/ PushRule \/ FinishPattern
    <3>1. UNCHANGED subs
      BY <2>4 DEF Passes, ConditionFromAst, PushRule, FinishPattern, tables
    <3>2. cur'.calls = cur.calls /\ cur'.code = cur.code
      BY <1>1, <2>4 DEF Passes, ConditionFromAst, PushRule, FinishPattern, CurFields
    <3> QED
      BY <1>1, <1>3, <2>2, <3>1, <3>2
  <2>5. CASE NextPattern
    <3>1. UNCHANGED subs /\ pc = "next" /\ cur.k < Len(cur.rule.patterns)
      BY <2>5 DEF NextPattern, tables
    <3>2. cur'.code = 0 /\ (cur'.calls = <<>> \/ cur'.calls = Calls(cur.rule.patterns[cur.k + 1].pattern))
      BY <1>1, <2>5 DEF NextPattern, CurFields
    <3>3. cur.k \in 0..Len(cur.rule.patterns) /\ Len(cur.rule.patterns) \in Nat
          /\ DOMAIN cur.rule.patterns = 1..Len(cur.rule.patterns)
      BY <2>1, <3>1, CompilerAssumption DEF IInv, RuleInv, PushedPcs
    <3>4. cur.k + 1 \in DOMAIN cur.rule.patterns
      BY <3>1, <3>3
    <3>5. cur.rule.patterns[cur.k + 1].pattern \in AnyPattern
      BY <2>1, <3>4, CompilerAssumption
    <3>6. GoodCalls(AnyPiece, cur'.calls)
      BY <3>2, <3>5, GoodEmpty, CallsAreGood, PiecesIs
    <3>7. cur'.code \in 0..Len(re_code')
      BY <1>2, <3>1, <3>2
    <3> QED
      BY <1>1, <1>3, <3>1, <3>6, <3>7
  <2>6. CASE CRegexp
    <3> DEFINE code == CodeOf(Head(cur.calls).piece)
    <3>1. /\ re_code' = re_code \o code /\ cur.calls # <<>>
          /\ UNCHANGED <<sub_patterns, atoms, anchored_sub_patterns>>
      BY <2>6 DEF CRegexp
    <3>2. cur'.calls = Tail(cur.calls) /\ cur'.code = Len(re_code')
      BY <1>1, <2>6 DEF CRegexp, CurFields
    <3>3. IsSeq(code)
      BY CodeIs
    <3> HIDE DEF code
    <3>4. IsSeq(re_code') /\ Len(re_code) <= Len(re_code')
      BY <1>1, <3>1, <3>3, ConcatIs DEF Extends
    <3>5. Len(re_code') \in Nat
      BY <3>4, SeqIs
    <3>6. Appends
      BY <1>1, <3>1, <3>4, ExtendsItself DEF Appends
    <3>7. Reach(next_pattern_id, Len(sub_patterns), Len(atoms), Len(re_code'),
                sub_patterns, atoms, anchored_sub_patterns)
      <4>1. next_pattern_id <= next_pattern_id
        BY <1>2
      <4> QED
        BY <1>1, <1>2, <3>4, <3>5, <4>1, ReachStays
    <3>8. GoodCalls(AnyPiece, cur'.calls)
      BY <2>2, <3>1, <3>2, GoodTail
    <3>9. cur'.code \in 0..Len(re_code')
      BY <3>2, <3>5
    <3> QED
      BY <3>1, <3>6, <3>7, <3>8, <3>9
  <2>7. CASE AddSubPattern
    <3>1. /\ Appends
          /\ Reach(next_pattern_id, Len(sub_patterns'), Len(atoms'), Len(re_code'),
                   sub_patterns', atoms', anchored_sub_patterns')
      BY <2>7, AddSubPatternStep
    <3>2. cur.calls # <<>> /\ cur'.calls = Tail(cur.calls) /\ cur'.code = cur.code /\ UNCHANGED re_code
      BY <1>1, <2>7 DEF AddSubPattern, CurFields
    <3> QED
      BY <2>2, <3>1, <3>2, GoodTail
  <2> QED
    BY <1>8, <2>4, <2>5, <2>6, <2>7 DEF Inside
<1> QED
  BY <1>4, <1>5, <1>6, <1>7, <1>8, StepIs

-----------------------------------------------------------------------------
(* The invariant holds in every state                                      *)

LEMMA InitIInv ==
  ASSUME Init
  PROVE  IInv
<1>1. /\ rules = <<>> /\ patterns = Empty /\ next_pattern_id = 0 /\ fast_scan_patterns = <<>>
      /\ filesize_bounds = Empty /\ header_constraints = Empty /\ symbol_table = <<Empty, Empty>>
      /\ root_struct = Empty /\ rules_depending_on_unsupported_modules = Empty
      /\ errors = <<>> /\ ignored_rules = <<>> /\ wasm_mod = <<>>
      /\ pc = "idle" /\ frames = <<>> /\ include_stack = <<>> /\ cur = NoRule
      /\ results = <<>> /\ declared = Empty /\ accepted = <<>>
  BY DEF Init
<1>2. IsSeq(<<>>) /\ Len(<<>>) = 0 /\ DOMAIN Empty = {} /\ pc \notin RulePcs /\ pc \notin PushedPcs
  BY <1>1, EmptyIs DEF Empty, RulePcs, PushedPcs
<1>3. Shape
  BY <1>1, <1>2, RuleFields DEF Shape, RestPcs
<1>4. ErrorInv
  BY <1>1, <1>2 DEF ErrorInv, Told
<1>13. DeclaredInv
  <2> SUFFICES ASSUME NEW ident, NEW n
               PROVE  TimesDeclared(ident, n) = Cardinality(AcceptedAs(ident, n))
                        + Cardinality(IgnoredAs(ident, n)) + CurrentAs(ident, n)
    BY DEF DeclaredInv
  <2>1. AcceptedAs(ident, n) = {} /\ IgnoredAs(ident, n) = {} /\ CurrentAs(ident, n) = 0
    BY <1>1, <1>2 DEF AcceptedAs, IgnoredAs, CurrentAs
  <2>2. TimesDeclared(ident, n) = 0
    BY <1>1, <1>2 DEF TimesDeclared
  <2> QED
    BY <2>1, <2>2, FS_EmptySet
<1>5. IgnoredInv
  <2>1. cur.cond = <<>>
    BY <1>1 DEF NoRule
  <2> QED
    BY <1>1, <1>2, <2>1 DEF IgnoredInv
<1>6. IncludeInv
  <2>1. DOMAIN include_stack = {}
    BY <1>1
  <2> QED
    BY <1>1, <1>2, <2>1 DEF IncludeInv, IncludesNest, IsInjective
<1>7. NameInv
  <2>1. symbol_table \in Seq({Empty}) /\ Len(symbol_table) = 2
        /\ symbol_table[1] = Empty /\ symbol_table[2] = Empty
    BY <1>1
  <2>2. IsSeq(symbol_table)
    BY <2>1 DEF IsSeq
  <2>3. ReferencesResolve
    BY <1>1 DEF ReferencesResolve
  <2>4. pc \notin {"slow", "result"} /\ pc \notin {"assign"} \cup PushedPcs
    BY <1>1 DEF PushedPcs
  <2> QED
    BY <1>1, <1>2, <2>1, <2>2, <2>3, <2>4 DEF NameInv
<1>8. PatternInv
  BY <1>1, <1>2 DEF PatternInv
<1>9. RuleInv
  BY <1>1, <1>2 DEF RuleInv
<1>10. BoundInv
  BY <1>1, <1>2 DEF BoundInv
<1>11. CodeInv
  <2>1. symbol_table[2] = Empty
    BY <1>1
  <2> QED
    BY <1>1, <1>2, <2>1 DEF CodeInv
<1>12. SubInv
  <2>1. sub_patterns = <<>> /\ atoms = <<>> /\ re_code = <<>> /\ anchored_sub_patterns = <<>>
    BY DEF Init
  <2>2. Reach(0, 0, 0, 0, <<>>, <<>>, <<>>)
    BY DEF Reach
  <2> QED
    BY <1>1, <1>2, <2>1, <2>2 DEF SubInv
<1> QED
  BY <1>3, <1>4, <1>5, <1>6, <1>7, <1>8, <1>9, <1>10, <1>11, <1>12, <1>13 DEF IInv

LEMMA StutterIInv ==
  ASSUME IInv, UNCHANGED vars
  PROVE  IInv'
<1>1. UNCHANGED <<rules, patterns, next_pattern_id, fast_scan_patterns, filesize_bounds,
                  header_constraints, symbol_table, root_struct, namespace,
                  rules_depending_on_unsupported_modules, errors, ignored_rules, wasm_mod, pc,
                  frames, include_stack, results, declared, cur, accepted>>
  BY DEF vars, tables, names, control
<1>2. Shape' /\ ErrorInv' /\ IgnoredInv' /\ IncludeInv'
  BY <1>1 DEF IInv, Shape, ErrorInv, IgnoredInv, IgnoredHere, IncludeInv, IncludesNest
<1>3. NameInv'
  BY <1>1 DEF IInv, NameInv, Resolved, ResolvedRefs, ReferencesResolve
<1>4. PatternInv' /\ RuleInv' /\ BoundInv' /\ CodeInv'
  BY <1>1 DEF IInv, PatternInv, RuleInv, KeptPatterns, BoundInv, CodeInv
<1>5. SubInv'
  BY <1>1 DEF IInv, SubInv, vars, tables
<1>6. DeclaredInv'
  <2> SUFFICES ASSUME NEW ident, NEW n
               PROVE  TimesDeclared(ident, n)' = Cardinality(AcceptedAs(ident, n)')
                        + Cardinality(IgnoredAs(ident, n)') + CurrentAs(ident, n)'
    BY DEF DeclaredInv
  <2>1. /\ TimesDeclared(ident, n)' = TimesDeclared(ident, n)
        /\ AcceptedAs(ident, n)' = AcceptedAs(ident, n)
        /\ IgnoredAs(ident, n)' = IgnoredAs(ident, n)
        /\ CurrentAs(ident, n)' = CurrentAs(ident, n)
    BY <1>1 DEF TimesDeclared, AcceptedAs, IgnoredAs, CurrentAs
  <2> QED
    BY <2>1 DEF IInv, DeclaredInv
<1> QED
  BY <1>2, <1>3, <1>4, <1>5, <1>6 DEF IInv

\* In every state that a sequence of calls, items and failures reaches, the
\* compiler's tables, its stacks, the rule that is being compiled and the
\* history of what was accepted agree as IInv says.
THEOREM CompilerInvariant == Spec => []IInv
<1>1. Init => IInv
  BY InitIInv
<1>2. IInv /\ [Next]_vars => IInv'
  <2> SUFFICES ASSUME IInv, [Next]_vars PROVE IInv'
    OBVIOUS
  <2>1. CASE Next
    <3>1. Step
      BY <2>1, NextIsStep DEF IInv
    <3>2. Shape' /\ ErrorInv' /\ IgnoredInv' /\ IncludeInv' /\ NameInv' /\ PatternInv' /\ CodeInv'
      BY <3>1, ShapeStep, ErrorStep, IgnoredStep, IncludeStep, NameStep, PatternStep, CodeStep
    <3>3. RuleInv' /\ BoundInv' /\ SubInv' /\ DeclaredInv'
      BY <3>1, <3>2, RuleStep, BoundStep, SubStep, DeclaredStep
    <3> QED
      BY <3>2, <3>3 DEF IInv
  <2>2. CASE UNCHANGED vars
    BY <2>2, StutterIInv
  <2> QED
    BY <2>1, <2>2
<1> QED
  BY <1>1, <1>2, PTL DEF Spec

-----------------------------------------------------------------------------
(* What it means                                                           *)

\* Every name in the condition of an accepted rule is a variable of its own
\* loop, a global name, or a rule accepted before it in the same namespace,
\* whatever scopes the conditions of failed rules left on the symbol table
\* (the unwinding of restore_snapshot, mod.rs).
THEOREM ReferencesAlwaysResolve == Spec => []ReferencesResolve
<1>1. IInv => ReferencesResolve
  BY DEF IInv, NameInv
<1> QED
  BY <1>1, CompilerInvariant, PTL

\* Nothing fails silently: each call of add_source returns the first error
\* recorded during the call, and Ok if and only if there is none; every rule
\* that c_items meets is accepted or recorded as ignored, as often as it is
\* declared, and every ignored rule has a reason of its own.
THEOREM FailuresAreAlwaysTold == Spec => []FailuresAreTold
<1>1. ASSUME IInv PROVE FailuresAreTold
  <2>1. ResultsTellErrors
    BY <1>1 DEF IInv, ErrorInv, ResultsTellErrors
  <2> QED
    BY <1>1, <2>1, DeclaredImpliesAccounted, IgnoredImpliesReasons DEF IInv, FailuresAreTold
<1> QED
  BY <1>1, CompilerInvariant, PTL

\* Whenever no rule is being compiled, a pattern's bit for fast scan mode is set
\* only if every accepted rule that uses it allows it, whichever of them
\* registered it and however rules failed in between.
THEOREM FastScanIsAlwaysSafe == Spec => []FastScanIsSafe
<1>1. ASSUME IInv PROVE FastScanIsSafe
  <2> SUFFICES ASSUME AtRest, NEW i \in DOMAIN accepted,
                      NEW k \in DOMAIN accepted[i].rule.patterns,
                      fast_scan_patterns[rules[i].patterns[k] + 1]
               PROVE  accepted[i].rule.patterns[k].fast_scan_allowed
    BY DEF FastScanIsSafe
  <2>1. IsSeq(accepted)
    BY <1>1 DEF IInv, RuleInv
  <2>2. i \in 1..Len(accepted)
    BY <2>1, SeqIs
  <2>3. RuleIs(fast_scan_patterns, rules[i], accepted[i], KeptPatterns)
    BY <1>1, <2>2 DEF IInv, RuleInv
  <2>4. accepted[i].rule \in Decls
    BY <2>3 DEF RuleIs
  <2>5. k \in 1..Len(accepted[i].rule.patterns)
    BY <2>4, CompilerAssumption
  <2> QED
    BY <2>3, <2>5 DEF RuleIs, Uses
<1> QED
  BY <1>1, CompilerInvariant, PTL

\* CompilerIsConsistent but for the chains: the ids in the tables are in range,
\* an anchored sub-pattern is in the list of anchored ones and has no atom, any
\* other has an atom, also after a rollback, which leaves that list longer than
\* it was, the symbols and the code emitted for the conditions are those of the
\* table of rules, included files never nest in a circle, and c_rule reaches
\* none of its panics.
THEOREM TablesAlwaysAgree ==
  Spec => [](/\ TypeOK /\ SubPatternsAreReachable /\ CodeFollowsRules
             /\ IncludesNest /\ NeverPanics)
<1>1. ASSUME IInv PROVE IncludesNest /\ NeverPanics
  BY <1>1 DEF IInv, IncludeInv, Shape, RestPcs, RulePcs, NeverPanics
<1>2. ASSUME IInv PROVE CodeFollowsRules
  <2> SUFFICES ASSUME AtRest PROVE CodeFollowsRules
    BY DEF CodeFollowsRules
  <2>1. pc \notin PushedPcs
    BY DEF AtRest, PushedPcs
  <2>2. IsSeq(rules) /\ IsSeq(accepted) /\ IsSeq(wasm_mod)
        /\ Len(rules) = Len(accepted) /\ Len(wasm_mod) = Len(accepted)
    BY <1>2, <2>1 DEF IInv, RuleInv, CodeInv
  <2>3. DOMAIN rules = 1..Len(accepted) /\ DOMAIN wasm_mod = 1..Len(accepted)
    BY <2>2, SeqIs
  <2>4. \A i \in 1..Len(accepted) : rules[i].ident = accepted[i].rule.ident /\ rules[i].namespace = accepted[i].namespace
    BY <1>2 DEF IInv, RuleInv, RuleIs
  <2>5. wasm_mod = [i \in DOMAIN rules |-> [namespace |-> rules[i].namespace, rule |-> i - 1]]
    <3>1. PICK S : wasm_mod \in Seq(S)
      BY <2>2 DEF IsSeq
    <3>2. wasm_mod = [i \in DOMAIN wasm_mod |-> wasm_mod[i]]
      BY <3>1
    <3>3. \A i \in 1..Len(accepted) : wasm_mod[i] = [namespace |-> rules[i].namespace, rule |-> i - 1]
      BY <1>2, <2>4 DEF IInv, CodeInv
    <3> QED
      BY <2>3, <3>2, <3>3
  <2>6. \A x \in DOMAIN symbol_table[2] : symbol_table[2][x].kind = "rule" =>
          /\ rules[symbol_table[2][x].id + 1].ident = x
          /\ rules[symbol_table[2][x].id + 1].namespace = namespace.id
    BY <1>2, <2>4 DEF IInv, CodeInv
  <2> QED
    BY <2>5, <2>6 DEF CodeFollowsRules
<1>3. ASSUME IInv PROVE TypeOK /\ SubPatternsAreReachable
  <2>1. IsSeq(sub_patterns) /\ IsSeq(atoms)
        /\ Reach(next_pattern_id, Len(sub_patterns), Len(atoms), Len(re_code),
                 sub_patterns, atoms, anchored_sub_patterns)
    BY <1>3 DEF IInv, SubInv
  <2>2. DOMAIN sub_patterns = 1..Len(sub_patterns) /\ DOMAIN atoms = 1..Len(atoms)
    BY <2>1, SeqIs
  <2>3. SubPatternsAreReachable
    BY <2>1, <2>2 DEF Reach, SubPatternsAreReachable, SubPatternIds
  <2>4. /\ \A i \in DOMAIN sub_patterns : sub_patterns[i].pattern \in 0..(next_pattern_id - 1)
        /\ \A i \in DOMAIN atoms : atoms[i].sub_pattern \in SubPatternIds /\ atoms[i].code \in 0..Len(re_code)
    BY <2>1, <2>2 DEF Reach, SubPatternIds
  <2>5. pc = "idle" <=> frames = <<>> /\ pc # "built"
    BY <1>3 DEF IInv, Shape
  <2>6. /\ next_pattern_id \in Nat /\ DOMAIN patterns \subseteq AnyPattern
        /\ \A p \in DOMAIN patterns : patterns[p] \in 0..(next_pattern_id - 1)
        /\ Len(fast_scan_patterns) = next_pattern_id
        /\ DOMAIN filesize_bounds \cup DOMAIN header_constraints \subseteq 0..(next_pattern_id - 1)
        /\ Len(symbol_table) >= 2
    BY <1>3 DEF IInv, PatternInv, BoundInv, NameInv
  <2> QED
    BY <2>3, <2>4, <2>5, <2>6 DEF TypeOK
<1> QED
  BY <1>1, <1>2, <1>3, CompilerInvariant, PTL

-----------------------------------------------------------------------------
(* Sequences and their concatenation                                       *)

\* Sequences with the same elements are the same.
LEMMA SameSeq ==
  ASSUME NEW s, IsSeq(s), NEW t, IsSeq(t), Len(s) = Len(t), \A i \in 1..Len(s) : s[i] = t[i]
  PROVE  s = t
<1>1. PICK S : s \in Seq(S)
  BY DEF IsSeq
<1>2. PICK T : t \in Seq(T)
  BY DEF IsSeq
<1>3. s \in Seq(S \cup T) /\ t \in Seq(S \cup T)
  BY <1>1, <1>2
<1> QED
  BY <1>3, SeqEqual

\* A function on 1..n is a sequence of length n.
LEMMA FunctionIs ==
  ASSUME NEW n \in Nat, NEW f, f = [i \in 1..n |-> f[i]]
  PROVE  IsSeq(f) /\ Len(f) = n /\ DOMAIN f = 1..n
<1> DEFINE S == {f[i] : i \in 1..n}
<1>1. \A i \in 1..n : f[i] \in S
  OBVIOUS
<1> HIDE DEF S
<1>2. f \in [1..n -> S]
  BY <1>1
<1>3. f \in Seq(S) /\ Len(f) = n
  BY <1>2
<1> QED
  BY <1>2, <1>3 DEF IsSeq

LEMMA EmptyConcat ==
  ASSUME NEW s, IsSeq(s)
  PROVE  <<>> \o s = s /\ s \o <<>> = s
<1>1. PICK S : s \in Seq(S)
  BY DEF IsSeq
<1> QED
  BY <1>1, ConcatEmptySeq

LEMMA ConcatAssociates ==
  ASSUME NEW s, IsSeq(s), NEW t, IsSeq(t), NEW u, IsSeq(u)
  PROVE  (s \o t) \o u = s \o (t \o u)
<1>1. PICK S : s \in Seq(S)
  BY DEF IsSeq
<1>2. PICK T : t \in Seq(T)
  BY DEF IsSeq
<1>3. PICK U : u \in Seq(U)
  BY DEF IsSeq
<1> DEFINE V == S \cup T \cup U
<1>4. S \subseteq V /\ T \subseteq V /\ U \subseteq V
  OBVIOUS
<1> HIDE DEF V
<1>5. s \in Seq(V) /\ t \in Seq(V) /\ u \in Seq(V)
  BY <1>1, <1>2, <1>3, <1>4, SeqMonotonic
<1> QED
  BY <1>5, ConcatAssociative

\* The elements of ss are sequences.
AreSeqs(ss) == IsSeq(ss) /\ \A i \in 1..Len(ss) : IsSeq(ss[i])

\* Every prefix of the sequences flattens to a sequence.
LEMMA FlattensAreSeqs ==
  ASSUME NEW ss, AreSeqs(ss), NEW g, Flattens(g, ss, Len(ss))
  PROVE  \A i \in 1..Len(ss) : IsSeq(g[i])
<1> DEFINE T == {i \in 1..Len(ss) : ~IsSeq(g[i])}
<1> SUFFICES ASSUME T # {} PROVE FALSE
  OBVIOUS
<1>0. Len(ss) \in Nat
  BY SeqIs DEF AreSeqs
<1>1. PICK i \in T : \A y \in T : i <= y
  <2>1. T \subseteq Nat
    OBVIOUS
  <2> HIDE DEF T
  <2> QED
    BY <2>1, LeastIs
<1>2. i \in 1..Len(ss) /\ ~IsSeq(g[i])
  OBVIOUS
<1>3. g[i] = IF i = 1 THEN ss[i] ELSE g[i - 1] \o ss[i]
  BY <1>2 DEF Flattens
<1>4. CASE i = 1
  BY <1>2, <1>3, <1>4 DEF AreSeqs
<1>5. CASE i # 1
  <2>1. i - 1 \in 1..Len(ss) /\ ~(i <= i - 1)
    BY <1>0, <1>2, <1>5
  <2>2. IsSeq(g[i - 1])
    BY <1>1, <2>1
  <2>3. IsSeq(ss[i])
    BY <1>2 DEF AreSeqs
  <2>4. IsSeq(g[i - 1] \o ss[i])
    BY <2>2, <2>3, ConcatIs
  <2> QED
    BY <1>2, <1>3, <1>5, <2>4
<1> QED
  BY <1>4, <1>5

LEMMA FlattenEmpty == FlattenSeq(<<>>) = <<>>
BY EmptyIs DEF FlattenSeq

\* One more sequence at the end.
LEMMA FlattenLast ==
  ASSUME NEW ss, AreSeqs(ss), NEW tt, IsSeq(tt), Len(ss) = Len(tt) + 1,
         \A i \in 1..Len(tt) : tt[i] = ss[i]
  PROVE  FlattenSeq(ss) = FlattenSeq(tt) \o ss[Len(ss)]
<1> DEFINE n == Len(tt)
<1>0. n \in Nat /\ Len(ss) = n + 1 /\ n + 1 # 0 /\ n + 1 \in 1..(n + 1)
  BY SeqIs
<1>1. PICK g : Flattens(g, ss, n + 1) /\ FlattenSeq(ss) = g[n + 1]
  BY <1>0, FlattenIs
<1>2. IsSeq(ss[n + 1])
  BY <1>0 DEF AreSeqs
<1>3. CASE n = 0
  <2>1. FlattenSeq(tt) = <<>>
    BY <1>3, SeqIs, FlattenEmpty
  <2>2. g[1] = ss[1]
    BY <1>1, <1>3 DEF Flattens
  <2> QED
    BY <1>0, <1>1, <1>2, <1>3, <2>1, <2>2, EmptyConcat
<1>4. CASE n # 0
  <2>1. PICK h : Flattens(h, tt, n) /\ FlattenSeq(tt) = h[n]
    BY <1>0, <1>4, FlattenIs
  <2> DEFINE T == {i \in 1..n : g[i] # h[i]}
  <2>2. T = {}
    <3> SUFFICES ASSUME T # {} PROVE FALSE
      OBVIOUS
    <3>1. PICK i \in T : \A y \in T : i <= y
      <4>1. T \subseteq Nat
        BY <1>0
      <4> HIDE DEF T
      <4> QED
        BY <4>1, LeastIs
    <3>2. i \in 1..n /\ g[i] # h[i]
      OBVIOUS
    <3>3. g[i] = IF i = 1 THEN ss[i] ELSE g[i - 1] \o ss[i]
      <4>1. i \in 1..(n + 1)
        BY <1>0, <3>2
      <4> HIDE DEF T, n
      <4> QED
        BY <1>1, <4>1 DEF Flattens
    <3>4. h[i] = IF i = 1 THEN tt[i] ELSE h[i - 1] \o tt[i]
      BY <2>1, <3>2 DEF Flattens
    <3>5. tt[i] = ss[i]
      BY <3>2
    <3>6. i # 1 => g[i - 1] = h[i - 1]
      <4> HAVE i # 1
      <4>1. i - 1 \in 1..n /\ ~(i <= i - 1)
        BY <1>0, <3>2
      <4> QED
        BY <3>1, <4>1
    <3> QED
      BY <3>2, <3>3, <3>4, <3>5, <3>6
  <2>3. n \in 1..n /\ (n + 1) - 1 = n /\ n + 1 # 1
    BY <1>0, <1>4
  <2>4. g[n + 1] = g[n] \o ss[n + 1]
    BY <1>0, <1>1, <2>3 DEF Flattens
  <2>5. g[n] = h[n]
    BY <2>2, <2>3
  <2> QED
    BY <1>0, <1>1, <2>1, <2>4, <2>5
<1> QED
  BY <1>3, <1>4

\* Flattened sequences are a sequence.
LEMMA FlattenIsSeq ==
  ASSUME NEW ss, AreSeqs(ss)
  PROVE  IsSeq(FlattenSeq(ss))
<1>0. Len(ss) \in Nat
  BY SeqIs DEF AreSeqs
<1>1. CASE Len(ss) = 0
  <2>1. ss = <<>>
    BY <1>1, SeqIs DEF AreSeqs
  <2> QED
    BY <2>1, FlattenEmpty, EmptyIs
<1>2. CASE Len(ss) # 0
  <2>1. PICK g : Flattens(g, ss, Len(ss)) /\ FlattenSeq(ss) = g[Len(ss)]
    BY <1>0, <1>2, FlattenIs
  <2>2. Len(ss) \in 1..Len(ss)
    BY <1>0, <1>2
  <2> QED
    BY <2>1, <2>2, FlattensAreSeqs
<1> QED
  BY <1>1, <1>2

\* The places where the sequences ss begin in their concatenation.
Offsets(at, ss) == at[0] = 0 /\ \A i \in 1..Len(ss) : at[i] = at[i - 1] + Len(ss[i])

\* Where each element of the sequences ss is in their concatenation.
LEMMA FlattenPoints ==
  ASSUME NEW ss, AreSeqs(ss), NEW at, Offsets(at, ss)
  PROVE  /\ IsSeq(FlattenSeq(ss)) /\ Len(FlattenSeq(ss)) = at[Len(ss)]
         /\ \A i \in 1..Len(ss) : \A j \in 1..Len(ss[i]) : FlattenSeq(ss)[at[i - 1] + j] = ss[i][j]
<1>0. Len(ss) \in Nat
  BY SeqIs DEF AreSeqs
<1>1. CASE Len(ss) = 0
  <2>1. ss = <<>>
    BY <1>1, SeqIs DEF AreSeqs
  <2>2. Len(<<>>) = 0 /\ IsSeq(<<>>) /\ at[0] = 0
    BY EmptyIs DEF Offsets
  <2> QED
    BY <1>1, <2>1, <2>2, FlattenEmpty
<1>2. CASE Len(ss) # 0
  <2>1. PICK g : Flattens(g, ss, Len(ss)) /\ FlattenSeq(ss) = g[Len(ss)]
    BY <1>0, <1>2, FlattenIs
  <2>2. \A i \in 1..Len(ss) : IsSeq(g[i])
    BY <2>1, FlattensAreSeqs
  <2> DEFINE Good(m) == /\ Len(g[m]) = at[m] /\ at[m] \in Nat
                        /\ \A i \in 1..m : \A j \in 1..Len(ss[i]) : g[m][at[i - 1] + j] = ss[i][j]
                        /\ \A i \in 0..m : at[i] \in Nat /\ at[i] <= at[m]
  <2> DEFINE T == {m \in 1..Len(ss) : ~Good(m)}
  <2>3. T = {}
    <3> SUFFICES ASSUME T # {} PROVE FALSE
      OBVIOUS
    <3>1. PICK m \in T : \A y \in T : m <= y
      <4>1. T \subseteq Nat
        BY <1>0
      <4> HIDE DEF T
      <4> QED
        BY <4>1, LeastIs
    <3>2. m \in 1..Len(ss) /\ ~Good(m)
      BY <3>1
    <3>3. g[m] = IF m = 1 THEN ss[m] ELSE g[m - 1] \o ss[m]
      BY <2>1, <3>2 DEF Flattens
    <3>4. IsSeq(ss[m]) /\ Len(ss[m]) \in Nat
      BY <3>2, SeqIs DEF AreSeqs
    <3>5. at[m] = at[m - 1] + Len(ss[m]) /\ at[0] = 0
      BY <3>2 DEF Offsets
    <3>6. CASE m = 1
      <4>1. at[1] = Len(ss[1]) /\ at[1] \in Nat /\ at[0] = 0 /\ g[1] = ss[1]
        BY <3>3, <3>4, <3>5, <3>6
      <4>2. \A i \in 1..1 : \A j \in 1..Len(ss[i]) : g[1][at[i - 1] + j] = ss[i][j]
        <5>1. \A j \in 1..Len(ss[1]) : at[1 - 1] + j = j
          BY <3>4, <3>6, <4>1
        <5> QED
          BY <4>1, <5>1
      <4>3. \A i \in 0..1 : at[i] \in Nat /\ at[i] <= at[1]
        BY <4>1
      <4>4. Good(1)
        BY <4>1, <4>2, <4>3
      <4> QED
        BY <3>2, <3>6, <4>4
    <3>7. CASE m # 1
      <4>1. m - 1 \in 1..Len(ss) /\ ~(m <= m - 1)
        BY <1>0, <3>2, <3>7
      <4>2. Good(m - 1)
        BY <3>1, <4>1
      <4>3. IsSeq(g[m - 1])
        BY <2>2, <4>1
      <4>4. PICK a, b, c : a = g[m - 1] /\ b = ss[m] /\ c = g[m]
        OBVIOUS
      <4>5. c = a \o b /\ IsSeq(a) /\ IsSeq(b)
        BY <3>3, <3>4, <3>7, <4>3, <4>4
      <4>6. /\ Len(c) = Len(a) + Len(b)
            /\ \A i \in 1..Len(a) : c[i] = a[i]
            /\ \A i \in 1..Len(b) : c[Len(a) + i] = b[i]
        BY <4>5, ConcatIs
      <4>7. Len(a) = at[m - 1] /\ at[m - 1] \in Nat /\ Len(b) \in Nat
        BY <3>4, <4>2, <4>4
      <4>8. Len(c) = at[m] /\ at[m] \in Nat /\ at[m - 1] <= at[m]
        BY <3>5, <4>4, <4>6, <4>7
      <4>9. ASSUME NEW i \in 1..m, NEW j \in 1..Len(ss[i]) PROVE c[at[i - 1] + j] = ss[i][j]
        <5>1. CASE i = m
          BY <4>4, <4>6, <4>7, <5>1
        <5>2. CASE i # m
          <6>1. i \in 1..(m - 1) /\ i \in 0..(m - 1) /\ i - 1 \in 0..(m - 1) /\ i \in 1..Len(ss)
            BY <1>0, <3>2, <5>2
          <6>2. a[at[i - 1] + j] = ss[i][j]
            BY <4>2, <4>4, <6>1
          <6>3. at[i] = at[i - 1] + Len(ss[i]) /\ Len(ss[i]) \in Nat
            BY <6>1, SeqIs DEF Offsets, AreSeqs
          <6>4. at[i] \in Nat /\ at[i] <= at[m - 1] /\ at[i - 1] \in Nat
            BY <4>2, <6>1
          <6>5. at[i - 1] + j \in 1..Len(a)
            <7>1. PICK x, y, z, l : x = at[i - 1] /\ y = at[i] /\ z = at[m - 1] /\ l = Len(ss[i])
              OBVIOUS
            <7>2. x \in Nat /\ y \in Nat /\ z \in Nat /\ l \in Nat /\ y = x + l /\ y <= z /\ j \in 1..l
              BY <6>3, <6>4, <7>1, <4>7
            <7>3. x + j \in 1..z
              BY <7>2
            <7> QED
              BY <4>7, <7>1, <7>3
          <6>6. c[at[i - 1] + j] = a[at[i - 1] + j]
            <7>1. PICK x : x = at[i - 1] + j
              OBVIOUS
            <7> QED
              BY <4>6, <6>5, <7>1
          <6> QED
            BY <6>2, <6>6
        <5> QED
          BY <5>1, <5>2
      <4>10. ASSUME NEW i \in 0..m PROVE at[i] \in Nat /\ at[i] <= at[m]
        <5>1. CASE i = m
          BY <4>8, <5>1
        <5>2. CASE i # m
          <6>1. i \in 0..(m - 1)
            BY <3>2, <5>2
          <6>2. at[i] \in Nat /\ at[i] <= at[m - 1]
            BY <4>2, <6>1
          <6> QED
            BY <4>7, <4>8, <6>2
        <5> QED
          BY <5>1, <5>2
      <4>11. Good(m)
        BY <4>4, <4>8, <4>9, <4>10
      <4> QED
        BY <3>2, <4>11
    <3> QED
      BY <3>6, <3>7
  <2>4. Len(ss) \in 1..Len(ss)
    BY <1>0, <1>2
  <2>5. Good(Len(ss))
    BY <2>3, <2>4
  <2> QED
    BY <2>1, <2>2, <2>4, <2>5
<1> QED
  BY <1>1, <1>2

-----------------------------------------------------------------------------
(* The calls of one kind                                                   *)

\* The first n + 1 elements are the first n and the next one.
LEMMA TruncateNext ==
  ASSUME NEW s, IsSeq(s), NEW n \in Nat, n < Len(s)
  PROVE  Truncate(s, n + 1) = Append(Truncate(s, n), s[n + 1])
<1>0. Len(s) \in Nat /\ n + 1 \in Nat /\ n + 1 <= Len(s) /\ n <= Len(s)
  BY SeqIs
<1>1. PICK t, u : t = Truncate(s, n) /\ u = Truncate(s, n + 1)
  OBVIOUS
<1>2. IsSeq(t) /\ Len(t) = n /\ \A i \in 1..n : t[i] = s[i]
  BY <1>0, <1>1, TruncateIs
<1>3. IsSeq(u) /\ Len(u) = n + 1 /\ \A i \in 1..(n + 1) : u[i] = s[i]
  BY <1>0, <1>1, TruncateIs
<1>4. PICK v, e : v = Append(t, e) /\ e = s[n + 1]
  OBVIOUS
<1>5. IsSeq(v) /\ Len(v) = n + 1 /\ (\A i \in 1..n : v[i] = t[i]) /\ v[n + 1] = e
  BY <1>2, <1>4, AppendIs
<1>6. \A i \in 1..(n + 1) : u[i] = v[i]
  <2> TAKE i \in 1..(n + 1)
  <2>1. CASE i = n + 1
    BY <1>0, <1>3, <1>4, <1>5, <2>1
  <2>2. CASE i # n + 1
    <3>1. i \in 1..n
      BY <1>0, <2>2
    <3> QED
      BY <1>2, <1>3, <1>5, <3>1
  <2> QED
    BY <2>1, <2>2
<1>7. u = v
  BY <1>3, <1>5, <1>6, SameSeq
<1> QED
  BY <1>1, <1>4, <1>7

LEMMA TruncateAll ==
  ASSUME NEW s, IsSeq(s)
  PROVE  Truncate(s, Len(s)) = s /\ Truncate(s, 0) = <<>>
<1>0. Len(s) \in Nat /\ Len(s) <= Len(s) /\ 0 <= Len(s)
  BY SeqIs
<1>1. PICK t, u : t = Truncate(s, Len(s)) /\ u = Truncate(s, 0)
  OBVIOUS
<1>2. IsSeq(t) /\ Len(t) = Len(s) /\ \A i \in 1..Len(s) : t[i] = s[i]
  BY <1>0, <1>1, TruncateIs
<1>3. IsSeq(u) /\ Len(u) = 0
  BY <1>0, <1>1, TruncateIs
<1>4. t = s
  BY <1>2, SameSeq
<1>5. u = <<>>
  BY <1>3, SeqIs
<1> QED
  BY <1>1, <1>4, <1>5

\* The calls of one kind among the calls s, and the places they take.
Part(e, kind) == When(e.call = kind, <<e>>)

Chosen(s, kind) == [i \in DOMAIN s |-> Part(s[i], kind)]

LEMMA PartIs ==
  ASSUME NEW e, NEW kind
  PROVE  IsSeq(Part(e, kind))
BY OneIs, EmptyIs DEF Part, When

LEMMA ChosenIs ==
  ASSUME NEW s, IsSeq(s), NEW kind
  PROVE  /\ AreSeqs(Chosen(s, kind)) /\ Len(Chosen(s, kind)) = Len(s)
         /\ \A i \in 1..Len(s) : Chosen(s, kind)[i] = Part(s[i], kind)
<1>0. Len(s) \in Nat /\ DOMAIN s = 1..Len(s)
  BY SeqIs
<1>1. PICK f : f = Chosen(s, kind)
  OBVIOUS
<1>2. f = [i \in 1..Len(s) |-> f[i]] /\ \A i \in 1..Len(s) : f[i] = Part(s[i], kind)
  BY <1>0, <1>1 DEF Chosen
<1>3. IsSeq(f) /\ Len(f) = Len(s)
  BY <1>0, <1>2, FunctionIs
<1>4. \A i \in 1..Len(s) : IsSeq(f[i])
  BY <1>2, PartIs
<1> QED
  BY <1>1, <1>2, <1>3, <1>4 DEF AreSeqs

LEMMA SelectIs ==
  ASSUME NEW s, IsSeq(s), NEW kind
  PROVE  IsSeq(Select(s, kind))
<1>1. Select(s, kind) = FlattenSeq(Chosen(s, kind))
  BY DEF Select, Chosen, Part
<1> QED
  BY <1>1, ChosenIs, FlattenIsSeq

LEMMA SelectEmpty ==
  ASSUME NEW kind
  PROVE  Select(<<>>, kind) = <<>>
<1>1. IsSeq(<<>>) /\ Len(<<>>) = 0
  BY EmptyIs
<1>2. IsSeq(Chosen(<<>>, kind)) /\ Len(Chosen(<<>>, kind)) = 0
  BY <1>1, ChosenIs DEF AreSeqs
<1>3. Chosen(<<>>, kind) = <<>>
  BY <1>2, SeqIs
<1> QED
  BY <1>3, FlattenEmpty DEF Select, Chosen, Part

\* One more call, which is of the kind or is not.
LEMMA SelectLast ==
  ASSUME NEW s, IsSeq(s), NEW e, NEW kind
  PROVE  Select(Append(s, e), kind) = Select(s, kind) \o Part(e, kind)
<1>1. PICK t : t = Append(s, e)
  OBVIOUS
<1>2. Len(s) \in Nat
  BY SeqIs
<1>3. IsSeq(t) /\ Len(t) = Len(s) + 1 /\ (\A i \in 1..Len(s) : t[i] = s[i]) /\ t[Len(s) + 1] = e
  BY <1>1, AppendIs
<1>4. PICK f, g : f = Chosen(s, kind) /\ g = Chosen(t, kind)
  OBVIOUS
<1>5. /\ AreSeqs(f) /\ Len(f) = Len(s)
      /\ \A i \in 1..Len(s) : f[i] = Part(s[i], kind)
  BY <1>4, ChosenIs
<1>6. /\ AreSeqs(g) /\ Len(g) = Len(s) + 1
      /\ \A i \in 1..(Len(s) + 1) : g[i] = Part(t[i], kind)
  BY <1>3, <1>4, ChosenIs
<1>7. \A i \in 1..Len(f) : f[i] = g[i]
  <2> TAKE i \in 1..Len(f)
  <2>1. i \in 1..Len(s) /\ i \in 1..(Len(s) + 1)
    BY <1>2, <1>5
  <2> QED
    BY <1>3, <1>5, <1>6, <2>1
<1>8. g[Len(g)] = Part(e, kind)
  <2>1. Len(g) = Len(s) + 1 /\ Len(s) + 1 \in 1..(Len(s) + 1)
    BY <1>2, <1>6
  <2> QED
    BY <1>3, <1>6, <2>1
<1>9. FlattenSeq(g) = FlattenSeq(f) \o g[Len(g)]
  BY <1>5, <1>6, <1>7, FlattenLast DEF AreSeqs
<1> QED
  BY <1>1, <1>4, <1>8, <1>9 DEF Select, Chosen, Part

LEMMA SelectOne ==
  ASSUME NEW e, NEW kind
  PROVE  Select(<<e>>, kind) = Part(e, kind)
<1>1. Append(<<>>, e) = <<e>>
  OBVIOUS
<1>2. Select(Append(<<>>, e), kind) = Select(<<>>, kind) \o Part(e, kind)
  BY SelectLast, EmptyIs
<1>3. Select(<<e>>, kind) = <<>> \o Part(e, kind)
  BY <1>1, <1>2, SelectEmpty
<1> QED
  BY <1>3, PartIs, EmptyConcat

\* Appending to the second of two sequences appends to their concatenation.
LEMMA ConcatAppend ==
  ASSUME NEW s, IsSeq(s), NEW t, IsSeq(t), NEW e
  PROVE  s \o Append(t, e) = Append(s \o t, e)
<1>1. PICK S : s \in Seq(S)
  BY DEF IsSeq
<1>2. PICK T : t \in Seq(T)
  BY DEF IsSeq
<1>3. PICK U : U = S \cup T \cup {e}
  OBVIOUS
<1>4. s \in Seq(U) /\ t \in Seq(U) /\ e \in U
  BY <1>1, <1>2, <1>3
<1> QED
  BY ONLY <1>4

\* Selecting from a concatenation.
LEMMA SelectConcat ==
  ASSUME NEW s, IsSeq(s), NEW t, IsSeq(t), NEW kind
  PROVE  Select(s \o t, kind) = Select(s, kind) \o Select(t, kind)
<1> DEFINE P(n) == Select(s \o Truncate(t, n), kind) = Select(s, kind) \o Select(Truncate(t, n), kind)
           T == {n \in 0..Len(t) : ~P(n)}
<1>0. Len(t) \in Nat
  BY SeqIs
<1>1. T = {}
  <2> SUFFICES ASSUME T # {} PROVE FALSE
    OBVIOUS
  <2>1. PICK n \in T : \A y \in T : n <= y
    <3>1. T \subseteq Nat
      BY <1>0
    <3> HIDE DEF T
    <3> QED
      BY <3>1, LeastIs
  <2>2. n \in 0..Len(t) /\ ~P(n)
    BY <2>1
  <2>3. CASE n = 0
    <3>1. Truncate(t, 0) = <<>> /\ s \o <<>> = s
      BY TruncateAll, EmptyConcat
    <3>2. IsSeq(Select(s, kind))
      BY SelectIs
    <3>3. Select(s, kind) \o <<>> = Select(s, kind)
      BY <3>2, EmptyConcat
    <3>4. P(0)
      BY <3>1, <3>3, SelectEmpty
    <3> QED
      BY <2>2, <2>3, <3>4
  <2>4. CASE n # 0
    <3>1. n - 1 \in 0..Len(t) /\ ~(n <= n - 1) /\ n - 1 \in Nat /\ n - 1 < Len(t) /\ n - 1 <= Len(t)
          /\ (n - 1) + 1 = n
      BY <1>0, <2>2, <2>4
    <3>2. P(n - 1)
      BY <2>1, <3>1
    <3>3. PICK a, b, e : a = Truncate(t, n - 1) /\ b = Truncate(t, n) /\ e = t[n]
      OBVIOUS
    <3>4. IsSeq(a)
      BY <3>1, <3>3, TruncateIs
    <3>5. b = Append(a, e)
      BY <3>1, <3>3, TruncateNext
    <3>6. s \o Append(a, e) = Append(s \o a, e)
      <4>1. IsSeq(s)
        OBVIOUS
      <4> QED
        BY ONLY <3>4, <4>1, ConcatAppend
    <3>7. Select(b, kind) = Select(a, kind) \o Part(e, kind)
      BY <3>4, <3>5, SelectLast
    <3>8. IsSeq(s \o a)
      BY <3>4, ConcatIs
    <3>9. Select(s \o b, kind) = Select(s \o a, kind) \o Part(e, kind)
      <4>1. PICK v : v = s \o a
        OBVIOUS
      <4>2. s \o b = Append(v, e) /\ IsSeq(v)
        BY <3>5, <3>6, <3>8, <4>1
      <4>3. Select(Append(v, e), kind) = Select(v, kind) \o Part(e, kind)
        BY ONLY <4>2, SelectLast
      <4> QED
        BY ONLY <4>1, <4>2, <4>3, Zenon
    <3>10. Select(s \o a, kind) = Select(s, kind) \o Select(a, kind)
      BY <3>2, <3>3
    <3>11. IsSeq(Select(s, kind)) /\ IsSeq(Select(a, kind)) /\ IsSeq(Part(e, kind))
      BY <3>4, SelectIs, PartIs
    <3>12. Select(s \o b, kind) = Select(s, kind) \o Select(b, kind)
      <4>1. PICK x, y, z : x = Select(s, kind) /\ y = Select(a, kind) /\ z = Part(e, kind)
        OBVIOUS
      <4>2. (x \o y) \o z = x \o (y \o z)
        <5>1. IsSeq(x) /\ IsSeq(y) /\ IsSeq(z)
          BY <3>11, <4>1
        <5> QED
          BY ONLY <5>1, ConcatAssociates, SMTT(30)
      <4>3. Select(s \o b, kind) = (x \o y) \o z
        <5>1. PICK q : q = Select(s \o a, kind)
          OBVIOUS
        <5>2. q = x \o y
          BY <3>10, <4>1, <5>1, Zenon
        <5>3. Select(s \o b, kind) = q \o z
          BY <3>9, <4>1, <5>1, Zenon
        <5> QED
          BY <5>2, <5>3, Zenon
      <4>4. Select(b, kind) = y \o z
        BY <3>7, <4>1, Zenon
      <4> QED
        BY <4>1, <4>2, <4>3, <4>4
    <3>13. P(n)
      BY <3>3, <3>12
    <3> QED
      BY <2>2, <3>13
  <2> QED
    BY <2>3, <2>4
<1>2. Len(t) \in 0..Len(t)
  BY <1>0
<1>3. P(Len(t))
  BY <1>1, <1>2
<1> QED
  BY <1>3, TruncateAll

-----------------------------------------------------------------------------
(* The distinct patterns in the order of their first use                   *)

Has(s, x) == \E i \in 1..Len(s) : s[i] = x
Fresh(s, i) == \A j \in 1..(i - 1) : s[j] # s[i]
First(s, i) == When(\A j \in 1..(i - 1) : s[j] # s[i], <<s[i]>>)
FirstUses(s) == [i \in DOMAIN s |-> First(s, i)]

\* The first use of a pattern stands for it, any other use for nothing.
LEMMA FirstIs ==
  ASSUME NEW s, NEW i
  PROVE  IsSeq(First(s, i)) /\ First(s, i) = IF Fresh(s, i) THEN <<s[i]>> ELSE <<>>
BY OneIs, EmptyIs DEF First, When, Fresh

LEMMA FirstUsesIs ==
  ASSUME NEW s, IsSeq(s)
  PROVE  /\ AreSeqs(FirstUses(s)) /\ Len(FirstUses(s)) = Len(s)
         /\ \A i \in 1..Len(s) : FirstUses(s)[i] = First(s, i)
<1>0. Len(s) \in Nat /\ DOMAIN s = 1..Len(s)
  BY SeqIs
<1>1. PICK f : f = FirstUses(s)
  OBVIOUS
<1>2. f = [i \in 1..Len(s) |-> f[i]] /\ \A i \in 1..Len(s) : f[i] = First(s, i)
  BY <1>0, <1>1 DEF FirstUses
<1>3. IsSeq(f) /\ Len(f) = Len(s)
  BY <1>0, <1>2, FunctionIs
<1>4. \A i \in 1..Len(s) : IsSeq(f[i])
  BY <1>2, FirstIs
<1> QED
  BY <1>1, <1>2, <1>3, <1>4 DEF AreSeqs

LEMMA FirstsIs ==
  ASSUME NEW s, IsSeq(s)
  PROVE  IsSeq(Firsts(s))
<1>1. Firsts(s) = FlattenSeq(FirstUses(s))
  BY DEF Firsts, FirstUses, First
<1> QED
  BY <1>1, FirstUsesIs, FlattenIsSeq

LEMMA FirstsEmpty == Firsts(<<>>) = <<>>
<1>1. IsSeq(<<>>) /\ Len(<<>>) = 0
  BY EmptyIs
<1>2. IsSeq(FirstUses(<<>>)) /\ Len(FirstUses(<<>>)) = 0
  BY <1>1, FirstUsesIs DEF AreSeqs
<1>3. FirstUses(<<>>) = <<>>
  BY <1>2, SeqIs
<1> QED
  BY <1>3, FlattenEmpty DEF Firsts, FirstUses, First

\* One more use adds a pattern if and only if it is the first of that pattern.
LEMMA FirstsLast ==
  ASSUME NEW s, IsSeq(s), NEW e
  PROVE  Firsts(Append(s, e)) = IF Has(s, e) THEN Firsts(s) ELSE Append(Firsts(s), e)
<1>1. PICK t : t = Append(s, e)
  OBVIOUS
<1>2. Len(s) \in Nat
  BY SeqIs
<1>3. IsSeq(t) /\ Len(t) = Len(s) + 1 /\ (\A i \in 1..Len(s) : t[i] = s[i]) /\ t[Len(s) + 1] = e
  BY <1>1, AppendIs
<1>4. PICK f, g : f = FirstUses(s) /\ g = FirstUses(t)
  OBVIOUS
<1>5. /\ AreSeqs(f) /\ Len(f) = Len(s)
      /\ \A i \in 1..Len(s) : f[i] = First(s, i)
  BY <1>4, FirstUsesIs
<1>6. /\ AreSeqs(g) /\ Len(g) = Len(s) + 1
      /\ \A i \in 1..(Len(s) + 1) : g[i] = First(t, i)
  BY <1>3, <1>4, FirstUsesIs
<1>7. \A i \in 1..Len(f) : f[i] = g[i]
  <2> TAKE i \in 1..Len(f)
  <2>1. i \in 1..Len(s) /\ i \in 1..(Len(s) + 1) /\ \A j \in 1..(i - 1) : j \in 1..Len(s)
    BY <1>2, <1>5
  <2>2. t[i] = s[i] /\ \A j \in 1..(i - 1) : t[j] = s[j]
    BY <1>3, <2>1
  <2>3. Fresh(t, i) <=> Fresh(s, i)
    BY <2>2 DEF Fresh
  <2>4. First(t, i) = First(s, i)
    BY <2>2, <2>3, FirstIs
  <2> QED
    BY <1>5, <1>6, <2>1, <2>4
<1>8. Len(g) = Len(s) + 1 /\ Len(s) + 1 \in 1..(Len(s) + 1) /\ (Len(s) + 1) - 1 = Len(s)
  BY <1>2, <1>6
<1>9. g[Len(g)] = IF Has(s, e) THEN <<>> ELSE <<e>>
  <2>1. g[Len(g)] = First(t, Len(s) + 1)
    BY <1>6, <1>8
  <2>2. Fresh(t, Len(s) + 1) <=> ~Has(s, e)
    BY <1>3, <1>8 DEF Fresh, Has
  <2> QED
    BY <1>3, <2>1, <2>2, FirstIs
<1>10. FlattenSeq(g) = FlattenSeq(f) \o g[Len(g)]
  BY <1>5, <1>6, <1>7, FlattenLast DEF AreSeqs
<1>11. Firsts(t) = Firsts(s) \o (IF Has(s, e) THEN <<>> ELSE <<e>>)
  BY <1>4, <1>9, <1>10 DEF Firsts, FirstUses, First
<1>12. IsSeq(Firsts(s))
  BY FirstsIs
<1>13. Firsts(s) \o <<>> = Firsts(s)
  BY <1>12, EmptyConcat
<1>14. Firsts(s) \o <<e>> = Append(Firsts(s), e)
  <2>1. PICK S : Firsts(s) \in Seq(S)
    BY <1>12 DEF IsSeq
  <2>2. PICK u : u = Firsts(s)
    OBVIOUS
  <2>3. u \in Seq(S \cup {e}) /\ e \in S \cup {e}
    BY <2>1, <2>2
  <2>4. Append(u, e) = u \o <<e>>
    BY <2>3, AppendIsConcat
  <2> QED
    BY <2>2, <2>4
<1> QED
  BY <1>1, <1>11, <1>13, <1>14

LEMMA HasAppend ==
  ASSUME NEW s, IsSeq(s), NEW e, NEW x
  PROVE  Has(Append(s, e), x) <=> Has(s, x) \/ x = e
<1>1. PICK t : t = Append(s, e)
  OBVIOUS
<1>2. Len(s) \in Nat
  BY SeqIs
<1>3. IsSeq(t) /\ Len(t) = Len(s) + 1 /\ (\A i \in 1..Len(s) : t[i] = s[i]) /\ t[Len(s) + 1] = e
  BY <1>1, AppendIs
<1>4. ASSUME Has(s, x) \/ x = e PROVE Has(t, x)
  <2>1. CASE x = e
    <3>1. Len(s) + 1 \in 1..Len(t)
      BY <1>2, <1>3
    <3> QED
      BY <1>3, <2>1, <3>1 DEF Has
  <2>2. CASE Has(s, x)
    <3>1. PICK i \in 1..Len(s) : s[i] = x
      BY <2>2 DEF Has
    <3>2. i \in 1..Len(t) /\ t[i] = x
      BY <1>2, <1>3, <3>1
    <3> QED
      BY <3>2 DEF Has
  <2> QED
    BY <1>4, <2>1, <2>2
<1>5. ASSUME Has(t, x) PROVE Has(s, x) \/ x = e
  <2>1. PICK i \in 1..Len(t) : t[i] = x
    BY <1>5 DEF Has
  <2>2. CASE i \in 1..Len(s)
    BY <1>3, <2>1, <2>2 DEF Has
  <2>3. CASE i \notin 1..Len(s)
    <3>1. i = Len(s) + 1
      BY <1>2, <1>3, <2>3
    <3> QED
      BY <1>3, <2>1, <3>1
  <2> QED
    BY <2>2, <2>3
<1> QED
  BY <1>1, <1>4, <1>5

\* The distinct patterns are the ones used.
LEMMA FirstsHas ==
  ASSUME NEW s, IsSeq(s), NEW x
  PROVE  Has(Firsts(s), x) <=> Has(s, x)
<1> DEFINE P(n) == Has(Firsts(Truncate(s, n)), x) <=> Has(Truncate(s, n), x)
           T == {n \in 0..Len(s) : ~P(n)}
<1>0. Len(s) \in Nat
  BY SeqIs
<1>1. T = {}
  <2> SUFFICES ASSUME T # {} PROVE FALSE
    OBVIOUS
  <2>1. PICK n \in T : \A y \in T : n <= y
    <3>1. T \subseteq Nat
      BY <1>0
    <3> HIDE DEF T
    <3> QED
      BY <3>1, LeastIs
  <2>2. n \in 0..Len(s) /\ ~P(n)
    BY <2>1
  <2>3. CASE n = 0
    <3>1. Truncate(s, 0) = <<>>
      BY TruncateAll
    <3>2. P(0)
      BY <3>1, FirstsEmpty
    <3> QED
      BY <2>2, <2>3, <3>2
  <2>4. CASE n # 0
    <3>1. n - 1 \in 0..Len(s) /\ ~(n <= n - 1) /\ n - 1 \in Nat /\ n - 1 < Len(s) /\ n - 1 <= Len(s)
          /\ (n - 1) + 1 = n
      BY <1>0, <2>2, <2>4
    <3>2. P(n - 1)
      BY <2>1, <3>1
    <3>3. PICK a, b, e : a = Truncate(s, n - 1) /\ b = Truncate(s, n) /\ e = s[n]
      OBVIOUS
    <3>4. IsSeq(a)
      BY <3>1, <3>3, TruncateIs
    <3>5. b = Append(a, e)
      BY <3>1, <3>3, TruncateNext
    <3>6. Has(b, x) <=> Has(a, x) \/ x = e
      BY <3>4, <3>5, HasAppend
    <3>7. Firsts(b) = IF Has(a, e) THEN Firsts(a) ELSE Append(Firsts(a), e)
      BY <3>4, <3>5, FirstsLast
    <3>8. Has(Append(Firsts(a), e), x) <=> Has(Firsts(a), x) \/ x = e
      BY <3>4, FirstsIs, HasAppend
    <3>9. Has(Firsts(a), x) <=> Has(a, x)
      BY <3>2, <3>3
    <3>10. Has(Firsts(b), x) <=> Has(b, x)
      BY <3>6, <3>7, <3>8, <3>9
    <3>11. P(n)
      BY <3>3, <3>10
    <3> QED
      BY <2>2, <3>11
  <2> QED
    BY <2>3, <2>4
<1>2. Len(s) \in 0..Len(s)
  BY <1>0
<1>3. P(Len(s))
  BY <1>1, <1>2
<1> QED
  BY <1>3, TruncateAll

\* The calls of one kind among the calls of several sequences.
LEMMA SelectFlatten ==
  ASSUME NEW ss, AreSeqs(ss), NEW tt, IsSeq(tt), Len(tt) = Len(ss), NEW kind,
         \A i \in 1..Len(ss) : tt[i] = Select(ss[i], kind)
  PROVE  Select(FlattenSeq(ss), kind) = FlattenSeq(tt)
<1>0. Len(ss) \in Nat
  BY SeqIs DEF AreSeqs
<1>1. AreSeqs(tt)
  BY SelectIs DEF AreSeqs
<1>2. CASE Len(ss) = 0
  <2>1. ss = <<>> /\ tt = <<>>
    BY <1>2, SeqIs DEF AreSeqs
  <2> QED
    BY <2>1, FlattenEmpty, SelectEmpty
<1>3. CASE Len(ss) # 0
  <2>1. PICK g : Flattens(g, ss, Len(ss)) /\ FlattenSeq(ss) = g[Len(ss)]
    BY <1>0, <1>3, FlattenIs
  <2>2. PICK h : Flattens(h, tt, Len(ss)) /\ FlattenSeq(tt) = h[Len(ss)]
    BY <1>0, <1>3, FlattenIs
  <2>3. \A i \in 1..Len(ss) : IsSeq(g[i])
    BY <2>1, FlattensAreSeqs
  <2> DEFINE T == {i \in 1..Len(ss) : Select(g[i], kind) # h[i]}
  <2>4. T = {}
    <3> SUFFICES ASSUME T # {} PROVE FALSE
      OBVIOUS
    <3>1. PICK i \in T : \A y \in T : i <= y
      <4>1. T \subseteq Nat
        BY <1>0
      <4> HIDE DEF T
      <4> QED
        BY <4>1, LeastIs
    <3>2. i \in 1..Len(ss) /\ Select(g[i], kind) # h[i]
      OBVIOUS
    <3>3. g[i] = IF i = 1 THEN ss[i] ELSE g[i - 1] \o ss[i]
      BY <2>1, <3>2 DEF Flattens
    <3>4. h[i] = IF i = 1 THEN tt[i] ELSE h[i - 1] \o tt[i]
      BY <2>2, <3>2 DEF Flattens
    <3>5. tt[i] = Select(ss[i], kind) /\ IsSeq(ss[i])
      BY <3>2 DEF AreSeqs
    <3>6. CASE i = 1
      BY <3>2, <3>3, <3>4, <3>5, <3>6
    <3>7. CASE i # 1
      <4>1. i - 1 \in 1..Len(ss) /\ ~(i <= i - 1)
        BY <1>0, <3>2, <3>7
      <4>2. Select(g[i - 1], kind) = h[i - 1]
        BY <3>1, <4>1
      <4>3. IsSeq(g[i - 1])
        BY <2>3, <4>1
      <4>4. Select(g[i - 1] \o ss[i], kind) = Select(g[i - 1], kind) \o Select(ss[i], kind)
        <5>1. IsSeq(g[i - 1]) /\ IsSeq(ss[i])
          BY <3>5, <4>3
        <5>2. \A x, y : IsSeq(x) /\ IsSeq(y) => Select(x \o y, kind) = Select(x, kind) \o Select(y, kind)
          BY ONLY SelectConcat
        <5> QED
          BY ONLY <5>1, <5>2, Zenon
      <4> QED
        BY ONLY <3>2, <3>3, <3>4, <3>5, <3>7, <4>2, <4>4, Zenon
    <3> QED
      BY <3>6, <3>7
  <2>5. Len(ss) \in 1..Len(ss)
    BY <1>0, <1>3
  <2> QED
    BY <2>1, <2>2, <2>4, <2>5
<1> QED
  BY <1>2, <1>3

-----------------------------------------------------------------------------
(* The calls that add the links of a chain                                 *)

Add == "add_sub_pattern"
Adds(p) == CallsOf(p, Add)
TailKinds == {"LiteralChainTail", "RegexpChainTail"}

\* The call that adds link n, in one width, of the chain of pattern p.
IsLink(c, p, n, w) ==
  /\ c.wide = w
  /\ c.kind \in TailKinds <=> n > 1
  /\ c.last <=> n = Len(p.pieces)
  /\ c.left <=> n = 1 /\ "fullword" \in p.mods
  /\ c.right <=> n = Len(p.pieces) /\ "fullword" \in p.mods

Widths(p) == {w \in BOOLEAN : IF w THEN IsWide(p) ELSE IsRaw(p)}

\* The calls that add the links with piece n of the pattern: how many, and
\* the place among them of the one of width w.
Width(p) == IF IsWide(p) /\ IsRaw(p) THEN 2 ELSE 1
RawFirst(p, n) == n = 1 /\ p.pieces[1] = "lit"
Slot(p, n, w) == IF ~(IsWide(p) /\ IsRaw(p)) THEN 1
                 ELSE IF RawFirst(p, n) THEN IF w THEN 2 ELSE 1
                 ELSE IF w THEN 1 ELSE 2

LinkCalls(s, p, n) ==
  /\ IsSeq(s) /\ Len(s) = Width(p)
  /\ \A w \in Widths(p) : IsLink(s[Slot(p, n, w)], p, n, w)

\* A call of c_regexp adds no sub-pattern.
LEMMA SelectRegexp ==
  ASSUME NEW piece
  PROVE  Select(CallRegexp(piece), Add) = <<>>
<1>1. PICK e : e = [call |-> "c_regexp", piece |-> piece]
  OBVIOUS
<1>2. e.call # Add
  BY <1>1 DEF Add
<1>3. Select(<<e>>, Add) = Part(e, Add)
  BY SelectOne
<1> QED
  BY <1>1, <1>2, <1>3 DEF Part, When, CallRegexp

LEMMA SelectAdd ==
  ASSUME NEW e, e.call = Add
  PROVE  Select(<<e>>, Add) = <<e>>
<1>1. Select(<<e>>, Add) = Part(e, Add)
  BY SelectOne
<1> QED
  BY <1>1 DEF Part, When

LinkCall(kind, wide, left, right, last) ==
  [call |-> "add_sub_pattern", kind |-> kind, wide |-> wide, anchored_at |-> {},
   left |-> left, right |-> right, last |-> last]

\* The calls code \o a \o b, of which code adds no sub-pattern, and a and b
\* are the calls of the two widths, each there or not.
NoAdd(code) == code = <<>> \/ \E piece : code = CallRegexp(piece)

Added(a) == Select(<<a>>, Add) = <<a>>
Both(code, a, b) == (code \o <<a>>) \o <<b>>
OnlyFirst(code, a) == (code \o <<a>>) \o <<>>
OnlySecond(code, b) == (code \o <<>>) \o <<b>>

\* What is left of such calls when only the sub-patterns are looked at.
LEMMA TwoSlots ==
  ASSUME NEW code, NoAdd(code), NEW a, NEW b, Added(a), Added(b), NEW s, NEW t, t = Select(s, Add)
  PROVE  /\ s = Both(code, a, b) => IsSeq(t) /\ Len(t) = 2 /\ t[1] = a /\ t[2] = b
         /\ s = OnlyFirst(code, a) => IsSeq(t) /\ Len(t) = 1 /\ t[1] = a
         /\ s = OnlySecond(code, b) => IsSeq(t) /\ Len(t) = 1 /\ t[1] = b
<1>1. IsSeq(code) /\ Select(code, Add) = <<>>
  <2>1. CASE code = <<>>
    BY <2>1, EmptyIs, SelectEmpty
  <2>2. ASSUME NEW piece, code = CallRegexp(piece) PROVE IsSeq(code) /\ Select(code, Add) = <<>>
    BY <2>2, SelectRegexp, OneIs DEF CallRegexp
  <2> QED
    BY <2>1, <2>2 DEF NoAdd
<1>2. PICK x, y, z : x = <<a>> /\ y = <<b>> /\ z = <<>>
  OBVIOUS
<1>3. /\ IsSeq(x) /\ Len(x) = 1 /\ x[1] = a /\ IsSeq(y) /\ Len(y) = 1 /\ y[1] = b
      /\ IsSeq(z)
  BY <1>2, OneIs, EmptyIs
<1>4. \A u, v : IsSeq(u) /\ IsSeq(v) => IsSeq(u \o v) /\ Select(u \o v, Add) = Select(u, Add) \o Select(v, Add)
  <2>1. \A u, v : IsSeq(u) /\ IsSeq(v) => IsSeq(u \o v)
    BY ONLY ConcatIs
  <2>2. \A u, v : IsSeq(u) /\ IsSeq(v) => Select(u \o v, Add) = Select(u, Add) \o Select(v, Add)
    BY ONLY SelectConcat
  <2> QED
    BY ONLY <2>1, <2>2
<1>5. \A u : IsSeq(u) => z \o u = u /\ u \o z = u
  BY <1>2, EmptyConcat
<1>6. Select(x, Add) = x /\ Select(y, Add) = y /\ Select(z, Add) = z /\ Select(code, Add) = z
  BY <1>1, <1>2, SelectEmpty DEF Added
<1>7. Select(code \o x, Add) = x /\ IsSeq(code \o x)
  BY ONLY <1>1, <1>3, <1>4, <1>5, <1>6
<1>8. Select((code \o x) \o y, Add) = x \o y
  BY ONLY <1>3, <1>4, <1>6, <1>7
<1>9. Select((code \o x) \o z, Add) = x
  BY ONLY <1>3, <1>4, <1>5, <1>6, <1>7
<1>10. code \o z = code
  BY ONLY <1>1, <1>5
<1>11. Select((code \o z) \o y, Add) = y
  BY ONLY <1>1, <1>3, <1>4, <1>5, <1>6, <1>10
<1>12. PICK q : q = x \o y
  OBVIOUS
<1>13. IsSeq(q) /\ Len(q) = 2 /\ q[1] = a /\ q[2] = b
  <2>1. IsSeq(x) /\ IsSeq(y)
    BY <1>3
  <2>2. /\ IsSeq(q) /\ Len(q) = Len(x) + Len(y)
        /\ \A i \in 1..Len(x) : q[i] = x[i]
        /\ \A i \in 1..Len(y) : q[Len(x) + i] = y[i]
    BY ONLY <1>12, <2>1, ConcatIs
  <2>3. 1 \in 1..Len(x) /\ 1 \in 1..Len(y) /\ Len(x) + 1 = 2 /\ Len(x) + Len(y) = 2
    BY <1>3
  <2> QED
    BY ONLY <1>3, <2>2, <2>3
<1>14. /\ Both(code, a, b) = (code \o x) \o y
       /\ OnlyFirst(code, a) = (code \o x) \o z
       /\ OnlySecond(code, b) = (code \o z) \o y
  BY <1>2 DEF Both, OnlyFirst, OnlySecond
<1> QED
  BY ONLY t = Select(s, Add), <1>3, <1>8, <1>9, <1>11, <1>12, <1>13, <1>14

\* A pattern is compiled in one width or in both.
LEMMA WidthCases ==
  ASSUME NEW p
  PROVE  \/ IsWide(p) /\ IsRaw(p) /\ Width(p) = 2 /\ Widths(p) = {TRUE, FALSE}
         \/ IsWide(p) /\ ~IsRaw(p) /\ Width(p) = 1 /\ Widths(p) = {TRUE}
         \/ ~IsWide(p) /\ IsRaw(p) /\ Width(p) = 1 /\ Widths(p) = {FALSE}
<1>1. IsWide(p) \/ IsRaw(p)
  BY DEF IsWide, IsRaw
<1>2. TRUE \in Widths(p) <=> IsWide(p)
  BY DEF Widths
<1>3. FALSE \in Widths(p) <=> IsRaw(p)
  BY DEF Widths
<1>4. \A w \in Widths(p) : w = TRUE \/ w = FALSE
  BY DEF Widths
<1>5. CASE IsWide(p) /\ IsRaw(p)
  <2>1. Widths(p) = {TRUE, FALSE}
    BY <1>2, <1>3, <1>4, <1>5, Zenon
  <2> QED
    BY <1>5, <2>1 DEF Width
<1>6. CASE IsWide(p) /\ ~IsRaw(p)
  <2>1. Widths(p) = {TRUE}
    BY <1>2, <1>3, <1>4, <1>6, Zenon
  <2> QED
    BY <1>6, <2>1 DEF Width
<1>7. CASE ~IsWide(p) /\ IsRaw(p)
  <2>1. Widths(p) = {FALSE}
    BY <1>2, <1>3, <1>4, <1>7, Zenon
  <2> QED
    BY <1>7, <2>1 DEF Width
<1> QED
  BY <1>1, <1>5, <1>6, <1>7

\* From the calls of the two widths, wide first or raw first.
LEMMA SlotsAreLinks ==
  ASSUME NEW p, NEW n, NEW wide, NEW raw, IsLink(wide, p, n, TRUE), IsLink(raw, p, n, FALSE),
         NEW t, IsSeq(t),
         \/ IsWide(p) /\ IsRaw(p) /\ Len(t) = 2
            /\ IF RawFirst(p, n) THEN t[1] = raw /\ t[2] = wide ELSE t[1] = wide /\ t[2] = raw
         \/ IsWide(p) /\ ~IsRaw(p) /\ Len(t) = 1 /\ t[1] = wide
         \/ ~IsWide(p) /\ IsRaw(p) /\ Len(t) = 1 /\ t[1] = raw
  PROVE  LinkCalls(t, p, n)
<1>1. CASE IsWide(p) /\ IsRaw(p)
  <2>1. Width(p) = 2 /\ Widths(p) = {TRUE, FALSE} /\ Len(t) = 2
    BY <1>1, WidthCases
  <2>2. CASE RawFirst(p, n)
    <3>1. Slot(p, n, TRUE) = 2 /\ Slot(p, n, FALSE) = 1 /\ t[1] = raw /\ t[2] = wide
      BY <1>1, <2>2 DEF Slot
    <3> QED
      BY <2>1, <3>1, Zenon DEF LinkCalls
  <2>3. CASE ~RawFirst(p, n)
    <3>1. Slot(p, n, TRUE) = 1 /\ Slot(p, n, FALSE) = 2 /\ t[1] = wide /\ t[2] = raw
      BY <1>1, <2>3 DEF Slot
    <3> QED
      BY <2>1, <3>1, Zenon DEF LinkCalls
  <2> QED
    BY <2>2, <2>3
<1>2. CASE IsWide(p) /\ ~IsRaw(p)
  <2>1. Width(p) = 1 /\ Widths(p) = {TRUE} /\ Len(t) = 1 /\ t[1] = wide
    BY <1>2, WidthCases
  <2>2. Slot(p, n, TRUE) = 1
    BY <1>2 DEF Slot
  <2> QED
    BY <2>1, <2>2, Zenon DEF LinkCalls
<1>3. CASE ~IsWide(p) /\ IsRaw(p)
  <2>1. Width(p) = 1 /\ Widths(p) = {FALSE} /\ Len(t) = 1 /\ t[1] = raw
    BY <1>3, WidthCases
  <2>2. Slot(p, n, FALSE) = 1
    BY <1>3 DEF Slot
  <2> QED
    BY <2>1, <2>2, Zenon DEF LinkCalls
<1> QED
  BY <1>1, <1>2, <1>3

\* The head of a chain (c_chain, the first piece).
LEMMA HeadAdds ==
  ASSUME NEW p, Len(p.pieces) \in Nat, Len(p.pieces) > 1
  PROVE  LinkCalls(Select(CChainHead(p), Add), p, 1)
<1> DEFINE head(kind, wide) == CallAdd(kind, wide, {}, "fullword" \in p.mods, FALSE, FALSE)
<1>0. 1 # Len(p.pieces) /\ ~(1 > 1)
  <2>1. PICK l : l = Len(p.pieces)
    OBVIOUS
  <2>2. l \in Nat /\ l > 1
    BY <2>1
  <2>3. 1 # l
    BY <2>2
  <2> QED
    BY <2>1, <2>3
<1>1. CASE p.pieces[1] = "lit"
  <2>1. PICK r : /\ head("LiteralChainHead", FALSE) = <<r>> /\ Added(r)
                 /\ r.kind = "LiteralChainHead" /\ r.wide = FALSE /\ (r.left <=> "fullword" \in p.mods)
                 /\ ~r.right /\ ~r.last
    <3> DEFINE e == LinkCall("LiteralChainHead", FALSE, "fullword" \in p.mods, FALSE, FALSE)
    <3>1. /\ e.call = Add /\ e.kind = "LiteralChainHead" /\ e.wide = FALSE
          /\ (e.left <=> "fullword" \in p.mods) /\ ~e.right /\ ~e.last
      BY DEF LinkCall, Add
    <3>2. head("LiteralChainHead", FALSE) = <<e>>
      BY DEF LinkCall, CallAdd
    <3> HIDE DEF e, head
    <3>3. Added(e)
      BY <3>1, SelectAdd DEF Added
    <3> QED
      BY <3>1, <3>2, <3>3
  <2>2. PICK w : /\ head("LiteralChainHead", TRUE) = <<w>> /\ Added(w)
                 /\ w.kind = "LiteralChainHead" /\ w.wide = TRUE /\ (w.left <=> "fullword" \in p.mods)
                 /\ ~w.right /\ ~w.last
    <3> DEFINE e == LinkCall("LiteralChainHead", TRUE, "fullword" \in p.mods, FALSE, FALSE)
    <3>1. /\ e.call = Add /\ e.kind = "LiteralChainHead" /\ e.wide = TRUE
          /\ (e.left <=> "fullword" \in p.mods) /\ ~e.right /\ ~e.last
      BY DEF LinkCall, Add
    <3>2. head("LiteralChainHead", TRUE) = <<e>>
      BY DEF LinkCall, CallAdd
    <3> HIDE DEF e, head
    <3>3. Added(e)
      BY <3>1, SelectAdd DEF Added
    <3> QED
      BY <3>1, <3>2, <3>3
  <2>3. IsLink(r, p, 1, FALSE) /\ IsLink(w, p, 1, TRUE)
    BY <1>0, <2>1, <2>2 DEF IsLink, TailKinds
  <2>4. CChainHead(p) = When(IsRaw(p), head("LiteralChainHead", FALSE))
                        \o When(IsWide(p), head("LiteralChainHead", TRUE))
    BY <1>1 DEF CChainHead
  <2> HIDE DEF head
  <2>5. CChainHead(p) = (IF IsRaw(p) THEN <<r>> ELSE <<>>) \o (IF IsWide(p) THEN <<w>> ELSE <<>>)
    BY <2>1, <2>2, <2>4 DEF When
  <2>6. \A u : u \in {<<r>>, <<>>} => <<>> \o u = u
    BY OneIs, EmptyIs, EmptyConcat
  <2>12. NoAdd(<<>>)
    BY DEF NoAdd
  <2>7. RawFirst(p, 1)
    BY <1>1 DEF RawFirst
  <2>8. PICK t : t = Select(CChainHead(p), Add)
    OBVIOUS
  <2>9. CASE IsWide(p) /\ IsRaw(p)
    <3>1. CChainHead(p) = Both(<<>>, r, w)
      BY <2>5, <2>6, <2>9 DEF Both, OnlyFirst, OnlySecond
    <3>2. IsSeq(t) /\ Len(t) = 2 /\ t[1] = r /\ t[2] = w
      BY ONLY <2>1, <2>2, <2>8, <3>1, <2>12, TwoSlots
    <3> QED
      BY <2>3, <2>7, <2>8, <2>9, <3>2, SlotsAreLinks
  <2>10. CASE IsWide(p) /\ ~IsRaw(p)
    <3>1. CChainHead(p) = OnlySecond(<<>>, w)
      BY <2>5, <2>6, <2>10 DEF Both, OnlyFirst, OnlySecond
    <3>2. IsSeq(t) /\ Len(t) = 1 /\ t[1] = w
      BY ONLY <2>1, <2>2, <2>8, <3>1, <2>12, TwoSlots
    <3> QED
      BY <2>3, <2>7, <2>8, <2>10, <3>2, SlotsAreLinks
  <2>11. CASE ~IsWide(p) /\ IsRaw(p)
    <3>1. CChainHead(p) = OnlyFirst(<<>>, r)
      BY <2>5, <2>6, <2>11 DEF Both, OnlyFirst, OnlySecond
    <3>2. IsSeq(t) /\ Len(t) = 1 /\ t[1] = r
      BY ONLY <2>1, <2>2, <2>8, <3>1, <2>12, TwoSlots
    <3> QED
      BY <2>3, <2>7, <2>8, <2>11, <3>2, SlotsAreLinks
  <2> QED
    BY <2>9, <2>10, <2>11, WidthCases
<1>2. CASE p.pieces[1] # "lit"
  <2>1. PICK r : /\ head("RegexpChainHead", FALSE) = <<r>> /\ Added(r)
                 /\ r.kind = "RegexpChainHead" /\ r.wide = FALSE /\ (r.left <=> "fullword" \in p.mods)
                 /\ ~r.right /\ ~r.last
    <3> DEFINE e == LinkCall("RegexpChainHead", FALSE, "fullword" \in p.mods, FALSE, FALSE)
    <3>1. /\ e.call = Add /\ e.kind = "RegexpChainHead" /\ e.wide = FALSE
          /\ (e.left <=> "fullword" \in p.mods) /\ ~e.right /\ ~e.last
      BY DEF LinkCall, Add
    <3>2. head("RegexpChainHead", FALSE) = <<e>>
      BY DEF LinkCall, CallAdd
    <3> HIDE DEF e, head
    <3>3. Added(e)
      BY <3>1, SelectAdd DEF Added
    <3> QED
      BY <3>1, <3>2, <3>3
  <2>2. PICK w : /\ head("RegexpChainHead", TRUE) = <<w>> /\ Added(w)
                 /\ w.kind = "RegexpChainHead" /\ w.wide = TRUE /\ (w.left <=> "fullword" \in p.mods)
                 /\ ~w.right /\ ~w.last
    <3> DEFINE e == LinkCall("RegexpChainHead", TRUE, "fullword" \in p.mods, FALSE, FALSE)
    <3>1. /\ e.call = Add /\ e.kind = "RegexpChainHead" /\ e.wide = TRUE
          /\ (e.left <=> "fullword" \in p.mods) /\ ~e.right /\ ~e.last
      BY DEF LinkCall, Add
    <3>2. head("RegexpChainHead", TRUE) = <<e>>
      BY DEF LinkCall, CallAdd
    <3> HIDE DEF e, head
    <3>3. Added(e)
      BY <3>1, SelectAdd DEF Added
    <3> QED
      BY <3>1, <3>2, <3>3
  <2>3. IsLink(r, p, 1, FALSE) /\ IsLink(w, p, 1, TRUE)
    BY <1>0, <2>1, <2>2 DEF IsLink, TailKinds
  <2>4. PICK code : code = CallRegexp(p.pieces[1])
    OBVIOUS
  <2>4a. NoAdd(code)
    BY <2>4 DEF NoAdd
  <2>5. CChainHead(p) = (code \o When(IsWide(p), head("RegexpChainHead", TRUE)))
                        \o When(IsRaw(p), head("RegexpChainHead", FALSE))
    BY <1>2, <2>4 DEF CChainHead
  <2> HIDE DEF head
  <2>6. CChainHead(p) = (code \o (IF IsWide(p) THEN <<w>> ELSE <<>>))
                        \o (IF IsRaw(p) THEN <<r>> ELSE <<>>)
    BY <2>1, <2>2, <2>5 DEF When
  <2>7. ~RawFirst(p, 1)
    BY <1>2 DEF RawFirst
  <2>8. PICK t : t = Select(CChainHead(p), Add)
    OBVIOUS
  <2>9. CASE IsWide(p) /\ IsRaw(p)
    <3>1. CChainHead(p) = Both(code, w, r)
      BY <2>6, <2>9 DEF Both, OnlyFirst, OnlySecond
    <3>2. IsSeq(t) /\ Len(t) = 2 /\ t[1] = w /\ t[2] = r
      BY ONLY <2>1, <2>2, <2>4a, <2>8, <3>1, TwoSlots
    <3> QED
      BY <2>3, <2>7, <2>8, <2>9, <3>2, SlotsAreLinks
  <2>10. CASE IsWide(p) /\ ~IsRaw(p)
    <3>1. CChainHead(p) = OnlyFirst(code, w)
      BY <2>6, <2>10 DEF Both, OnlyFirst, OnlySecond
    <3>2. IsSeq(t) /\ Len(t) = 1 /\ t[1] = w
      BY ONLY <2>1, <2>2, <2>4a, <2>8, <3>1, TwoSlots
    <3> QED
      BY <2>3, <2>7, <2>8, <2>10, <3>2, SlotsAreLinks
  <2>11. CASE ~IsWide(p) /\ IsRaw(p)
    <3>1. CChainHead(p) = OnlySecond(code, r)
      BY <2>6, <2>11 DEF Both, OnlyFirst, OnlySecond
    <3>2. IsSeq(t) /\ Len(t) = 1 /\ t[1] = r
      BY ONLY <2>1, <2>2, <2>4a, <2>8, <3>1, TwoSlots
    <3> QED
      BY <2>3, <2>7, <2>8, <2>11, <3>2, SlotsAreLinks
  <2> QED
    BY <2>9, <2>10, <2>11, WidthCases
<1> QED
  BY <1>1, <1>2

\* A tail of a chain (c_chain, the other pieces).
LEMMA TailAdds ==
  ASSUME NEW p, Len(p.pieces) \in Nat, NEW n \in 2..Len(p.pieces)
  PROVE  LinkCalls(Select(CChainTail(p, n), Add), p, n)
<1> DEFINE last == n = Len(p.pieces)
           kind == IF p.pieces[n] = "lit" THEN "LiteralChainTail" ELSE "RegexpChainTail"
           tail(wide) == CallAdd(kind, wide, {}, FALSE, last /\ "fullword" \in p.mods, last)
           code == When(p.pieces[n] # "lit", CallRegexp(p.pieces[n]))
<1>0. n # 1 /\ n > 1
  OBVIOUS
<1>1. PICK r : /\ tail(FALSE) = <<r>> /\ Added(r)
               /\ r.kind = kind /\ r.wide = FALSE /\ ~r.left
               /\ (r.right <=> n = Len(p.pieces) /\ "fullword" \in p.mods)
               /\ (r.last <=> n = Len(p.pieces))
  <2> DEFINE e == LinkCall(kind, FALSE, FALSE, last /\ "fullword" \in p.mods, last)
  <2>1. /\ e.call = Add /\ e.kind = kind /\ e.wide = FALSE /\ ~e.left
        /\ (e.right <=> n = Len(p.pieces) /\ "fullword" \in p.mods)
        /\ (e.last <=> n = Len(p.pieces))
    BY DEF LinkCall, Add
  <2>2. tail(FALSE) = <<e>>
    BY DEF LinkCall, CallAdd
  <2> HIDE DEF e, tail
  <2>3. Added(e)
    BY <2>1, SelectAdd DEF Added
  <2> QED
    BY <2>1, <2>2, <2>3
<1>2. PICK w : /\ tail(TRUE) = <<w>> /\ Added(w)
               /\ w.kind = kind /\ w.wide = TRUE /\ ~w.left
               /\ (w.right <=> n = Len(p.pieces) /\ "fullword" \in p.mods)
               /\ (w.last <=> n = Len(p.pieces))
  <2> DEFINE e == LinkCall(kind, TRUE, FALSE, last /\ "fullword" \in p.mods, last)
  <2>1. /\ e.call = Add /\ e.kind = kind /\ e.wide = TRUE /\ ~e.left
        /\ (e.right <=> n = Len(p.pieces) /\ "fullword" \in p.mods)
        /\ (e.last <=> n = Len(p.pieces))
    BY DEF LinkCall, Add
  <2>2. tail(TRUE) = <<e>>
    BY DEF LinkCall, CallAdd
  <2> HIDE DEF e, tail
  <2>3. Added(e)
    BY <2>1, SelectAdd DEF Added
  <2> QED
    BY <2>1, <2>2, <2>3
<1>3. kind \in TailKinds
  BY DEF TailKinds
<1> HIDE DEF kind
<1>4. IsLink(r, p, n, FALSE) /\ IsLink(w, p, n, TRUE)
  BY <1>0, <1>1, <1>2, <1>3 DEF IsLink
<1>5. CChainTail(p, n) = (code \o When(IsWide(p), tail(TRUE))) \o When(IsRaw(p), tail(FALSE))
  BY DEF CChainTail, kind
<1>6. NoAdd(code)
  BY DEF NoAdd, When
<1> HIDE DEF tail, code
<1>7. CChainTail(p, n) = (code \o (IF IsWide(p) THEN <<w>> ELSE <<>>))
                         \o (IF IsRaw(p) THEN <<r>> ELSE <<>>)
  BY <1>1, <1>2, <1>5 DEF When
<1>8. ~RawFirst(p, n)
  BY <1>0 DEF RawFirst
<1>9. PICK t : t = Select(CChainTail(p, n), Add)
  OBVIOUS
<1>10. CASE IsWide(p) /\ IsRaw(p)
  <2>1. CChainTail(p, n) = Both(code, w, r)
    BY <1>7, <1>10 DEF Both
  <2>2. IsSeq(t) /\ Len(t) = 2 /\ t[1] = w /\ t[2] = r
    BY ONLY <1>1, <1>2, <1>6, <1>9, <2>1, TwoSlots
  <2> QED
    BY <1>4, <1>8, <1>9, <1>10, <2>2, SlotsAreLinks
<1>11. CASE IsWide(p) /\ ~IsRaw(p)
  <2>1. CChainTail(p, n) = OnlyFirst(code, w)
    BY <1>7, <1>11 DEF OnlyFirst
  <2>2. IsSeq(t) /\ Len(t) = 1 /\ t[1] = w
    BY ONLY <1>1, <1>2, <1>6, <1>9, <2>1, TwoSlots
  <2> QED
    BY <1>4, <1>8, <1>9, <1>11, <2>2, SlotsAreLinks
<1>12. CASE ~IsWide(p) /\ IsRaw(p)
  <2>1. CChainTail(p, n) = OnlySecond(code, r)
    BY <1>7, <1>12 DEF OnlySecond
  <2>2. IsSeq(t) /\ Len(t) = 1 /\ t[1] = r
    BY ONLY <1>1, <1>2, <1>6, <1>9, <2>1, TwoSlots
  <2> QED
    BY <1>4, <1>8, <1>9, <1>12, <2>2, SlotsAreLinks
<1> QED
  BY <1>10, <1>11, <1>12, WidthCases

Place(p, n, w) == Width(p) * (n - 1) + Slot(p, n, w)

\* The calls that add the links of the chain of p, in order.
ChainShape(A, p) ==
  /\ IsSeq(A) /\ Len(A) = Width(p) * Len(p.pieces)
  /\ \A n \in 1..Len(p.pieces) : \A w \in Widths(p) : IsLink(A[Place(p, n, w)], p, n, w)

\* The place of a width is one of the places there are.
LEMMA SlotIs ==
  ASSUME NEW p, NEW n, NEW w
  PROVE  Width(p) \in 1..2 /\ Slot(p, n, w) \in 1..Width(p)
BY DEF Width, Slot

\* The calls for a pattern with several pieces add the links of its chain.
LEMMA ChainAdds ==
  ASSUME NEW p \in AnyPattern, Len(p.pieces) > 1
  PROVE  ChainShape(Adds(p), p)
<1>0. PICK N : N = Len(p.pieces)
  OBVIOUS
<1>1. N \in Nat /\ N > 1 /\ N - 1 \in Nat /\ Len(p.pieces) \in Nat /\ Len(p.pieces) > 1
  <2>1. N \in Nat /\ N > 1
    BY <1>0, PiecesIs
  <2> QED
    BY <1>0, <2>1
<1>2. ~p.text
  <2>1. p.text => Len(p.pieces) = 1
    BY DEF AnyPattern
  <2> QED
    BY <1>0, <1>1, <2>1
<1>3. PICK ss, tt : /\ ss = [i \in 1..(N - 1) |-> CChainTail(p, i + 1)]
                    /\ tt = [i \in 1..(N - 1) |-> Select(CChainTail(p, i + 1), Add)]
  OBVIOUS
<1>4. /\ ss = [i \in 1..(N - 1) |-> ss[i]] /\ \A i \in 1..(N - 1) : ss[i] = CChainTail(p, i + 1)
      /\ tt = [i \in 1..(N - 1) |-> tt[i]] /\ \A i \in 1..(N - 1) : tt[i] = Select(ss[i], Add)
  BY <1>3
<1>5. IsSeq(ss) /\ Len(ss) = N - 1 /\ IsSeq(tt) /\ Len(tt) = N - 1
  BY <1>1, <1>4, FunctionIs
<1>6. Calls(p) = CChainHead(p) \o FlattenSeq(ss)
  BY <1>0, <1>1, <1>2, <1>3 DEF Calls, CRegexpPattern, CChain
<1>7. IsSeq(CChainHead(p)) /\ \A i \in 1..(N - 1) : IsSeq(ss[i])
  <2>1. 1 \in 1..N /\ \A i \in 1..(N - 1) : i + 1 \in 1..N
    BY <1>1
  <2>2. p.pieces[1] \in AnyPiece /\ \A i \in 1..(N - 1) : p.pieces[i + 1] \in AnyPiece
    BY <1>0, <2>1, PiecesIs
  <2>3. GoodCalls(AnyPiece, CChainHead(p))
    BY <2>2, GoodHead
  <2>4. \A i \in 1..(N - 1) : GoodCalls(AnyPiece, CChainTail(p, i + 1))
    BY <2>2, GoodTailOf
  <2> QED
    BY <1>4, <2>3, <2>4 DEF GoodCalls
<1>8. AreSeqs(ss)
  BY <1>5, <1>7 DEF AreSeqs
<1>9. Select(FlattenSeq(ss), Add) = FlattenSeq(tt)
  <2>1. Len(tt) = Len(ss) /\ \A i \in 1..Len(ss) : tt[i] = Select(ss[i], Add)
    BY <1>4, <1>5
  <2> QED
    BY ONLY <1>5, <1>8, <2>1, SelectFlatten
<1>10. PICK H, F : H = Select(CChainHead(p), Add) /\ F = FlattenSeq(tt)
  OBVIOUS
<1>11. Adds(p) = H \o F
  <2>1. IsSeq(FlattenSeq(ss))
    BY <1>8, FlattenIsSeq
  <2>2. Select(CChainHead(p) \o FlattenSeq(ss), Add) = Select(CChainHead(p), Add) \o Select(FlattenSeq(ss), Add)
    BY ONLY <1>7, <2>1, SelectConcat
  <2>3. Adds(p) = Select(Calls(p), Add)
    BY DEF Adds, CallsOf
  <2> QED
    BY <1>6, <1>9, <1>10, <2>2, <2>3
<1>12. LinkCalls(H, p, 1)
  BY <1>1, <1>10, HeadAdds
<1>13. \A i \in 1..(N - 1) : LinkCalls(tt[i], p, i + 1)
  <2> TAKE i \in 1..(N - 1)
  <2>1. i + 1 \in 2..N
    BY <1>1
  <2>2. LinkCalls(Select(CChainTail(p, i + 1), Add), p, i + 1)
    BY <1>0, <1>1, <2>1, TailAdds
  <2> QED
    BY <1>4, <2>2
<1>14. PICK W : W = Width(p)
  OBVIOUS
<1>15. W \in 1..2
  BY <1>14, SlotIs
<1> DEFINE at == [i \in 0..(N - 1) |-> W * i]
<1>16. AreSeqs(tt) /\ Offsets(at, tt)
  <2>1. \A i \in 1..(N - 1) : IsSeq(tt[i]) /\ Len(tt[i]) = W
    BY <1>13, <1>14 DEF LinkCalls
  <2>2. at[0] = 0 /\ \A i \in 1..(N - 1) : at[i] = at[i - 1] + W
    <3>1. CASE W = 1
      BY <1>1, <3>1
    <3>2. CASE W = 2
      BY <1>1, <3>2
    <3>3. W = 1 \/ W = 2
      BY <1>15
    <3> QED
      BY <3>1, <3>2, <3>3
  <2> HIDE DEF at
  <2> QED
    BY <1>5, <2>1, <2>2 DEF AreSeqs, Offsets
<1>17. /\ IsSeq(F) /\ Len(F) = at[N - 1]
       /\ \A i \in 1..(N - 1) : \A j \in 1..Len(tt[i]) : F[at[i - 1] + j] = tt[i][j]
  <2> HIDE DEF at
  <2> QED
    BY <1>5, <1>10, <1>16, FlattenPoints
<1>18. IsSeq(H) /\ Len(H) = W
  BY <1>12, <1>14 DEF LinkCalls
<1>19. PICK A : A = Adds(p)
  OBVIOUS
<1>20. /\ IsSeq(A) /\ Len(A) = Len(H) + Len(F)
       /\ \A i \in 1..Len(H) : A[i] = H[i]
       /\ \A i \in 1..Len(F) : A[Len(H) + i] = F[i]
  <2>1. A = H \o F /\ IsSeq(H) /\ IsSeq(F)
    BY <1>11, <1>17, <1>18, <1>19
  <2> QED
    BY ONLY <2>1, ConcatIs
<1>21. at[N - 1] = W * (N - 1) /\ \A i \in 1..(N - 1) : at[i - 1] = W * (i - 1)
  BY <1>1
<1> HIDE DEF at
<1>22. Len(A) = W * N /\ Len(F) = W * (N - 1)
  <2>1. CASE W = 1
    BY <1>1, <1>17, <1>18, <1>20, <1>21, <2>1
  <2>2. CASE W = 2
    BY <1>1, <1>17, <1>18, <1>20, <1>21, <2>2
  <2> QED
    BY <1>15, <2>1, <2>2
<1>23. ASSUME NEW n \in 1..N, NEW w \in Widths(p) PROVE IsLink(A[Place(p, n, w)], p, n, w)
  <2>1. PICK o : o = Slot(p, n, w)
    OBVIOUS
  <2>2. o \in 1..W
    BY <1>14, <2>1, SlotIs
  <2>3. Place(p, n, w) = W * (n - 1) + o
    BY <1>14, <2>1 DEF Place
  <2>4. CASE n = 1
    <3>1. Place(p, n, w) = o /\ o \in 1..Len(H)
      BY <1>15, <1>18, <2>2, <2>3, <2>4
    <3>2. A[o] = H[o]
      BY <1>20, <3>1
    <3>3. IsLink(H[o], p, 1, w)
      BY <1>12, <2>1, <2>4 DEF LinkCalls
    <3> QED
      BY <2>4, <3>1, <3>2, <3>3
  <2>5. CASE n # 1
    <3>1. n - 1 \in 1..(N - 1) /\ (n - 1) + 1 = n /\ n \in Nat
      BY <1>1, <2>5
    <3>2. PICK i : i = n - 1
      OBVIOUS
    <3>3. i \in 1..(N - 1) /\ i + 1 = n
      BY <3>1, <3>2
    <3>4. IsLink(tt[i][o], p, n, w) /\ Len(tt[i]) = W
      BY <1>13, <1>14, <2>1, <3>3 DEF LinkCalls
    <3>5. F[at[i - 1] + o] = tt[i][o]
      BY <1>17, <2>2, <3>3, <3>4
    <3>6. at[i - 1] = W * (i - 1)
      BY <1>21, <3>3
    <3>7. /\ W * (i - 1) + o \in 1..(W * (N - 1))
          /\ W + (W * (i - 1) + o) = W * (n - 1) + o
      <4>1. CASE W = 1
        BY <1>1, <2>2, <3>3, <4>1
      <4>2. CASE W = 2
        BY <1>1, <2>2, <3>3, <4>2
      <4> QED
        BY <1>15, <4>1, <4>2
    <3>8. A[W + (W * (i - 1) + o)] = F[W * (i - 1) + o]
      <4>1. PICK y : y = W * (i - 1) + o
        OBVIOUS
      <4>2. y \in 1..Len(F)
        BY <1>22, <3>7, <4>1
      <4>3. A[Len(H) + y] = F[y]
        BY <1>20, <4>2
      <4> QED
        BY <1>18, <4>1, <4>3
    <3> QED
      BY <2>3, <3>4, <3>5, <3>6, <3>7, <3>8
  <2> QED
    BY <2>4, <2>5
<1> QED
  BY <1>0, <1>14, <1>19, <1>20, <1>22, <1>23 DEF ChainShape

-----------------------------------------------------------------------------
(* The links of a chain and their places                                   *)

\* The links of a chain are at places of the chain,
LEMMA PlaceIs ==
  ASSUME NEW p, NEW N \in Nat, NEW n \in 1..N, NEW w
  PROVE  Place(p, n, w) \in 1..(Width(p) * N)
<1>1. PICK W, o : W = Width(p) /\ o = Slot(p, n, w)
  OBVIOUS
<1>2. W \in 1..2 /\ o \in 1..W
  BY <1>1, SlotIs
<1>3. W * (n - 1) + o \in 1..(W * N)
  <2>1. CASE W = 1
    BY <1>2, <2>1
  <2>2. CASE W = 2
    BY <1>2, <2>2
  <2>3. W = 1 \/ W = 2
    BY <1>2
  <2> QED
    BY <2>1, <2>2, <2>3
<1> QED
  BY <1>1, <1>3 DEF Place

\* those of one width in the order of the pieces,
LEMMA PlaceOrder ==
  ASSUME NEW p, NEW n \in Nat, NEW m \in Nat, n < m, NEW w
  PROVE  Place(p, n, w) < Place(p, m, w)
<1>1. PICK W, o, q : W = Width(p) /\ o = Slot(p, n, w) /\ q = Slot(p, m, w)
  OBVIOUS
<1>2. W \in 1..2 /\ o \in 1..W /\ q \in 1..W
  BY <1>1, SlotIs
<1>3. W * (n - 1) + o < W * (m - 1) + q
  <2>1. CASE W = 1
    BY <1>2, <2>1
  <2>2. CASE W = 2
    BY <1>2, <2>2
  <2>3. W = 1 \/ W = 2
    BY <1>2
  <2> QED
    BY <2>1, <2>2, <2>3
<1> QED
  BY <1>1, <1>3 DEF Place

\* and every place has a link.
LEMMA PlaceOnto ==
  ASSUME NEW p, NEW N \in Nat, NEW x \in 1..(Width(p) * N)
  PROVE  \E n \in 1..N : \E w \in Widths(p) : x = Place(p, n, w)
<1>1. CASE IsWide(p) /\ IsRaw(p)
  <2>1. Width(p) = 2 /\ TRUE \in Widths(p) /\ FALSE \in Widths(p)
    BY <1>1, WidthCases, Zenon
  <2> DEFINE T == {n \in 1..N : x <= 2 * n}
  <2>2. PICK n \in T : \A y \in T : n <= y
    <3>1. T \subseteq Nat
      OBVIOUS
    <3>2. N \in T
      BY <2>1
    <3> HIDE DEF T
    <3> QED
      BY <3>1, <3>2, LeastIs
  <2>3. n \in 1..N /\ x <= 2 * n
    BY <2>2
  <2>4. x > 2 * (n - 1)
    <3>1. CASE n = 1
      BY <2>1, <3>1
    <3>2. CASE n # 1
      <4>1. n - 1 \in 1..N /\ ~(n <= n - 1)
        BY <2>3, <3>2
      <4>2. n - 1 \notin T
        BY <2>2, <4>1
      <4>3. ~(x <= 2 * (n - 1))
        BY <4>1, <4>2
      <4> QED
        BY <2>1, <2>3, <4>3
    <3> QED
      BY <3>1, <3>2
  <2>5. x = 2 * (n - 1) + 1 \/ x = 2 * (n - 1) + 2
    BY <2>1, <2>3, <2>4
  <2>6. CASE RawFirst(p, n)
    <3>1. Slot(p, n, TRUE) = 2 /\ Slot(p, n, FALSE) = 1
      BY <1>1, <2>6 DEF Slot
    <3>2. Place(p, n, TRUE) = 2 * (n - 1) + 2 /\ Place(p, n, FALSE) = 2 * (n - 1) + 1
      BY <2>1, <3>1 DEF Place
    <3> QED
      BY <2>1, <2>3, <2>5, <3>2
  <2>7. CASE ~RawFirst(p, n)
    <3>1. Slot(p, n, TRUE) = 1 /\ Slot(p, n, FALSE) = 2
      BY <1>1, <2>7 DEF Slot
    <3>2. Place(p, n, TRUE) = 2 * (n - 1) + 1 /\ Place(p, n, FALSE) = 2 * (n - 1) + 2
      BY <2>1, <3>1 DEF Place
    <3> QED
      BY <2>1, <2>3, <2>5, <3>2
  <2> QED
    BY <2>6, <2>7
<1>2. CASE ~(IsWide(p) /\ IsRaw(p))
  <2>1. Width(p) = 1 /\ \E w : w \in Widths(p)
    BY <1>2, WidthCases, Zenon
  <2>2. PICK w : w \in Widths(p)
    BY <2>1
  <2>3. Slot(p, x, w) = 1
    BY <1>2 DEF Slot
  <2>4. x \in 1..N
    BY <2>1
  <2>5. Place(p, x, w) = 1 * (x - 1) + 1
    BY <2>1, <2>3 DEF Place
  <2>6. x = Place(p, x, w)
    BY <2>4, <2>5
  <2> QED
    BY <2>2, <2>4, <2>6
<1> QED
  BY <1>1, <1>2

\* A set of numbers given in increasing order.
Increasing(f, N) == /\ f \in [1..N -> Nat]
                    /\ \A n \in 1..N : \A m \in 1..N : n < m => f[n] < f[m]
Values(f, N) == {f[n] : n \in 1..N}

\* The size, the ends and the neighbours in such a set.
LEMMA IncreasingIs ==
  ASSUME NEW N \in Nat, N > 0, NEW f, Increasing(f, N), NEW S, S = Values(f, N)
  PROVE  /\ Cardinality(S) = N
         /\ (CHOOSE i \in S : \A j \in S : i <= j) = f[1]
         /\ (CHOOSE i \in S : \A j \in S : j <= i) = f[N]
         /\ \A n \in 2..N : (CHOOSE j \in S : j < f[n] /\ \A k \in S : k < f[n] => k <= j) = f[n - 1]
         /\ \A n \in 1..N : \A m \in 1..N : f[n] = f[m] => n = m
<1>0. /\ \A n \in 1..N : f[n] \in Nat /\ f[n] \in S
      /\ \A i \in S : i \in Nat /\ \E n \in 1..N : i = f[n]
  BY DEF Increasing, Values
<1>1. \A n \in 1..N : \A m \in 1..N : n < m => f[n] < f[m]
  BY DEF Increasing
<1>2. \A n \in 1..N : \A m \in 1..N : f[n] = f[m] => n = m
  <2> TAKE n \in 1..N
  <2> TAKE m \in 1..N
  <2>1. n = m \/ n < m \/ m < n
    OBVIOUS
  <2>2. f[n] \in Nat /\ f[m] \in Nat
    BY <1>0
  <2>3. (n < m => f[n] < f[m]) /\ (m < n => f[m] < f[n])
    BY <1>1
  <2>4. PICK a, b : a = f[n] /\ b = f[m]
    OBVIOUS
  <2>5. a = b => n = m
    BY ONLY <2>1, <2>2, <2>3, <2>4
  <2> QED
    BY <2>4, <2>5
<1>3. \A n \in 1..N : \A m \in 1..N : n <= m => f[n] <= f[m]
  <2> TAKE n \in 1..N
  <2> TAKE m \in 1..N
  <2>1. n = m \/ n < m \/ m < n
    OBVIOUS
  <2>2. f[n] \in Nat /\ f[m] \in Nat
    BY <1>0
  <2>3. n < m => f[n] < f[m]
    BY <1>1
  <2>4. PICK a, b : a = f[n] /\ b = f[m]
    OBVIOUS
  <2>5. a \in Nat /\ b \in Nat /\ (n < m => a < b) /\ (n = m => a = b)
    BY ONLY <2>2, <2>3, <2>4
  <2>6. n <= m => n < m \/ n = m
    OBVIOUS
  <2>7. n <= m => a <= b
    BY ONLY <2>5, <2>6
  <2> QED
    BY <2>4, <2>7
<1>4. 1 \in 1..N /\ N \in 1..N /\ \A n \in 1..N : 1 <= n /\ n <= N
  OBVIOUS
<1>5. (CHOOSE i \in S : \A j \in S : i <= j) = f[1]
  <2>1. f[1] \in S /\ \A j \in S : f[1] <= j
    BY <1>0, <1>3, <1>4
  <2>2. \A i \in S : (\A j \in S : i <= j) => i = f[1]
    BY <1>0, <2>1
  <2> QED
    BY <2>1, <2>2
<1>6. (CHOOSE i \in S : \A j \in S : j <= i) = f[N]
  <2>1. f[N] \in S /\ \A j \in S : j <= f[N]
    BY <1>0, <1>3, <1>4
  <2>2. \A i \in S : (\A j \in S : j <= i) => i = f[N]
    BY <1>0, <2>1
  <2> QED
    BY <2>1, <2>2
<1>7. ASSUME NEW n \in 2..N
      PROVE  (CHOOSE j \in S : j < f[n] /\ \A k \in S : k < f[n] => k <= j) = f[n - 1]
  <2>1. n - 1 \in 1..N /\ n \in 1..N /\ n - 1 < n
    OBVIOUS
  <2>2. f[n - 1] \in S /\ f[n - 1] < f[n]
    BY <1>0, <1>1, <2>1
  <2>3. ASSUME NEW k \in S, k < f[n] PROVE k <= f[n - 1]
    <3>1. PICK m \in 1..N : k = f[m]
      BY <1>0
    <3>2. m <= n - 1 \/ n <= m
      BY <2>1
    <3>3. n <= m => f[n] <= f[m]
      BY <1>3, <2>1
    <3>4. ~(n <= m)
      <4>1. f[n] \in Nat /\ f[m] \in Nat /\ f[m] < f[n]
        BY <1>0, <2>1, <2>3, <3>1
      <4> QED
        BY <3>3, <4>1
    <3> QED
      BY <1>3, <2>1, <3>1, <3>2, <3>4
  <2>4. ASSUME NEW j \in S, j < f[n], \A k \in S : k < f[n] => k <= j PROVE j = f[n - 1]
    <3>1. f[n - 1] <= j /\ j <= f[n - 1]
      BY <2>2, <2>3, <2>4
    <3>2. j \in Nat /\ f[n - 1] \in Nat
      BY <1>0, <2>1
    <3> QED
      BY <3>1, <3>2
  <2> QED
    BY <2>2, <2>3, <2>4
<1>8. Cardinality(S) = N
  <2>1. f \in Bijection(1..N, S)
    <3>1. f \in [1..N -> S]
      BY <1>0 DEF Increasing
    <3>2. f \in Injection(1..N, S)
      BY <1>2, <3>1 DEF Injection, IsInjective
    <3>3. f \in Surjection(1..N, S)
      BY <1>0, <3>1 DEF Surjection
    <3> QED
      BY <3>2, <3>3 DEF Bijection
  <2>2. IsFiniteSet(1..N) /\ Cardinality(1..N) = N
    BY FS_Interval
  <2>3. ExistsBijection(1..N, S)
    BY <2>1 DEF ExistsBijection
  <2> QED
    BY <2>2, <2>3, FS_Bijection, FS_CountingElements
<1> QED
  BY <1>2, <1>5, <1>6, <1>7, <1>8

-----------------------------------------------------------------------------
(* Sub-patterns that follow the calls                                      *)

SubIs(s, id, call) ==
  /\ s.pattern = id /\ s.kind = call.kind /\ s.wide = call.wide
  /\ s.left = call.left /\ s.right = call.right /\ s.last = call.last

WidthOf(call) == IF call.wide THEN 2 ELSE 1

\* The sub-patterns that the calls A add after the first o are chained.
LinkTo(A, j, o, to) ==
  /\ A[j].kind \notin TailKinds => to = {}
  /\ A[j].kind \in TailKinds =>
       \A l \in 1..(j - 1) :
         WidthOf(A[l]) = WidthOf(A[j]) /\ (\A k \in (l + 1)..(j - 1) : WidthOf(A[k]) # WidthOf(A[j]))
         => to = {o + l - 1}

Segment(subs, o, id, A) ==
  \A j \in 1..Len(A) : SubIs(subs[o + j], id, A[j]) /\ LinkTo(A, j, o, subs[o + j].chained_to)

Owned(subs, ns, o, n, id) == \A x \in 1..ns : subs[x].pattern = id <=> o < x /\ x <= o + n

Whole(links, p) ==
  LET Link(i) == sub_patterns[i + 1]
      first == CHOOSE i \in links : \A j \in links : i <= j
      end == CHOOSE i \in links : \A j \in links : j <= i
  IN /\ Cardinality(links) = Len(p.pieces)
     /\ \A i \in links :
          /\ Link(i).chained_to =
               IF i = first THEN {}
               ELSE {CHOOSE j \in links : j < i /\ \A k \in links : k < i => k <= j}
          /\ Link(i).last <=> i = end
          /\ Link(i).left <=> (i = first /\ "fullword" \in p.mods)
          /\ Link(i).right <=> (i = end /\ "fullword" \in p.mods)

LinksOf(id, wide) == {i \in SubPatternIds : /\ sub_patterns[i + 1].pattern = id
                                            /\ sub_patterns[i + 1].wide = wide}

\* Sub-patterns that follow the calls for a pattern are, in each of its widths,
\* one whole chain.
LEMMA ChainIsWhole ==
  ASSUME IsSeq(sub_patterns), NEW o \in Nat, NEW p \in AnyPattern, Len(p.pieces) > 1, NEW id,
         Segment(sub_patterns, o, id, Adds(p)), o + Len(Adds(p)) <= Len(sub_patterns),
         Owned(sub_patterns, Len(sub_patterns), o, Len(Adds(p)), id), NEW w \in Widths(p)
  PROVE  Whole(LinksOf(id, w), p)
<1>0. PICK N, A, ns : N = Len(p.pieces) /\ A = Adds(p) /\ ns = Len(sub_patterns)
  OBVIOUS
<1>1. N \in Nat /\ N > 1 /\ ns \in Nat
  BY <1>0, PiecesIs, SeqIs
<1>2. ChainShape(A, p)
  BY <1>0, ChainAdds
<1>3. /\ IsSeq(A) /\ Len(A) = Width(p) * N
      /\ \A n \in 1..N : \A v \in Widths(p) : IsLink(A[Place(p, n, v)], p, n, v)
  BY <1>0, <1>2 DEF ChainShape
<1>4. PICK M : M = Len(A)
  OBVIOUS
<1>5. M \in Nat /\ M = Width(p) * N /\ o + M <= ns
  BY <1>0, <1>3, <1>4, SeqIs
<1>6. \A n \in 1..N : Place(p, n, w) \in 1..M
  BY <1>1, <1>5, PlaceIs
<1>7. PICK f : f = [n \in 1..N |-> (o + Place(p, n, w)) - 1]
  OBVIOUS
<1>8. \A n \in 1..N : f[n] \in Nat /\ f[n] + 1 = o + Place(p, n, w) /\ f[n] = o + Place(p, n, w) - 1
  BY <1>6, <1>7
<1>9. Increasing(f, N)
  <2>1. f \in [1..N -> Nat]
    BY <1>7, <1>8
  <2>2. ASSUME NEW n \in 1..N, NEW m \in 1..N, n < m PROVE f[n] < f[m]
    <3>1. Place(p, n, w) < Place(p, m, w)
      BY <2>2, PlaceOrder
    <3>2. Place(p, n, w) \in Nat /\ Place(p, m, w) \in Nat
      BY <1>5, <1>6
    <3> QED
      BY <1>8, <3>1, <3>2
  <2> QED
    BY <2>1, <2>2 DEF Increasing
<1>10. PICK S : S = LinksOf(id, w)
  OBVIOUS
<1>11. ASSUME NEW j \in 1..M PROVE SubIs(sub_patterns[o + j], id, A[j]) /\ LinkTo(A, j, o, sub_patterns[o + j].chained_to)
  BY <1>0, <1>4 DEF Segment
<1>12. \A n \in 1..N : /\ SubIs(sub_patterns[f[n] + 1], id, A[Place(p, n, w)])
                       /\ LinkTo(A, Place(p, n, w), o, sub_patterns[f[n] + 1].chained_to)
                       /\ IsLink(A[Place(p, n, w)], p, n, w)
  <2> TAKE n \in 1..N
  <2>1. PICK j : j = Place(p, n, w)
    OBVIOUS
  <2>2. j \in 1..M /\ f[n] + 1 = o + j /\ IsLink(A[j], p, n, w)
    BY <1>3, <1>6, <1>8, <2>1
  <2>3. SubIs(sub_patterns[o + j], id, A[j]) /\ LinkTo(A, j, o, sub_patterns[o + j].chained_to)
    BY <1>11, <2>2
  <2> QED
    BY <2>1, <2>2, <2>3
<1>13. \A n \in 1..N : f[n] \in S
  <2> TAKE n \in 1..N
  <2>1. f[n] \in 0..(ns - 1)
    <3>1. PICK j, i : j = Place(p, n, w) /\ i = f[n]
      OBVIOUS
    <3>2. j \in 1..M /\ i \in Nat /\ i + 1 = o + j
      BY <1>6, <1>8, <3>1
    <3>3. i \in 0..(ns - 1)
      BY ONLY <1>1, <1>5, <3>2, o \in Nat
    <3> QED
      BY <3>1, <3>3
  <2>2. f[n] \in SubPatternIds
    BY <1>0, <2>1 DEF SubPatternIds
  <2>3. sub_patterns[f[n] + 1].pattern = id /\ sub_patterns[f[n] + 1].wide = w
    BY <1>12 DEF SubIs, IsLink
  <2> QED
    BY <1>10, <2>2, <2>3 DEF LinksOf
<1>14. ASSUME NEW x \in 1..M, A[x].wide = w PROVE \E n \in 1..N : x = Place(p, n, w)
  <2>1. PICK n \in 1..N, v \in Widths(p) : x = Place(p, n, v)
    BY <1>1, <1>5, PlaceOnto
  <2>2. A[x].wide = v
    BY <1>3, <2>1 DEF IsLink
  <2> QED
    BY <1>14, <2>1, <2>2
<1>20. ASSUME NEW x \in 1..M, WidthOf(A[x]) = IF w THEN 2 ELSE 1 PROVE A[x].wide = w
  <2>1. PICK n \in 1..N, v \in Widths(p) : x = Place(p, n, v)
    BY <1>1, <1>5, PlaceOnto
  <2>2. A[x].wide = v
    BY <1>3, <2>1 DEF IsLink
  <2>3. v \in BOOLEAN /\ w \in BOOLEAN
    BY DEF Widths
  <2>4. v = w
    BY <1>20, <2>2, <2>3 DEF WidthOf
  <2> QED
    BY <2>2, <2>4
<1>15. ASSUME NEW i \in S PROVE \E n \in 1..N : i = f[n]
  <2>1. i \in 0..(ns - 1) /\ sub_patterns[i + 1].pattern = id /\ sub_patterns[i + 1].wide = w
    BY <1>0, <1>10 DEF SubPatternIds, LinksOf
  <2>2. i + 1 \in 1..ns
    BY <1>1, <2>1
  <2>3. o < i + 1 /\ i + 1 <= o + M
    BY <1>0, <1>4, <2>1, <2>2 DEF Owned
  <2>4. PICK x : x = (i + 1) - o
    OBVIOUS
  <2>5. x \in 1..M /\ o + x = i + 1
    BY <1>5, <2>1, <2>3, <2>4
  <2>6. A[x].wide = w
    <3>1. SubIs(sub_patterns[i + 1], id, A[x])
      BY <1>11, <2>5
    <3> QED
      BY <2>1, <3>1 DEF SubIs
  <2>7. PICK n \in 1..N : x = Place(p, n, w)
    BY <1>14, <2>5, <2>6
  <2>8. i = f[n]
    BY <1>8, <2>1, <2>5, <2>7, SMTT(30)
  <2> QED
    BY <2>8
<1>16. S = Values(f, N)
  BY <1>13, <1>15 DEF Values
<1>17. PICK first, end : /\ first = CHOOSE i \in S : \A j \in S : i <= j
                         /\ end = CHOOSE i \in S : \A j \in S : j <= i
  OBVIOUS
<1>18. /\ Cardinality(S) = N /\ first = f[1] /\ end = f[N]
       /\ \A n \in 2..N : (CHOOSE j \in S : j < f[n] /\ \A k \in S : k < f[n] => k <= j) = f[n - 1]
       /\ \A n \in 1..N : \A m \in 1..N : f[n] = f[m] => n = m
  <2>1. N > 0
    BY <1>1
  <2> QED
    BY <1>1, <1>9, <1>16, <1>17, <2>1, IncreasingIs
<1>19. ASSUME NEW i \in S
       PROVE  /\ sub_patterns[i + 1].chained_to =
                   IF i = first THEN {}
                   ELSE {CHOOSE j \in S : j < i /\ \A k \in S : k < i => k <= j}
              /\ sub_patterns[i + 1].last <=> i = end
              /\ sub_patterns[i + 1].left <=> (i = first /\ "fullword" \in p.mods)
              /\ sub_patterns[i + 1].right <=> (i = end /\ "fullword" \in p.mods)
  <2>1. PICK n \in 1..N : i = f[n]
    BY <1>15
  <2>2. 1 \in 1..N /\ N \in 1..N
    BY <1>1
  <2>3. (i = first <=> n = 1) /\ (i = end <=> n = N)
    BY <1>18, <2>1, <2>2
  <2>4. PICK x : x = Place(p, n, w)
    OBVIOUS
  <2>5. /\ SubIs(sub_patterns[i + 1], id, A[x]) /\ IsLink(A[x], p, n, w)
        /\ LinkTo(A, x, o, sub_patterns[i + 1].chained_to)
    BY <1>12, <2>1, <2>4
  <2>6. /\ A[x].last <=> n = N
        /\ A[x].left <=> n = 1 /\ "fullword" \in p.mods
        /\ A[x].right <=> n = N /\ "fullword" \in p.mods
        /\ A[x].wide = w /\ (A[x].kind \in TailKinds <=> n > 1)
    BY <1>0, <2>5 DEF IsLink
  <2>7. /\ sub_patterns[i + 1].last = A[x].last /\ sub_patterns[i + 1].left = A[x].left
        /\ sub_patterns[i + 1].right = A[x].right
    BY <2>5 DEF SubIs
  <2>8. sub_patterns[i + 1].chained_to =
          IF i = first THEN {} ELSE {CHOOSE j \in S : j < i /\ \A k \in S : k < i => k <= j}
    <3>1. CASE n = 1
      <4>1. A[x].kind \notin TailKinds
        BY <2>6, <3>1
      <4>2. sub_patterns[i + 1].chained_to = {}
        BY <2>5, <4>1 DEF LinkTo
      <4> QED
        BY <2>3, <3>1, <4>2
    <3>2. CASE n # 1
      <4>1. n \in 2..N /\ n - 1 \in 1..N /\ n > 1 /\ n - 1 < n
        BY <1>1, <3>2
      <4>2. (CHOOSE j \in S : j < i /\ \A k \in S : k < i => k <= j) = f[n - 1]
        BY <1>18, <2>1, <4>1
      <4>3. PICK l : l = Place(p, n - 1, w)
        OBVIOUS
      <4>4. l \in 1..M /\ x \in 1..M /\ l < x
        <5>1. l < x
          BY <2>4, <4>1, <4>3, PlaceOrder
        <5> QED
          BY <1>6, <2>4, <4>1, <4>3, <5>1
      <4>5. WidthOf(A[l]) = WidthOf(A[x])
        <5>1. A[l].wide = w
          BY <1>12, <4>1, <4>3 DEF IsLink
        <5> QED
          BY <2>6, <5>1 DEF WidthOf
      <4>6. ASSUME NEW k \in (l + 1)..(x - 1), WidthOf(A[k]) = WidthOf(A[x]) PROVE FALSE
        <5>1. k \in 1..M /\ l < k /\ k < x
          BY <1>5, <4>4
        <5>5. A[k].wide = w
          <6>1. WidthOf(A[k]) = IF w THEN 2 ELSE 1
            BY <2>6, <4>6 DEF WidthOf
          <6> QED
            BY <1>20, <5>1, <6>1
        <5>2. PICK m \in 1..N : k = Place(p, m, w)
          BY <1>14, <5>1, <5>5
        <5>3. ~(m < n - 1) /\ ~(m = n - 1)
          <6>1. m < n - 1 => Place(p, m, w) < Place(p, n - 1, w)
            BY <4>1, PlaceOrder
          <6> QED
            BY <4>3, <4>4, <5>1, <5>2, <6>1
        <5>4. ~(n < m) /\ ~(m = n)
          <6>1. n < m => Place(p, n, w) < Place(p, m, w)
            BY PlaceOrder
          <6> QED
            BY <2>4, <4>4, <5>1, <5>2, <6>1
        <5> QED
          BY <5>3, <5>4
      <4>7. l \in 1..(x - 1)
        BY <1>5, <4>4
      <4>8. A[x].kind \in TailKinds
        BY <2>6, <4>1
      <4>9. sub_patterns[i + 1].chained_to = {o + l - 1}
        BY <2>5, <4>5, <4>6, <4>7, <4>8 DEF LinkTo
      <4>10. f[n - 1] = o + l - 1
        BY <1>8, <4>1, <4>3
      <4> QED
        BY <2>3, <3>2, <4>2, <4>9, <4>10
    <3> QED
      BY <3>1, <3>2
  <2> QED
    BY <2>3, <2>6, <2>7, <2>8
<1> QED
  <2>1. Whole(S, p)
    BY ONLY <1>0, <1>17, <1>18, <1>19, Zenon DEF Whole
  <2> QED
    BY <1>10, <2>1

-----------------------------------------------------------------------------
(* The code of the calls, and the calls of a pattern with bounds           *)

CodeParts(s) == [j \in DOMAIN s |-> CodeOf(s[j].piece)]
CodeFor(s) == FlattenSeq(CodeParts(s))
CodeAll(p) == CodeFor(CallsOf(p, "c_regexp"))

LEMMA CodePartsIs ==
  ASSUME NEW s, IsSeq(s)
  PROVE  /\ AreSeqs(CodeParts(s)) /\ Len(CodeParts(s)) = Len(s)
         /\ \A i \in 1..Len(s) : CodeParts(s)[i] = CodeOf(s[i].piece)
<1>1. Len(s) \in Nat /\ DOMAIN s = 1..Len(s)
  BY SeqIs
<1>2. PICK f : f = CodeParts(s)
  OBVIOUS
<1>3. f = [i \in 1..Len(s) |-> f[i]] /\ \A i \in 1..Len(s) : f[i] = CodeOf(s[i].piece)
  BY <1>1, <1>2 DEF CodeParts
<1>4. IsSeq(f) /\ Len(f) = Len(s)
  BY <1>1, <1>3, FunctionIs
<1>5. \A i \in 1..Len(s) : IsSeq(f[i])
  BY <1>3, CodeIs
<1> QED
  BY <1>2, <1>3, <1>4, <1>5 DEF AreSeqs

LEMMA CodeForIs ==
  ASSUME NEW s, IsSeq(s)
  PROVE  IsSeq(CodeFor(s))
BY CodePartsIs, FlattenIsSeq DEF CodeFor

LEMMA CodeForEmpty == CodeFor(<<>>) = <<>>
<1>1. IsSeq(<<>>) /\ Len(<<>>) = 0
  BY EmptyIs
<1>2. PICK f : f = CodeParts(<<>>)
  OBVIOUS
<1>3. IsSeq(f) /\ Len(f) = 0
  BY <1>1, <1>2, CodePartsIs DEF AreSeqs
<1>4. f = <<>>
  BY <1>3, SeqIs
<1> QED
  BY <1>2, <1>4, FlattenEmpty DEF CodeFor

\* One more call of c_regexp appends the code of its piece.
LEMMA CodeForLast ==
  ASSUME NEW s, IsSeq(s), NEW e
  PROVE  CodeFor(Append(s, e)) = CodeFor(s) \o CodeOf(e.piece)
<1>1. PICK t : t = Append(s, e)
  OBVIOUS
<1>2. /\ IsSeq(t) /\ Len(t) = Len(s) + 1 /\ t[Len(s) + 1] = e
      /\ \A i \in 1..Len(s) : t[i] = s[i]
  BY <1>1, AppendIs
<1>3. PICK f, g : f = CodeParts(t) /\ g = CodeParts(s)
  OBVIOUS
<1>4. /\ AreSeqs(f) /\ Len(f) = Len(s) + 1 /\ \A i \in 1..Len(t) : f[i] = CodeOf(t[i].piece)
      /\ AreSeqs(g) /\ Len(g) = Len(s) /\ \A i \in 1..Len(s) : g[i] = CodeOf(s[i].piece)
  BY <1>2, <1>3, CodePartsIs
<1>5. Len(s) \in Nat
  BY SeqIs
<1>6. Len(f) = Len(g) + 1 /\ f[Len(f)] = CodeOf(e.piece) /\ \A i \in 1..Len(g) : g[i] = f[i]
  BY <1>2, <1>4, <1>5
<1>7. FlattenSeq(f) = FlattenSeq(g) \o f[Len(f)]
  <2>1. IsSeq(g)
    BY <1>4 DEF AreSeqs
  <2> QED
    BY <1>4, <1>6, <2>1, FlattenLast
<1> QED
  BY <1>1, <1>3, <1>6, <1>7 DEF CodeFor

\* The code of a piece ends with an instruction for it.
LEMMA CodeEnds ==
  ASSUME NEW piece, NEW s, s = CodeOf(piece)
  PROVE  IsSeq(s) /\ Len(s) \in Nat /\ Len(s) > 0 /\ s[Len(s)][2] = piece
<1>1. PICK a, b, c : a = <<"fast", piece>> /\ b = <<"wasted", piece>> /\ c = <<"pike", piece>>
  OBVIOUS
<1>2. a[2] = piece /\ c[2] = piece
  BY <1>1
<1>3. /\ IsSeq(<<a>>) /\ Len(<<a>>) = 1 /\ <<a>>[1] = a /\ IsSeq(<<b>>) /\ Len(<<b>>) = 1
      /\ IsSeq(<<c>>) /\ Len(<<c>>) = 1 /\ <<c>>[1] = c
  BY OneIs
<1>4. CASE piece \in FastRegexps
  <2>1. s = <<a>>
    BY <1>1, <1>4 DEF CodeOf
  <2> QED
    BY <1>2, <1>3, <2>1
<1>5. CASE piece \notin FastRegexps
  <2>1. PICK t : t = When(piece \in WastedRegexps, <<b>>)
    OBVIOUS
  <2>2. s = t \o <<c>>
    BY <1>1, <1>5, <2>1 DEF CodeOf
  <2>3. IsSeq(t)
    BY <1>3, <2>1, EmptyIs DEF When
  <2>4. Len(t) \in Nat
    BY <2>3, SeqIs
  <2>5. PICK u : u = <<c>>
    OBVIOUS
  <2>6. IsSeq(u) /\ Len(u) = 1 /\ u[1] = c
    BY <1>3, <2>5
  <2>7. IsSeq(s) /\ Len(s) = Len(t) + 1 /\ s[Len(t) + 1] = c
    <3>1. s = t \o u
      BY <2>2, <2>5
    <3>2. /\ IsSeq(t \o u) /\ Len(t \o u) = Len(t) + Len(u)
          /\ \A i \in 1..Len(u) : (t \o u)[Len(t) + i] = u[i]
      <4>1. IsSeq(t) /\ IsSeq(u)
        BY <2>3, <2>6
      <4> QED
        BY ONLY <4>1, ConcatIs
    <3>3. 1 \in 1..Len(u)
      BY <2>6
    <3> QED
      BY <2>6, <3>1, <3>2, <3>3
  <2> QED
    BY <1>2, <2>4, <2>7
<1> QED
  BY <1>4, <1>5

SamePattern(p, q) ==
  q.text = p.text /\ q.mods = p.mods /\ q.pieces = p.pieces /\ q.anchored_at = p.anchored_at

\* The calls do not depend on the bounds of a pattern.
LEMMA SameCalls ==
  ASSUME NEW p, NEW q, SamePattern(p, q)
  PROVE  Calls(q) = Calls(p)
<1>1. IsWide(q) = IsWide(p) /\ IsRaw(q) = IsRaw(p)
  BY DEF SamePattern, IsWide, IsRaw
<1>2. \A kind, wide, anchored_at : CallWhole(q, kind, wide, anchored_at) = CallWhole(p, kind, wide, anchored_at)
  <2> TAKE kind, wide, anchored_at
  <2>1. PICK m : m = p.mods /\ m = q.mods
    BY DEF SamePattern
  <2>2. /\ CallWhole(q, kind, wide, anchored_at)
             = CallAdd(kind, wide, anchored_at, "fullword" \in m, "fullword" \in m, FALSE)
        /\ CallWhole(p, kind, wide, anchored_at)
             = CallAdd(kind, wide, anchored_at, "fullword" \in m, "fullword" \in m, FALSE)
    BY <2>1, Zenon DEF CallWhole
  <2> QED
    BY <2>2, Zenon
<1>3. \A wide : CLiteralMain(q, wide) = CLiteralMain(p, wide)
  BY <1>2 DEF CLiteralMain, SamePattern
<1>4. CLiteralPattern(q) = CLiteralPattern(p)
  <2>1. CLiteralMain(q, TRUE) = CLiteralMain(p, TRUE) /\ CLiteralMain(q, FALSE) = CLiteralMain(p, FALSE)
    BY <1>3
  <2>2. PICK m : m = p.mods /\ m = q.mods
    BY DEF SamePattern
  <2> QED
    BY <2>1, <2>2, Zenon DEF CLiteralPattern, IsWide, IsRaw
<1>5. CAlternationLiteral(q) = CAlternationLiteral(p)
  BY <1>1, <1>2 DEF CAlternationLiteral, SamePattern
<1>6. CChainHead(q) = CChainHead(p)
  BY <1>1, Zenon DEF CChainHead, SamePattern
<1>7. \A i : CChainTail(q, i) = CChainTail(p, i)
  BY <1>1, Zenon DEF CChainTail, SamePattern
<1>8. CChain(q) = CChain(p)
  BY <1>6, <1>7 DEF CChain, SamePattern
<1>9. CRegexpPattern(q) = CRegexpPattern(p)
  BY <1>1, <1>2, <1>5, <1>8 DEF CRegexpPattern, SamePattern
<1> QED
  BY <1>4, <1>9 DEF Calls, SamePattern

\* Bounding a pattern with those of a rule changes nothing else.
LEMMA BoundedIs ==
  ASSUME NEW p \in AnyPattern, NEW d
  PROVE  /\ SamePattern(p, Bounded(d, p))
         /\ Bounded(d, p).filesize_bounds = d.filesize_bounds
         /\ Bounded(d, p).header_constraints = d.header_constraints
         /\ Calls(Bounded(d, p)) = Calls(p)
<1>1. SamePattern(p, Bounded(d, p))
  BY DEF SamePattern, Bounded, AnyPattern
<1>2. /\ Bounded(d, p).filesize_bounds = d.filesize_bounds
      /\ Bounded(d, p).header_constraints = d.header_constraints
  BY DEF Bounded, AnyPattern
<1> QED
  BY <1>1, <1>2, SameCalls

\* The calls for a pattern compile only its own pieces.
LEMMA CallsIs ==
  ASSUME NEW p \in AnyPattern
  PROVE  /\ IsSeq(Calls(p)) /\ Len(Calls(p)) \in Nat
         /\ \A i \in 1..Len(Calls(p)) : Calls(p)[i].call = "c_regexp" =>
              \E j \in 1..Len(p.pieces) : Calls(p)[i].piece = p.pieces[j]
<1>1. PICK P : P = {p.pieces[j] : j \in 1..Len(p.pieces)}
  OBVIOUS
<1>2. \A j \in 1..Len(p.pieces) : p.pieces[j] \in P
  BY <1>1
<1>3. GoodCalls(P, Calls(p))
  BY <1>2, CallsAreGood
<1>4. IsSeq(Calls(p)) /\ \A i \in 1..Len(Calls(p)) : Calls(p)[i].call = "c_regexp" => Calls(p)[i].piece \in P
  BY <1>3 DEF GoodCalls, GoodCall
<1>5. \A e \in P : \E j \in 1..Len(p.pieces) : e = p.pieces[j]
  BY <1>1
<1> QED
  BY <1>4, <1>5, SeqIs

-----------------------------------------------------------------------------
(* What the tables hold, and how far the current rule has come             *)

CompilePcs == {"compile", "refused"}
EarlyPcs == {"patterns", "condition", "slow", "result"}

\* The pattern that rule d registers at position k.
UseAt(d, k) == Bounded(d, d.patterns[k].pattern)

\* ps has the registered patterns in the order of their ids.
Listing(ps) ==
  /\ \A i \in 1..next_pattern_id : ps[i] \in DOMAIN patterns /\ patterns[ps[i]] = i - 1
  /\ \A p \in DOMAIN patterns : ps[patterns[p] + 1] = p
  /\ patterns = [p \in DOMAIN patterns |-> patterns[p]]

\* The first c patterns are compiled; the others are the ones the rule has pending.
Progress(c) ==
  /\ c \in 0..next_pattern_id
  /\ pc \notin RulePcs => c = next_pattern_id
  /\ pc \in RulePcs => cur.snapshot.next_pattern_id <= c /\ cur.pending = c..(next_pattern_id - 1)
  /\ pc \in EarlyPcs => cur.snapshot.next_pattern_id = next_pattern_id
  /\ pc = "assign" => c = cur.snapshot.next_pattern_id

\* The ids of the patterns of rule d, of which the ones from first to next are new.
GivenIds(ps, ids, d, first, next) ==
  /\ \A k \in 1..Len(ids) : ps[ids[k] + 1] = UseAt(d, k)
  /\ \A k \in 1..Len(ids) : \A i \in first..(ids[k] - 1) : \E j \in 1..(k - 1) : ids[j] = i
  /\ \A i \in first..(next - 1) : \E j \in 1..Len(ids) : ids[j] = i

CurIds(ps, c) ==
  /\ pc \in RulePcs =>
       GivenIds(ps, cur.pattern_ids, cur.rule, cur.snapshot.next_pattern_id, next_pattern_id)
  /\ pc \in PushedPcs => \A j \in 1..cur.k : cur.pattern_ids[j] \in cur.pending => pc # "next" /\ j = cur.k
  /\ pc \in CompilePcs => cur.k # 0 /\ cur.pattern_ids[cur.k] = c /\ c < next_pattern_id

\* The entry of accepted rule a in the table of rules.
EntryIs(ps, r, a) ==
  /\ r = [ident |-> a.rule.ident, namespace |-> a.namespace, patterns |-> r.patterns]
  /\ \A k \in 1..Len(a.rule.patterns) : ps[r.patterns[k] + 1] = UseAt(a.rule, k)

RuleIds(ps) == \A i \in 1..Len(accepted) : EntryIs(ps, rules[i], accepted[i])

\* The registered patterns are in the order of their first use.
Prefix(ps, n) == [i \in 1..n |-> ps[i]]
UsesFor(ids, d) == [k \in 1..Len(ids) |-> UseAt(d, k)]
CurUses == UsesFor(cur.pattern_ids, cur.rule)
Order(ps) ==
  /\ Firsts(AllUses) = Prefix(ps, KeptPatterns)
  /\ pc \in RulePcs => Firsts(AllUses \o CurUses) = Prefix(ps, next_pattern_id)

\* The places where the patterns' sub-patterns, or their code, begin and end.
Places(at, c) == at[0] = 0 /\ \A i \in 0..c : at[i] \in Nat /\ \A j \in i..c : at[i] <= at[j]

Compiled(ps, c, at, subs) ==
  /\ Places(at, c)
  /\ \A i \in 1..c : at[i] = at[i - 1] + Len(Adds(ps[i])) /\ Segment(subs, at[i - 1], i - 1, Adds(ps[i]))
  /\ \A x \in 1..at[c] : subs[x].pattern \in 0..(c - 1)
  /\ \A x \in 1..at[c] : \A i \in 1..c : subs[x].pattern = i - 1 <=> at[i - 1] < x /\ x <= at[i]

Subs(ps, c, at) ==
  /\ Compiled(ps, c, at, sub_patterns)
  /\ pc \notin CompilePcs => Len(sub_patterns) = at[c]
  /\ pc \in RulePcs => cur.snapshot.sub_patterns_len = at[cur.snapshot.next_pattern_id]

\* The calls that compile the current pattern; the first m are made.
CurCalls == Calls(cur.rule.patterns[cur.k].pattern)
Made(m, kind) == Select(Truncate(CurCalls, m), kind)

Left(m) ==
  pc \in CompilePcs =>
    /\ m \in 0..Len(CurCalls)
    /\ Len(cur.calls) = Len(CurCalls) - m
    /\ \A i \in 1..Len(cur.calls) : cur.calls[i] = CurCalls[m + i]

\* prev has, for each width, the sub-pattern that the calls A added last.
Prev(A, o, prev) ==
  /\ prev \in [1..2 -> Nat]
  /\ \A l \in 1..Len(A) : (\A k \in (l + 1)..Len(A) : WidthOf(A[k]) # WidthOf(A[l]))
                          => prev[WidthOf(A[l])] = o + l - 1

MadeSubs(c, at, m) ==
  pc \in CompilePcs =>
    /\ Len(sub_patterns) = at[c] + Len(Made(m, Add))
    /\ Segment(sub_patterns, at[c], c, Made(m, Add))
    /\ Prev(Made(m, Add), at[c], cur.prev)

CodeIn(code, o, s) == \A j \in 1..Len(s) : code[o + j] = s[j]

Coded(ps, c, ct, code) ==
  /\ Places(ct, c)
  /\ \A i \in 1..c : ct[i] = ct[i - 1] + Len(CodeAll(ps[i])) /\ CodeIn(code, ct[i - 1], CodeAll(ps[i]))

Codes(ps, c, ct) ==
  /\ Coded(ps, c, ct, re_code)
  /\ pc \notin CompilePcs => Len(re_code) = ct[c]
  /\ pc \in RulePcs => cur.snapshot.re_code_len = ct[cur.snapshot.next_pattern_id]

MadeCode(c, ct, m) ==
  pc \in CompilePcs =>
    /\ Len(re_code) = ct[c] + Len(CodeFor(Made(m, "c_regexp")))
    /\ CodeIn(re_code, ct[c], CodeFor(Made(m, "c_regexp")))

\* The instruction at x is for a piece of p.
PieceAt(code, x, p) == \E j \in 1..Len(p.pieces) : code[x][2] = p.pieces[j]
AtomCode(ps, a, subs, code) ==
  a.code # 0 => PieceAt(code, a.code, ps[subs[a.sub_pattern + 1].pattern + 1])
AtomCodes(ps, c) ==
  /\ \A i \in 1..Len(atoms) : AtomCode(ps, atoms[i], sub_patterns, re_code)
  /\ pc = "compile" /\ cur.code # 0 => PieceAt(re_code, cur.code, ps[c + 1])

\* The bounds are those of the compiled patterns that have one.
FilesizeAre(ps, c) ==
  /\ filesize_bounds = [i \in DOMAIN filesize_bounds |-> filesize_bounds[i]]
  /\ \A i \in 0..(next_pattern_id - 1) :
       /\ i \in DOMAIN filesize_bounds <=> i < c /\ ps[i + 1].filesize_bounds # {}
       /\ i \in DOMAIN filesize_bounds => filesize_bounds[i] = ps[i + 1].filesize_bounds
HeadersAre(ps, c) ==
  /\ header_constraints = [i \in DOMAIN header_constraints |-> header_constraints[i]]
  /\ \A i \in 0..(next_pattern_id - 1) :
       /\ i \in DOMAIN header_constraints <=> i < c /\ ps[i + 1].header_constraints # {}
       /\ i \in DOMAIN header_constraints => header_constraints[i] = ps[i + 1].header_constraints
BoundsAre(ps, c) == FilesizeAre(ps, c) /\ HeadersAre(ps, c)

IdsInv(ps, c) == Listing(ps) /\ Progress(c) /\ CurIds(ps, c) /\ RuleIds(ps) /\ Order(ps) /\ BoundsAre(ps, c)
SegmentsInv(ps, c, at, m) == Subs(ps, c, at) /\ MadeSubs(c, at, m)
InstructionsInv(ps, c, ct, m) == Codes(ps, c, ct) /\ MadeCode(c, ct, m) /\ AtomCodes(ps, c)

TablesInv(ps, c, at, ct, m) ==
  IdsInv(ps, c) /\ Left(m) /\ SegmentsInv(ps, c, at, m) /\ InstructionsInv(ps, c, ct, m)

TInv == \E ps, c, at, ct, m : TablesInv(ps, c, at, ct, m)

-----------------------------------------------------------------------------

\* The steps between rules.
LEMMA OutsideTables ==
  ASSUME NEW ps, NEW c, NEW at, NEW ct, NEW m, TablesInv(ps, c, at, ct, m), Outside
  PROVE  TablesInv(ps, c, at, ct, m)'
<1>1. /\ pc \in RestPcs /\ pc' \in RestPcs /\ pc \notin RulePcs /\ pc' \notin RulePcs
      /\ UNCHANGED <<rules, patterns, next_pattern_id, sub_patterns, atoms, re_code,
                     filesize_bounds, header_constraints, cur, accepted>>
  BY OutsideKeeps DEF tables
<1>2. /\ pc \notin PushedPcs /\ pc' \notin PushedPcs /\ pc \notin CompilePcs /\ pc' \notin CompilePcs
      /\ pc \notin EarlyPcs /\ pc' \notin EarlyPcs /\ pc # "assign" /\ pc' # "assign" /\ pc' # "compile"
  BY <1>1 DEF RestPcs, PushedPcs, CompilePcs, EarlyPcs
<1>3. Listing(ps)' /\ Progress(c)' /\ CurIds(ps, c)' /\ RuleIds(ps)' /\ BoundsAre(ps, c)'
  BY <1>1, <1>2 DEF TablesInv, IdsInv, Listing, Progress, CurIds, RuleIds, BoundsAre, FilesizeAre, HeadersAre
<1>4. Order(ps)'
  BY <1>1, <1>2 DEF TablesInv, IdsInv, Order, KeptPatterns, AllUses
<1>5. Left(m)' /\ SegmentsInv(ps, c, at, m)' /\ InstructionsInv(ps, c, ct, m)'
  BY <1>1, <1>2 DEF TablesInv, Left, SegmentsInv, Subs, MadeSubs, InstructionsInv, Codes, MadeCode, AtomCodes
<1> QED
  BY <1>3, <1>4, <1>5 DEF TablesInv, IdsInv

UsesList(acc) == [i \in DOMAIN acc |-> UsesOf(acc[i])]

\* The uses of each accepted rule are a sequence.
LEMMA UsesListIs ==
  ASSUME NEW acc, IsSeq(acc), \A i \in 1..Len(acc) : acc[i].rule \in Decls
  PROVE  /\ AreSeqs(UsesList(acc)) /\ Len(UsesList(acc)) = Len(acc)
         /\ \A i \in 1..Len(acc) : UsesList(acc)[i] = UsesOf(acc[i])
<1>2. Len(acc) \in Nat /\ DOMAIN acc = 1..Len(acc)
  BY SeqIs
<1>3. PICK f : f = UsesList(acc)
  OBVIOUS
<1>4. f = [i \in 1..Len(acc) |-> f[i]] /\ \A i \in 1..Len(acc) : f[i] = UsesOf(acc[i])
  BY <1>2, <1>3 DEF UsesList
<1>5. IsSeq(f) /\ Len(f) = Len(acc)
  BY <1>2, <1>4, FunctionIs
<1>6. ASSUME NEW i \in 1..Len(acc) PROVE IsSeq(f[i])
  <2>1. PICK u, d : u = UsesOf(acc[i]) /\ d = acc[i].rule
    OBVIOUS
  <2>2. Len(d.patterns) \in Nat /\ DOMAIN d.patterns = 1..Len(d.patterns)
    BY <2>1, CompilerAssumption
  <2>3. u = [k \in 1..Len(d.patterns) |-> u[k]]
    BY <2>1, <2>2 DEF UsesOf
  <2> QED
    BY <1>4, <2>1, <2>2, <2>3, FunctionIs
<1> QED
  BY <1>3, <1>4, <1>5, <1>6 DEF AreSeqs

\* The uses of the accepted rules are a sequence.
LEMMA AllUsesIs ==
  ASSUME IInv
  PROVE  IsSeq(AllUses)
<1>1. IsSeq(accepted) /\ \A i \in 1..Len(accepted) : accepted[i].rule \in Decls
  BY DEF IInv, RuleInv, RuleIs
<1>2. AllUses = FlattenSeq(UsesList(accepted))
  BY DEF AllUses, UsesList
<1> QED
  BY <1>1, <1>2, UsesListIs, FlattenIsSeq

\* A rule begins: its snapshot is the lengths of the tables.
LEMMA TakesTables ==
  ASSUME IInv, NEW ps, NEW c, NEW at, NEW ct, NEW m, TablesInv(ps, c, at, ct, m), NEW d, Takes(d)
  PROVE  TablesInv(ps, c, at, ct, m)'
<1>1. /\ pc = "items" /\ pc' = "patterns"
      /\ UNCHANGED <<rules, patterns, next_pattern_id, sub_patterns, atoms, re_code,
                     filesize_bounds, header_constraints, accepted>>
  BY DEF Takes, tables
<1>2. /\ pc \notin RulePcs /\ pc' \in RulePcs /\ pc \notin CompilePcs /\ pc' \notin CompilePcs
      /\ pc' \notin PushedPcs /\ pc' # "assign" /\ pc' # "compile"
  BY <1>1 DEF RulePcs, PushedPcs, CompilePcs
<1>3. /\ cur'.pattern_ids = <<>> /\ cur'.pending = {} /\ cur'.snapshot.next_pattern_id = next_pattern_id
      /\ cur'.snapshot.sub_patterns_len = Len(sub_patterns) /\ cur'.snapshot.re_code_len = Len(re_code)
  BY RuleFields DEF Takes, TakeSnapshot
<1>4. next_pattern_id \in Nat /\ c = next_pattern_id
  BY <1>2 DEF TablesInv, IdsInv, Progress, IInv, PatternInv
<1>5. Len(<<>>) = 0
  BY EmptyIs
<1>6. Listing(ps)' /\ RuleIds(ps)' /\ BoundsAre(ps, c)'
  BY <1>1, <1>2 DEF TablesInv, IdsInv, Listing, RuleIds, BoundsAre, FilesizeAre, HeadersAre
<1>7. Progress(c)'
  <2>1. c..(c - 1) = {} /\ c <= c /\ c \in 0..c
    BY <1>4
  <2> QED
    BY <1>1, <1>2, <1>3, <1>4, <2>1 DEF Progress
<1>8. CurIds(ps, c)'
  <2>1. \A i \in next_pattern_id..(next_pattern_id - 1) : FALSE
    BY <1>4
  <2>2. GivenIds(ps, cur'.pattern_ids, cur'.rule, cur'.snapshot.next_pattern_id, next_pattern_id')
    BY <1>1, <1>3, <1>5, <2>1 DEF GivenIds
  <2> QED
    BY <1>2, <2>2 DEF CurIds
<1>9. Order(ps)'
  <2>1. Firsts(AllUses) = Prefix(ps, next_pattern_id)
    BY <1>2 DEF TablesInv, IdsInv, Order, KeptPatterns
  <2>2. AllUses' = AllUses
    BY <1>1 DEF AllUses
  <2>3. CurUses' = <<>>
    <3>1. PICK f : f = CurUses'
      OBVIOUS
    <3>2. f = [k \in 1..0 |-> f[k]]
      BY <1>3, <1>5, <3>1 DEF CurUses, UsesFor
    <3>3. IsSeq(f) /\ Len(f) = 0
      BY <3>2, FunctionIs
    <3> QED
      BY <3>1, <3>3, SeqIs
  <2>4. AllUses \o <<>> = AllUses
    BY AllUsesIs, EmptyConcat
  <2>5. KeptPatterns' = next_pattern_id
    BY <1>2, <1>3 DEF KeptPatterns
  <2> QED
    BY <1>1, <1>2, <2>1, <2>2, <2>3, <2>4, <2>5 DEF Order
<1>10. Left(m)' /\ SegmentsInv(ps, c, at, m)'
  BY <1>1, <1>2, <1>3, <1>4 DEF TablesInv, Left, SegmentsInv, Subs, MadeSubs
<1>11. InstructionsInv(ps, c, ct, m)'
  BY <1>1, <1>2, <1>3, <1>4 DEF TablesInv, InstructionsInv, Codes, MadeCode, AtomCodes
<1> QED
  BY <1>6, <1>7, <1>8, <1>9, <1>10, <1>11 DEF TablesInv, IdsInv

-----------------------------------------------------------------------------
(* The steps of a rule before its patterns are compiled                    *)

\* The passes before pattern ids are assigned.
LEMMA EarlyTables ==
  ASSUME IInv, NEW ps, NEW c, NEW at, NEW ct, NEW m, TablesInv(ps, c, at, ct, m),
         Passes \/ ConditionFromAst
  PROVE  TablesInv(ps, c, at, ct, m)'
<1>1. /\ pc \in EarlyPcs /\ pc' \in EarlyPcs \cup {"assign"}
      /\ UNCHANGED <<rules, patterns, next_pattern_id, sub_patterns, atoms, re_code,
                     filesize_bounds, header_constraints, accepted>>
  BY DEF Passes, ConditionFromAst, tables, EarlyPcs
<1>2. /\ pc \in RulePcs /\ pc' \in RulePcs /\ pc \notin CompilePcs /\ pc' \notin CompilePcs
      /\ pc' \notin PushedPcs /\ pc' # "compile"
  BY <1>1 DEF RulePcs, PushedPcs, CompilePcs, EarlyPcs
<1>3. /\ cur'.pattern_ids = cur.pattern_ids /\ cur'.pending = cur.pending
      /\ cur'.snapshot = cur.snapshot /\ cur'.rule = cur.rule
  <2>1. DOMAIN cur = CurFields
    BY DEF IInv, Shape
  <2> QED
    BY <2>1 DEF Passes, ConditionFromAst, CurFields
<1>4. next_pattern_id \in Nat /\ c \in 0..next_pattern_id /\ cur.snapshot.next_pattern_id = next_pattern_id
      /\ cur.snapshot.next_pattern_id <= c /\ cur.pending = c..(next_pattern_id - 1)
  BY <1>1, <1>2 DEF TablesInv, IdsInv, Progress, IInv, PatternInv
<1>5. c = next_pattern_id
  BY <1>4
<1>6. Listing(ps)' /\ RuleIds(ps)' /\ BoundsAre(ps, c)'
  BY <1>1 DEF TablesInv, IdsInv, Listing, RuleIds, BoundsAre, FilesizeAre, HeadersAre
<1>7. Progress(c)'
  BY <1>1, <1>2, <1>3, <1>4, <1>5 DEF Progress
<1>8. CurIds(ps, c)'
  BY <1>1, <1>2, <1>3 DEF TablesInv, IdsInv, CurIds
<1>9. Order(ps)'
  BY <1>1, <1>2, <1>3 DEF TablesInv, IdsInv, Order, KeptPatterns, AllUses, CurUses
<1>10. Left(m)' /\ SegmentsInv(ps, c, at, m)'
  BY <1>1, <1>2, <1>3 DEF TablesInv, Left, SegmentsInv, Subs, MadeSubs
<1>11. InstructionsInv(ps, c, ct, m)'
  BY <1>1, <1>2, <1>3 DEF TablesInv, InstructionsInv, Codes, MadeCode, AtomCodes
<1> QED
  BY <1>6, <1>7, <1>8, <1>9, <1>10, <1>11 DEF TablesInv, IdsInv

\* The rule goes to the table of rules.
LEMMA PushTables ==
  ASSUME IInv, NEW ps, NEW c, NEW at, NEW ct, NEW m, TablesInv(ps, c, at, ct, m), PushRule
  PROVE  TablesInv(ps, c, at, ct, m)'
<1>1. /\ pc = "assign" /\ pc' = "next"
      /\ rules' = Append(rules, [ident |-> cur.rule.ident, namespace |-> namespace.id,
                                 patterns |-> cur.pattern_ids])
      /\ UNCHANGED <<patterns, next_pattern_id, sub_patterns, atoms, re_code,
                     filesize_bounds, header_constraints, accepted>>
  BY DEF PushRule
<1>2. /\ pc \in RulePcs /\ pc' \in RulePcs /\ pc \notin CompilePcs /\ pc' \notin CompilePcs
      /\ pc' \notin EarlyPcs /\ pc' # "compile" /\ pc' # "assign" /\ pc \notin PushedPcs
  BY <1>1 DEF RulePcs, PushedPcs, CompilePcs, EarlyPcs
<1>3. /\ cur'.pattern_ids = cur.pattern_ids /\ cur'.pending = cur.pending
      /\ cur'.snapshot = cur.snapshot /\ cur'.rule = cur.rule /\ cur'.k = 0
  <2>1. DOMAIN cur = CurFields
    BY DEF IInv, Shape
  <2> QED
    BY <2>1 DEF PushRule, CurFields
<1>4. IsSeq(rules) /\ Len(rules) = Len(accepted)
  BY <1>2 DEF IInv, RuleInv
<1>5. \A i \in 1..Len(accepted) : rules'[i] = rules[i]
  BY <1>1, <1>4, AppendIs
<1>6. Listing(ps)' /\ BoundsAre(ps, c)'
  BY <1>1 DEF TablesInv, IdsInv, Listing, BoundsAre, FilesizeAre, HeadersAre
<1>12. RuleIds(ps)'
  BY <1>1, <1>5 DEF TablesInv, IdsInv, RuleIds
<1>7. Progress(c)'
  BY <1>1, <1>2, <1>3 DEF TablesInv, IdsInv, Progress
<1>8. CurIds(ps, c)'
  <2>1. \A j \in 1..0 : FALSE
    OBVIOUS
  <2> QED
    BY <1>1, <1>2, <1>3, <2>1 DEF TablesInv, IdsInv, CurIds
<1>9. Order(ps)'
  BY <1>1, <1>2, <1>3 DEF TablesInv, IdsInv, Order, KeptPatterns, AllUses, CurUses
<1>10. Left(m)' /\ SegmentsInv(ps, c, at, m)'
  BY <1>1, <1>2, <1>3 DEF TablesInv, Left, SegmentsInv, Subs, MadeSubs
<1>11. InstructionsInv(ps, c, ct, m)'
  BY <1>1, <1>2, <1>3 DEF TablesInv, InstructionsInv, Codes, MadeCode, AtomCodes
<1> QED
  BY <1>6, <1>7, <1>8, <1>9, <1>10, <1>11, <1>12 DEF TablesInv, IdsInv

\* The calls that add sub-patterns, and the code, of a pattern are sequences.
LEMMA AddsIs ==
  ASSUME NEW p \in AnyPattern
  PROVE  IsSeq(Adds(p)) /\ Len(Adds(p)) \in Nat /\ IsSeq(CodeAll(p)) /\ Len(CodeAll(p)) \in Nat
<1>1. IsSeq(Calls(p))
  BY CallsIs
<1>2. IsSeq(Adds(p)) /\ IsSeq(CallsOf(p, "c_regexp"))
  BY <1>1, SelectIs DEF Adds, CallsOf
<1>3. IsSeq(CodeAll(p))
  BY <1>2, CodeForIs DEF CodeAll
<1> QED
  BY <1>2, <1>3, SeqIs

\* The registered patterns are patterns.
LEMMA ListedAreAny ==
  ASSUME IInv, NEW ps, Listing(ps)
  PROVE  next_pattern_id \in Nat /\ \A i \in 1..next_pattern_id : ps[i] \in AnyPattern
BY DEF Listing, IInv, PatternInv

\* What is compiled of the first n patterns is in the first at[n] sub-patterns.
LEMMA CompiledKept ==
  ASSUME NEW ps, NEW c \in Nat, NEW n \in Nat, n <= c, NEW at, NEW subs, NEW subs2,
         \A i \in 1..n : ps[i] \in AnyPattern, Compiled(ps, c, at, subs), \A x \in 1..at[n] : subs2[x] = subs[x]
  PROVE  Compiled(ps, n, at, subs2)
<1>1. at[0] = 0 /\ \A i \in 0..c : at[i] \in Nat
  BY DEF Compiled, Places
<1>2. \A i \in 0..c : \A j \in i..c : at[i] <= at[j]
  BY DEF Compiled, Places
<1>3. 0..n \subseteq 0..c /\ 1..n \subseteq 1..c /\ \A i \in 0..c : i..n \subseteq i..c
  OBVIOUS
<1>4. Places(at, n)
  BY <1>1, <1>2, <1>3 DEF Places
<1>5. at[n] \in Nat /\ at[n] <= at[c] /\ at[c] \in Nat /\ 1..at[n] \subseteq 1..at[c]
  <2>1. n \in 0..c /\ c \in n..c /\ c \in 0..c
    OBVIOUS
  <2>2. at[n] \in Nat /\ at[n] <= at[c] /\ at[c] \in Nat
    BY <1>1, <1>2, <2>1
  <2> QED
    BY <2>2
<1>6. ASSUME NEW i \in 1..n
      PROVE  at[i] = at[i - 1] + Len(Adds(ps[i])) /\ Segment(subs2, at[i - 1], i - 1, Adds(ps[i]))
  <2>1. PICK A, o : A = Adds(ps[i]) /\ o = at[i - 1]
    OBVIOUS
  <2>2. at[i] = o + Len(A) /\ Segment(subs, o, i - 1, A)
    BY <1>3, <2>1 DEF Compiled
  <2>3. i \in 0..c /\ i - 1 \in 0..c /\ n \in i..c
    OBVIOUS
  <2>4. o \in Nat /\ at[i] \in Nat /\ at[i] <= at[n]
    BY <1>1, <1>2, <2>1, <2>3
  <2>5. ASSUME NEW j \in 1..Len(A) PROVE subs2[o + j] = subs[o + j]
    <3>1. PICK l : l = Len(A)
      OBVIOUS
    <3>2. o + j \in 1..at[n]
      <4>1. at[i] = o + l /\ j \in 1..l
        BY <2>2, <3>1
      <4>2. l \in Nat
        BY <2>1, <3>1, AddsIs
      <4> QED
        BY <1>5, <2>4, <4>1, <4>2
    <3> QED
      BY <3>2
  <2>6. Segment(subs2, o, i - 1, A)
    BY <2>2, <2>5 DEF Segment
  <2> QED
    BY <2>1, <2>2, <2>6
<1>7. ASSUME NEW x \in 1..at[n], NEW i \in 1..n PROVE subs2[x].pattern = i - 1 <=> at[i - 1] < x /\ x <= at[i]
  <2>1. x \in 1..at[c] /\ i \in 1..c
    BY <1>3, <1>5
  <2>2. subs[x].pattern = i - 1 <=> at[i - 1] < x /\ x <= at[i]
    BY <2>1 DEF Compiled
  <2> QED
    BY <2>2
<1>8. ASSUME NEW x \in 1..at[n] PROVE subs2[x].pattern \in 0..(n - 1)
  <2>1. x \in 1..at[c]
    BY <1>5
  <2>2. subs[x].pattern \in 0..(c - 1)
    BY <2>1 DEF Compiled
  <2>3. PICK i : i = subs[x].pattern + 1
    OBVIOUS
  <2>4. i \in 1..c /\ subs[x].pattern = i - 1
    BY <2>2, <2>3
  <2>5. at[i - 1] < x
    BY <2>1, <2>4 DEF Compiled
  <2>6. i - 1 >= n => at[n] <= at[i - 1]
    <3>1. i - 1 >= n => i - 1 \in n..c /\ n \in 0..c
      BY <2>4
    <3> QED
      BY <1>2, <3>1
  <2>7. at[i - 1] \in Nat
    <3>1. i - 1 \in 0..c
      BY <2>4
    <3> QED
      BY <1>1, <3>1
  <2>8. ~(i - 1 >= n)
    BY <1>5, <2>5, <2>6, <2>7
  <2> QED
    BY <2>2, <2>4, <2>8
<1> QED
  BY <1>4, <1>6, <1>7, <1>8 DEF Compiled

\* What is compiled of the first n patterns is in the first ct[n] instructions.
LEMMA CodedKept ==
  ASSUME NEW ps, NEW c \in Nat, NEW n \in Nat, n <= c, NEW ct, NEW code, NEW code2,
         \A i \in 1..n : ps[i] \in AnyPattern, Coded(ps, c, ct, code), \A x \in 1..ct[n] : code2[x] = code[x]
  PROVE  Coded(ps, n, ct, code2)
<1>1. ct[0] = 0 /\ \A i \in 0..c : ct[i] \in Nat
  BY DEF Coded, Places
<1>2. \A i \in 0..c : \A j \in i..c : ct[i] <= ct[j]
  BY DEF Coded, Places
<1>3. 0..n \subseteq 0..c /\ 1..n \subseteq 1..c /\ \A i \in 0..c : i..n \subseteq i..c
  OBVIOUS
<1>4. Places(ct, n)
  BY <1>1, <1>2, <1>3 DEF Places
<1>6. ASSUME NEW i \in 1..n
      PROVE  ct[i] = ct[i - 1] + Len(CodeAll(ps[i])) /\ CodeIn(code2, ct[i - 1], CodeAll(ps[i]))
  <2>1. PICK A, o : A = CodeAll(ps[i]) /\ o = ct[i - 1]
    OBVIOUS
  <2>2. ct[i] = o + Len(A) /\ CodeIn(code, o, A)
    BY <1>3, <2>1 DEF Coded
  <2>3. i \in 0..c /\ i - 1 \in 0..c /\ n \in i..c /\ n \in 0..c
    OBVIOUS
  <2>4. o \in Nat /\ ct[i] \in Nat /\ ct[i] <= ct[n] /\ ct[n] \in Nat
    BY <1>1, <1>2, <2>1, <2>3
  <2>5. ASSUME NEW j \in 1..Len(A) PROVE code2[o + j] = code[o + j]
    <3>1. PICK l : l = Len(A)
      OBVIOUS
    <3>2. o + j \in 1..ct[n]
      <4>1. ct[i] = o + l /\ j \in 1..l
        BY <2>2, <3>1
      <4>2. l \in Nat
        BY <2>1, <3>1, AddsIs
      <4> QED
        BY <2>4, <4>1, <4>2
    <3> QED
      BY <3>2
  <2>6. CodeIn(code2, o, A)
    BY <2>2, <2>5 DEF CodeIn
  <2> QED
    BY <2>1, <2>2, <2>6
<1> QED
  BY <1>4, <1>6 DEF Coded

\* A rule that fails goes back to its snapshot: the first n patterns, and what
\* they compiled to, are left and nothing else (restore_snapshot).
LEMMA RollbackTables ==
  ASSUME IInv, NEW ps, NEW c, NEW at, NEW ct, NEW m, TablesInv(ps, c, at, ct, m), Rollback,
         NEW n, n = cur.snapshot.next_pattern_id
  PROVE  TablesInv(ps, n, at, ct, m)'
<1>0. PICK s : n = cur.snapshot.next_pattern_id /\ s = cur.snapshot
  OBVIOUS
<1>1. /\ pc \in RulePcs /\ pc' = "items" /\ next_pattern_id' = n /\ UNCHANGED accepted
      /\ rules' = Truncate(rules, s.rules_len)
      /\ sub_patterns' = Truncate(sub_patterns, s.sub_patterns_len)
      /\ re_code' = Truncate(re_code, s.re_code_len)
      /\ atoms' = Truncate(atoms, s.atoms_len)
      /\ patterns' = Restrict(patterns, {p \in DOMAIN patterns : patterns[p] < n})
      /\ filesize_bounds' = Restrict(filesize_bounds, {i \in DOMAIN filesize_bounds : i < n})
      /\ header_constraints' = Restrict(header_constraints, {i \in DOMAIN header_constraints : i < n})
  BY <1>0 DEF Rollback, RestoreSnapshot, RestoreLists, RestoreMaps
<1>2. /\ pc' \notin RulePcs /\ pc' \notin PushedPcs /\ pc' \notin CompilePcs /\ pc' \notin EarlyPcs
      /\ pc' # "assign" /\ pc' # "compile"
  BY <1>1 DEF RulePcs, PushedPcs, CompilePcs, EarlyPcs
<1>3. /\ next_pattern_id \in Nat /\ n \in 0..next_pattern_id
      /\ IsSeq(rules) /\ s.rules_len = Len(accepted) /\ IsSeq(accepted) /\ Len(accepted) <= Len(rules)
      /\ \A p \in DOMAIN patterns : patterns[p] \in 0..(next_pattern_id - 1)
  <2>1. IsSeq(accepted) /\ IsSeq(rules) /\ s.rules_len = Len(accepted)
        /\ Len(rules) \in {Len(accepted), Len(accepted) + 1}
    BY <1>0, <1>1 DEF IInv, RuleInv
  <2>2. Len(accepted) \in Nat
    BY <2>1, SeqIs
  <2> QED
    BY <1>0, <1>1, <2>1, <2>2 DEF IInv, PatternInv
<1>4. n \in Nat /\ n <= next_pattern_id /\ c \in Nat /\ n <= c /\ c <= next_pattern_id
  <2>1. c \in 0..next_pattern_id /\ n <= c
    BY <1>0, <1>1 DEF TablesInv, IdsInv, Progress
  <2> QED
    BY <1>3, <2>1
<1>5. /\ IsSeq(sub_patterns) /\ IsSeq(atoms) /\ IsSeq(re_code)
      /\ s.sub_patterns_len \in 0..Len(sub_patterns) /\ s.atoms_len \in 0..Len(atoms)
      /\ s.re_code_len \in 0..Len(re_code)
      /\ Reach(n, s.sub_patterns_len, s.atoms_len, s.re_code_len,
               sub_patterns, atoms, anchored_sub_patterns)
  BY <1>0, <1>1 DEF IInv, SubInv
<1>6. Len(sub_patterns) \in Nat /\ Len(atoms) \in Nat /\ Len(re_code) \in Nat /\ Len(accepted) \in Nat
  BY <1>3, <1>5, SeqIs
<1>7. /\ s.sub_patterns_len \in Nat /\ s.sub_patterns_len <= Len(sub_patterns)
      /\ s.atoms_len \in Nat /\ s.atoms_len <= Len(atoms)
      /\ s.re_code_len \in Nat /\ s.re_code_len <= Len(re_code)
  BY <1>5, <1>6
<1>8. /\ \A i \in 1..Len(accepted) : rules'[i] = rules[i]
      /\ Len(sub_patterns') = s.sub_patterns_len
      /\ \A i \in 1..s.sub_patterns_len : sub_patterns'[i] = sub_patterns[i]
      /\ Len(atoms') = s.atoms_len /\ \A i \in 1..s.atoms_len : atoms'[i] = atoms[i]
      /\ Len(re_code') = s.re_code_len
      /\ \A i \in 1..s.re_code_len : re_code'[i] = re_code[i]
  <2>1. \A i \in 1..Len(accepted) : rules'[i] = rules[i]
    BY <1>1, <1>3, <1>6, TruncateIs
  <2>2. Len(sub_patterns') = s.sub_patterns_len
        /\ \A i \in 1..s.sub_patterns_len : sub_patterns'[i] = sub_patterns[i]
    BY <1>1, <1>5, <1>7, TruncateIs
  <2>3. Len(atoms') = s.atoms_len /\ \A i \in 1..s.atoms_len : atoms'[i] = atoms[i]
    BY <1>1, <1>5, <1>7, TruncateIs
  <2>4. Len(re_code') = s.re_code_len /\ \A i \in 1..s.re_code_len : re_code'[i] = re_code[i]
    BY <1>1, <1>5, <1>7, TruncateIs
  <2> QED
    BY <2>1, <2>2, <2>3, <2>4
<1>9. s.sub_patterns_len = at[n] /\ s.re_code_len = ct[n]
  BY <1>0, <1>1 DEF TablesInv, SegmentsInv, Subs, InstructionsInv, Codes
<1>10. \A i \in 1..n : ps[i] \in AnyPattern
  <2>1. \A i \in 1..next_pattern_id : ps[i] \in AnyPattern
    BY ListedAreAny DEF TablesInv, IdsInv
  <2>2. 1..n \subseteq 1..next_pattern_id
    BY <1>3, <1>4
  <2> QED
    BY <2>1, <2>2
<1>11. Listing(ps)'
  <2>1. /\ \A i \in 1..next_pattern_id : ps[i] \in DOMAIN patterns /\ patterns[ps[i]] = i - 1
        /\ \A p \in DOMAIN patterns : ps[patterns[p] + 1] = p
    BY DEF TablesInv, IdsInv, Listing
  <2>2. /\ patterns' = [p \in DOMAIN patterns' |-> patterns'[p]]
        /\ \A p : p \in DOMAIN patterns' <=> p \in DOMAIN patterns /\ patterns[p] < n
        /\ \A p \in DOMAIN patterns' : patterns'[p] = patterns[p]
    BY <1>1 DEF Restrict
  <2>3. \A i \in 1..n : i \in 1..next_pattern_id /\ i - 1 < n
    BY <1>3, <1>4
  <2>4. \A i \in 1..n : ps[i] \in DOMAIN patterns' /\ patterns'[ps[i]] = i - 1
    BY <2>1, <2>2, <2>3
  <2> QED
    BY <1>1, <2>1, <2>2, <2>4 DEF Listing
<1>12. Progress(n)'
  BY <1>1, <1>2, <1>4 DEF Progress
<1>13. CurIds(ps, n)' /\ Left(m)'
  BY <1>2 DEF CurIds, Left
<1>14. RuleIds(ps)'
  BY <1>1, <1>8 DEF TablesInv, IdsInv, RuleIds
<1>15. Order(ps)'
  <2>1. KeptPatterns' = n /\ KeptPatterns = n
    BY <1>0, <1>1, <1>2 DEF KeptPatterns
  <2> QED
    BY <1>1, <1>2, <2>1 DEF TablesInv, IdsInv, Order, AllUses
<1>16. BoundsAre(ps, n)'
  <2>1. \A i \in 0..(n - 1) : i \in 0..(next_pattern_id - 1) /\ i < n /\ i < c
    BY <1>3, <1>4
  <2>2. FilesizeAre(ps, n)'
    <3>1. /\ filesize_bounds' = [i \in DOMAIN filesize_bounds' |-> filesize_bounds'[i]]
          /\ \A i : i \in DOMAIN filesize_bounds' <=> i \in DOMAIN filesize_bounds /\ i < n
          /\ \A i \in DOMAIN filesize_bounds' : filesize_bounds'[i] = filesize_bounds[i]
      BY <1>1 DEF Restrict
    <3>2. \A i \in 0..(next_pattern_id - 1) :
            /\ i \in DOMAIN filesize_bounds <=> i < c /\ ps[i + 1].filesize_bounds # {}
            /\ i \in DOMAIN filesize_bounds => filesize_bounds[i] = ps[i + 1].filesize_bounds
      BY DEF TablesInv, IdsInv, BoundsAre, FilesizeAre
    <3>3. ASSUME NEW i \in 0..(n - 1)
          PROVE  /\ i \in DOMAIN filesize_bounds' <=> i < n /\ ps[i + 1].filesize_bounds # {}
                 /\ i \in DOMAIN filesize_bounds' => filesize_bounds'[i] = ps[i + 1].filesize_bounds
      BY <2>1, <3>1, <3>2
    <3> QED
      BY <1>1, <3>1, <3>3 DEF FilesizeAre
  <2>3. HeadersAre(ps, n)'
    <3>1. /\ header_constraints' = [i \in DOMAIN header_constraints' |-> header_constraints'[i]]
          /\ \A i : i \in DOMAIN header_constraints' <=> i \in DOMAIN header_constraints /\ i < n
          /\ \A i \in DOMAIN header_constraints' : header_constraints'[i] = header_constraints[i]
      BY <1>1 DEF Restrict
    <3>2. \A i \in 0..(next_pattern_id - 1) :
            /\ i \in DOMAIN header_constraints <=> i < c /\ ps[i + 1].header_constraints # {}
            /\ i \in DOMAIN header_constraints => header_constraints[i] = ps[i + 1].header_constraints
      BY DEF TablesInv, IdsInv, BoundsAre, HeadersAre
    <3>3. ASSUME NEW i \in 0..(n - 1)
          PROVE  /\ i \in DOMAIN header_constraints' <=> i < n /\ ps[i + 1].header_constraints # {}
                 /\ i \in DOMAIN header_constraints' => header_constraints'[i] = ps[i + 1].header_constraints
      BY <2>1, <3>1, <3>2
    <3> QED
      BY <1>1, <3>1, <3>3 DEF HeadersAre
  <2> QED
    BY <2>2, <2>3 DEF BoundsAre
<1>17. SegmentsInv(ps, n, at, m)'
  <2>1. Compiled(ps, c, at, sub_patterns)
    BY DEF TablesInv, SegmentsInv, Subs
  <2>2. \A x \in 1..at[n] : sub_patterns'[x] = sub_patterns[x]
    BY <1>8, <1>9
  <2>3. Compiled(ps, n, at, sub_patterns')
    BY ONLY <1>4, <1>10, <2>1, <2>2, CompiledKept
  <2> QED
    BY <1>2, <1>8, <1>9, <2>3 DEF SegmentsInv, Subs, MadeSubs
<1>18. InstructionsInv(ps, n, ct, m)'
  <2>1. Coded(ps, c, ct, re_code)
    BY DEF TablesInv, InstructionsInv, Codes
  <2>2. \A x \in 1..ct[n] : re_code'[x] = re_code[x]
    BY <1>8, <1>9
  <2>3. Coded(ps, n, ct, re_code')
    BY ONLY <1>4, <1>10, <2>1, <2>2, CodedKept
  <2>4. ASSUME NEW i \in 1..s.atoms_len PROVE AtomCode(ps, atoms'[i], sub_patterns', re_code')
    <3>1. i \in 1..Len(atoms)
      BY <1>7
    <3>2. PICK a : a = atoms[i]
      OBVIOUS
    <3>3. AtomCode(ps, a, sub_patterns, re_code)
      BY <3>1, <3>2 DEF TablesInv, InstructionsInv, AtomCodes
    <3>4. a.sub_pattern \in 0..(s.sub_patterns_len - 1) /\ a.code \in 0..s.re_code_len
      BY <1>5, <3>2 DEF Reach
    <3>5. a.sub_pattern + 1 \in 1..s.sub_patterns_len /\ (a.code # 0 => a.code \in 1..s.re_code_len)
      BY <1>7, <3>4
    <3>6. sub_patterns'[a.sub_pattern + 1] = sub_patterns[a.sub_pattern + 1]
          /\ (a.code # 0 => re_code'[a.code] = re_code[a.code])
      BY <1>8, <3>5
    <3>7. AtomCode(ps, a, sub_patterns', re_code')
      BY <3>3, <3>6 DEF AtomCode, PieceAt
    <3> QED
      BY <1>8, <3>2, <3>7
  <2> QED
    BY <1>2, <1>8, <1>9, <2>3, <2>4 DEF InstructionsInv, Codes, MadeCode, AtomCodes
<1> QED
  BY <1>11, <1>12, <1>13, <1>14, <1>15, <1>16, <1>17, <1>18 DEF TablesInv, IdsInv

\* ps2 lists the first n patterns as ps does.
Agree(ps2, ps, n) == \A i \in 1..n : ps2[i] = ps[i]

\* One more pattern of the rule has an id, a new one or that of an equal pattern.
LEMMA GivenMore ==
  ASSUME NEW ids, IsSeq(ids), NEW d, NEW first \in Nat, NEW n \in Nat, NEW ps, NEW ps2, Agree(ps2, ps, n),
         GivenIds(ps, ids, d, first, n), \A j \in 1..Len(ids) : ids[j] \in 0..(n - 1),
         NEW id, NEW n2, \/ n2 = n + 1 /\ id = n
                         \/ n2 = n /\ id \in 0..(n - 1),
         ps2[id + 1] = UseAt(d, Len(ids) + 1)
  PROVE  GivenIds(ps2, Append(ids, id), d, first, n2)
<1>1. PICK t, l : t = Append(ids, id) /\ l = Len(ids)
  OBVIOUS
<1>2. l \in Nat /\ Len(t) = l + 1 /\ t[l + 1] = id /\ \A i \in 1..l : t[i] = ids[i]
  BY <1>1, SeqIs, AppendIs
<1>3. \A j \in 1..l : ids[j] \in 0..(n - 1) /\ ids[j] + 1 \in 1..n
  BY <1>1
<1>4. /\ \A k \in 1..l : ps[ids[k] + 1] = UseAt(d, k)
      /\ \A k \in 1..l : \A i \in first..(ids[k] - 1) : \E j \in 1..(k - 1) : ids[j] = i
      /\ \A i \in first..(n - 1) : \E j \in 1..l : ids[j] = i
  BY <1>1 DEF GivenIds
<1>5. ps2[id + 1] = UseAt(d, l + 1)
  BY <1>1
<1>6. ASSUME NEW k \in 1..(l + 1) PROVE ps2[t[k] + 1] = UseAt(d, k)
  <2>1. CASE k = l + 1
    BY <1>2, <1>5, <2>1
  <2>2. CASE k # l + 1
    <3>1. k \in 1..l
      BY <1>2, <2>2
    <3> QED
      BY <1>2, <1>3, <1>4, <3>1 DEF Agree
  <2> QED
    BY <2>1, <2>2
<1>7. ASSUME NEW k \in 1..(l + 1), NEW i \in first..(t[k] - 1) PROVE \E j \in 1..(k - 1) : t[j] = i
  <2>1. CASE k = l + 1
    <3>1. i \in first..(n - 1)
      BY <1>2, <2>1
    <3>2. PICK j \in 1..l : ids[j] = i
      BY <1>4, <3>1
    <3> QED
      BY <1>2, <2>1, <3>2
  <2>2. CASE k # l + 1
    <3>1. k \in 1..l /\ t[k] = ids[k]
      BY <1>2, <2>2
    <3>2. PICK j \in 1..(k - 1) : ids[j] = i
      BY <1>4, <3>1
    <3>3. j \in 1..l
      BY <1>2, <3>1
    <3> QED
      BY <1>2, <3>2, <3>3
  <2> QED
    BY <2>1, <2>2
<1>8. ASSUME NEW i \in first..(n2 - 1) PROVE \E j \in 1..(l + 1) : t[j] = i
  <2>1. CASE i \in first..(n - 1)
    <3>1. PICK j \in 1..l : ids[j] = i
      BY <1>4, <2>1
    <3>2. j \in 1..(l + 1)
      BY <1>2
    <3> QED
      BY <1>2, <3>1, <3>2
  <2>2. CASE i \notin first..(n - 1)
    <3>1. i = n /\ id = n
      BY <2>2
    <3>2. l + 1 \in 1..(l + 1)
      BY <1>2
    <3> QED
      BY <1>2, <3>1, <3>2
  <2> QED
    BY <2>1, <2>2
<1>9. GivenIds(ps2, t, d, first, n2)
  BY <1>2, <1>6, <1>7, <1>8 DEF GivenIds
<1> QED
  BY <1>1, <1>9

LEMMA PrefixIs ==
  ASSUME NEW ps, NEW n \in Nat
  PROVE  IsSeq(Prefix(ps, n)) /\ Len(Prefix(ps, n)) = n /\ \A i \in 1..n : Prefix(ps, n)[i] = ps[i]
<1>1. PICK f : f = Prefix(ps, n)
  OBVIOUS
<1>2. f = [i \in 1..n |-> f[i]] /\ \A i \in 1..n : f[i] = ps[i]
  BY <1>1 DEF Prefix
<1> QED
  BY <1>1, <1>2, FunctionIs

LEMMA PrefixAgrees ==
  ASSUME NEW ps, NEW ps2, NEW n, Agree(ps2, ps, n)
  PROVE  Prefix(ps2, n) = Prefix(ps, n)
BY DEF Agree, Prefix

\* The patterns listed by ps, and one more.
LEMMA PrefixNext ==
  ASSUME NEW ps, NEW ps2, NEW n \in Nat, Agree(ps2, ps, n)
  PROVE  Prefix(ps2, n + 1) = Append(Prefix(ps, n), ps2[n + 1])
<1>1. PICK s, t, u : s = Prefix(ps, n) /\ t = Prefix(ps2, n + 1) /\ u = Append(s, ps2[n + 1])
  OBVIOUS
<1>2. IsSeq(s) /\ Len(s) = n /\ \A i \in 1..n : s[i] = ps[i]
  BY <1>1, PrefixIs
<1>3. IsSeq(t) /\ Len(t) = n + 1 /\ \A i \in 1..(n + 1) : t[i] = ps2[i]
  BY <1>1, PrefixIs
<1>4. IsSeq(u) /\ Len(u) = n + 1 /\ u[n + 1] = ps2[n + 1] /\ \A i \in 1..n : u[i] = s[i]
  BY <1>1, <1>2, AppendIs
<1>5. ASSUME NEW i \in 1..(n + 1) PROVE t[i] = u[i]
  <2>1. i = n + 1 \/ i \in 1..n
    OBVIOUS
  <2> QED
    BY <1>2, <1>3, <1>4, <2>1 DEF Agree
<1>6. t = u
  BY <1>3, <1>4, <1>5, SameSeq
<1> QED
  BY <1>1, <1>6

\* The uses s, of which ps lists the distinct ones, and one more, p.
LEMMA OrderMore ==
  ASSUME NEW s, IsSeq(s), NEW n \in Nat, NEW ps, NEW ps2, Agree(ps2, ps, n),
         Firsts(s) = Prefix(ps, n), NEW p, NEW n2,
         \/ n2 = n + 1 /\ ps2[n + 1] = p /\ \A i \in 1..n : ps[i] # p
         \/ n2 = n /\ \E i \in 1..n : ps[i] = p
  PROVE  Firsts(Append(s, p)) = Prefix(ps2, n2)
<1>1. Has(s, p) <=> \E i \in 1..n : ps[i] = p
  <2>1. PICK f : f = Firsts(s)
    OBVIOUS
  <2>2. Len(f) = n /\ \A i \in 1..n : f[i] = ps[i]
    BY <2>1, PrefixIs
  <2>3. Has(f, p) <=> Has(s, p)
    BY <2>1, FirstsHas
  <2> QED
    BY <2>2, <2>3 DEF Has
<1>2. Firsts(Append(s, p)) = IF Has(s, p) THEN Firsts(s) ELSE Append(Firsts(s), p)
  BY FirstsLast
<1>3. CASE n2 = n + 1 /\ ps2[n + 1] = p /\ \A i \in 1..n : ps[i] # p
  <2>1. Firsts(Append(s, p)) = Append(Prefix(ps, n), p)
    BY <1>1, <1>2, <1>3
  <2> QED
    BY <1>3, <2>1, PrefixNext
<1>4. CASE n2 = n /\ \E i \in 1..n : ps[i] = p
  <2>1. Firsts(Append(s, p)) = Prefix(ps, n)
    BY <1>1, <1>2, <1>4
  <2> QED
    BY <1>4, <2>1, PrefixAgrees
<1> QED
  BY <1>3, <1>4

LEMMA UsesForIs ==
  ASSUME NEW ids, IsSeq(ids), NEW d
  PROVE  /\ IsSeq(UsesFor(ids, d)) /\ Len(UsesFor(ids, d)) = Len(ids)
         /\ \A k \in 1..Len(ids) : UsesFor(ids, d)[k] = UseAt(d, k)
<1>1. Len(ids) \in Nat
  BY SeqIs
<1>2. PICK s : s = UsesFor(ids, d)
  OBVIOUS
<1>3. s = [k \in 1..Len(ids) |-> s[k]] /\ \A k \in 1..Len(ids) : s[k] = UseAt(d, k)
  BY <1>2 DEF UsesFor
<1> QED
  BY <1>1, <1>2, <1>3, FunctionIs

\* The uses of a rule, and one more.
LEMMA UsesForMore ==
  ASSUME NEW ids, IsSeq(ids), NEW d, NEW id
  PROVE  UsesFor(Append(ids, id), d) = Append(UsesFor(ids, d), UseAt(d, Len(ids) + 1))
<1>1. PICK s, t, u, ids2 : /\ s = UsesFor(ids, d) /\ ids2 = Append(ids, id) /\ t = UsesFor(ids2, d)
                           /\ u = Append(s, UseAt(d, Len(ids) + 1))
  OBVIOUS
<1>2. IsSeq(ids2) /\ Len(ids2) = Len(ids) + 1 /\ Len(ids) \in Nat
  BY <1>1, AppendIs, SeqIs
<1>3. IsSeq(s) /\ Len(s) = Len(ids) /\ \A k \in 1..Len(ids) : s[k] = UseAt(d, k)
  BY <1>1, UsesForIs
<1>4. IsSeq(t) /\ Len(t) = Len(ids2) /\ \A k \in 1..Len(ids2) : t[k] = UseAt(d, k)
  BY <1>1, <1>2, UsesForIs
<1>5. /\ IsSeq(u) /\ Len(u) = Len(s) + 1 /\ u[Len(s) + 1] = UseAt(d, Len(ids) + 1)
      /\ \A k \in 1..Len(s) : u[k] = s[k]
  BY <1>1, <1>3, AppendIs
<1>6. ASSUME NEW k \in 1..Len(t) PROVE t[k] = u[k]
  <2>1. k \in 1..Len(ids2) /\ (k = Len(ids) + 1 \/ k \in 1..Len(ids))
    BY <1>2, <1>4
  <2> QED
    BY <1>3, <1>4, <1>5, <2>1
<1>7. Len(t) = Len(u)
  BY <1>2, <1>3, <1>4, <1>5
<1>8. t = u
  BY <1>4, <1>5, <1>6, <1>7, SameSeq
<1> QED
  BY <1>1, <1>8

\* Another list of the same patterns.
LEMMA CompiledAgrees ==
  ASSUME NEW ps, NEW ps2, NEW c, Agree(ps2, ps, c), NEW at, NEW tab
  PROVE  (Compiled(ps, c, at, tab) => Compiled(ps2, c, at, tab)) /\ (Coded(ps, c, at, tab) => Coded(ps2, c, at, tab))
BY DEF Compiled, Coded, Agree

\* A pattern of the rule has its id assigned: ps2 lists it too if it is new.
LEMMA AssignsTables ==
  ASSUME IInv, NEW ps, NEW c, NEW at, NEW ct, NEW m, TablesInv(ps, c, at, ct, m), Assigns
  PROVE  \E ps2 : TablesInv(ps2, c, at, ct, m)'
<1>1. /\ pc = "assign" /\ pc' = "assign"
      /\ UNCHANGED <<rules, sub_patterns, atoms, re_code, filesize_bounds, header_constraints, accepted>>
  BY DEF Assigns
<1>2. /\ pc \in RulePcs /\ pc' \in RulePcs /\ pc \notin CompilePcs /\ pc' \notin CompilePcs
      /\ pc' \notin EarlyPcs /\ pc' \notin PushedPcs /\ pc' # "compile" /\ pc \notin PushedPcs
  BY <1>1 DEF RulePcs, PushedPcs, CompilePcs, EarlyPcs
<1>3. PICK d, k, ids, n, N : d = cur.rule /\ k = cur.k /\ ids = cur.pattern_ids /\ n = next_pattern_id
                             /\ N = cur.snapshot.next_pattern_id
  OBVIOUS
<1>4. PICK p, id, new : /\ p = UseAt(d, k) /\ (new <=> p \notin DOMAIN patterns)
                        /\ new \in BOOLEAN /\ id = IF new THEN n ELSE patterns[p]
  OBVIOUS
<1>5. /\ patterns' = IF new THEN Put(patterns, p, id) ELSE patterns
      /\ next_pattern_id' = IF new THEN n + 1 ELSE n
      /\ cur' = [cur EXCEPT !.k = @ + 1, !.pattern_ids = Append(@, id),
                            !.pending = IF new THEN @ \cup {id} ELSE @]
  BY <1>3, <1>4 DEF Assigns, UseAt
<1>6. /\ cur'.pattern_ids = Append(ids, id) /\ cur'.rule = d /\ cur'.snapshot = cur.snapshot
      /\ cur'.pending = IF new THEN cur.pending \cup {id} ELSE cur.pending
  <2>1. DOMAIN cur = CurFields
    BY DEF IInv, Shape
  <2> QED
    BY <1>3, <1>5, <2>1 DEF CurFields
<1>7. /\ n \in Nat /\ N \in 0..n /\ c = N /\ cur.pending = c..(n - 1)
      /\ \A q \in DOMAIN patterns : patterns[q] \in 0..(n - 1)
  BY <1>1, <1>2, <1>3 DEF IInv, PatternInv, TablesInv, IdsInv, Progress
<1>8. N \in Nat /\ N <= n /\ c \in Nat
  BY <1>7
<1>9. /\ IsSeq(ids) /\ Len(ids) = k - 1 /\ k \in Nat /\ Len(ids) + 1 = k
      /\ \A j \in 1..Len(ids) : ids[j] \in 0..(n - 1)
  <2>1. d \in Decls
    BY <1>2, <1>3 DEF IInv, Shape
  <2>2. Len(d.patterns) \in Nat
    BY <2>1, CompilerAssumption
  <2>3. k \in 1..(Len(d.patterns) + 1) /\ Uses(fast_scan_patterns, ids, d, k - 1, n)
    BY <1>1, <1>3 DEF IInv, RuleInv
  <2>4. k \in Nat /\ IsSeq(ids) /\ Len(ids) = k - 1
    BY <2>2, <2>3 DEF Uses
  <2> QED
    BY <2>3, <2>4 DEF Uses
<1>10. /\ \A i \in 1..n : ps[i] \in DOMAIN patterns /\ patterns[ps[i]] = i - 1
       /\ \A q \in DOMAIN patterns : ps[patterns[q] + 1] = q
       /\ patterns = [q \in DOMAIN patterns |-> patterns[q]]
  BY <1>3 DEF TablesInv, IdsInv, Listing
<1>11. PICK n2 : n2 = next_pattern_id'
  OBVIOUS
<1>12. \/ new /\ n2 = n + 1 /\ id = n
       \/ ~new /\ n2 = n /\ id = patterns[p] /\ id \in 0..(n - 1) /\ p \in DOMAIN patterns
  BY <1>4, <1>5, <1>7, <1>11
<1>13. n2 \in Nat /\ n <= n2 /\ id \in Nat /\ id + 1 \in 1..n2
  BY <1>7, <1>12
<1>14. PICK ps2 : ps2 = [i \in Nat |-> IF i = id + 1 THEN p ELSE ps[i]]
  OBVIOUS
<1>15. ps2[id + 1] = p /\ Agree(ps2, ps, n)
  <2>1. ps2[id + 1] = p
    BY <1>13, <1>14
  <2>2. ASSUME NEW i \in 1..n PROVE ps2[i] = ps[i]
    <3>1. CASE i = id + 1
      <4>1. ~new /\ id = patterns[p] /\ p \in DOMAIN patterns
        BY <1>7, <1>12, <3>1
      <4> QED
        BY <1>10, <2>1, <3>1, <4>1
    <3>2. CASE i # id + 1
      <4>1. i \in Nat
        BY <1>7
      <4> QED
        BY <1>14, <3>2, <4>1
    <3> QED
      BY <3>1, <3>2
  <2> QED
    BY <2>1, <2>2 DEF Agree
<1>16. Agree(ps2, ps, c)
  <2>1. 1..c \subseteq 1..n
    BY <1>7, <1>8
  <2> QED
    BY <1>15, <2>1 DEF Agree
<1>17. Listing(ps2)'
  <2>1. CASE new
    <3>1. patterns' = [q \in DOMAIN patterns \cup {p} |-> IF q = p THEN id ELSE patterns[q]]
      BY <1>5, <2>1 DEF Put
    <3>2. /\ DOMAIN patterns' = DOMAIN patterns \cup {p} /\ patterns'[p] = n
          /\ \A q \in DOMAIN patterns : patterns'[q] = patterns[q]
          /\ patterns' = [q \in DOMAIN patterns' |-> patterns'[q]]
      BY <1>4, <1>12, <2>1, <3>1
    <3>3. ASSUME NEW i \in 1..n2 PROVE ps2[i] \in DOMAIN patterns' /\ patterns'[ps2[i]] = i - 1
      <4>1. i \in 1..n \/ i = n + 1
        BY <1>7, <1>12, <2>1
      <4>2. CASE i \in 1..n
        BY <1>10, <1>15, <3>2, <4>2 DEF Agree
      <4>3. CASE i = n + 1
        <5>1. ps2[i] = p /\ i - 1 = n
          BY <1>7, <1>12, <1>15, <2>1, <4>3
        <5> QED
          BY <3>2, <5>1
      <4> QED
        BY <4>1, <4>2, <4>3
    <3>4. ASSUME NEW q \in DOMAIN patterns' PROVE ps2[patterns'[q] + 1] = q
      <4>1. CASE q = p
        BY <1>12, <1>15, <2>1, <3>2, <4>1
      <4>2. CASE q # p
        <5>1. q \in DOMAIN patterns
          BY <3>2, <4>2
        <5>2. patterns[q] + 1 \in 1..n
          BY <1>7, <5>1
        <5> QED
          BY <1>10, <1>15, <3>2, <5>1, <5>2 DEF Agree
      <4> QED
        BY <4>1, <4>2
    <3> QED
      BY <1>11, <3>2, <3>3, <3>4 DEF Listing
  <2>2. CASE ~new
    <3>1. patterns' = patterns /\ n2 = n
      BY <1>5, <1>12, <2>2
    <3>2. \A q \in DOMAIN patterns : patterns[q] + 1 \in 1..n
      BY <1>7
    <3> QED
      BY <1>10, <1>11, <1>15, <3>1, <3>2 DEF Listing, Agree
  <2> QED
    BY <2>1, <2>2
<1>18. Progress(c)'
  <2>1. cur'.pending = c..(n2 - 1)
    <3>1. CASE new
      <4>1. (c..(n - 1)) \cup {n} = c..n
        BY <1>7, <1>8
      <4>2. n2 - 1 = n
        BY <1>7, <1>12, <3>1
      <4> QED
        BY <1>6, <1>7, <1>12, <3>1, <4>1, <4>2
    <3>2. CASE ~new
      BY <1>6, <1>7, <1>12, <3>2
    <3> QED
      BY <3>1, <3>2
  <2>2. c \in 0..n2
    BY <1>7, <1>8, <1>13
  <2> QED
    BY <1>1, <1>2, <1>3, <1>6, <1>7, <1>8, <1>11, <2>1, <2>2 DEF Progress
<1>19. CurIds(ps2, c)'
  <2>1. GivenIds(ps, ids, d, N, n)
    BY <1>2, <1>3 DEF TablesInv, IdsInv, CurIds
  <2>2. ps2[id + 1] = UseAt(d, Len(ids) + 1)
    BY <1>4, <1>9, <1>15
  <2>3. \/ n2 = n + 1 /\ id = n
        \/ n2 = n /\ id \in 0..(n - 1)
    BY <1>12
  <2>4. GivenIds(ps2, Append(ids, id), d, N, n2)
    BY ONLY <1>7, <1>8, <1>9, <1>15, <2>1, <2>2, <2>3, GivenMore
  <2> QED
    BY <1>2, <1>3, <1>6, <1>11, <2>4 DEF CurIds
<1>20. RuleIds(ps2)'
  <2>1. ASSUME NEW i \in 1..Len(accepted) PROVE EntryIs(ps2, rules[i], accepted[i])
    <3>1. EntryIs(ps, rules[i], accepted[i])
      BY DEF TablesInv, IdsInv, RuleIds
    <3>2. RuleIs(fast_scan_patterns, rules[i], accepted[i], N)
      BY <1>2, <1>3 DEF IInv, RuleInv, KeptPatterns
    <3>3. \A j \in 1..Len(accepted[i].rule.patterns) : rules[i].patterns[j] \in 0..(N - 1)
      BY <3>2 DEF RuleIs, Uses
    <3>4. \A j \in 1..Len(accepted[i].rule.patterns) : rules[i].patterns[j] + 1 \in 1..n
      BY <1>7, <1>8, <3>3, SMTT(30)
    <3> QED
      BY <1>15, <3>1, <3>4 DEF EntryIs, Agree
  <2> QED
    BY <1>1, <2>1 DEF RuleIds
<1>21. Order(ps2)'
  <2>1. AllUses' = AllUses /\ KeptPatterns' = N /\ KeptPatterns = N
    BY <1>1, <1>2, <1>3, <1>6 DEF AllUses, KeptPatterns
  <2>2. Firsts(AllUses) = Prefix(ps, N)
    BY <2>1 DEF TablesInv, IdsInv, Order
  <2>3. Prefix(ps2, N) = Prefix(ps, N)
    BY <1>7, <1>16, PrefixAgrees
  <2>4. PICK u, v : u = AllUses /\ v = UsesFor(ids, d)
    OBVIOUS
  <2>5. IsSeq(u) /\ IsSeq(v)
    BY <1>9, <2>4, AllUsesIs, UsesForIs
  <2>6. Firsts(u \o v) = Prefix(ps, n)
    BY <1>2, <1>3, <2>4 DEF TablesInv, IdsInv, Order, CurUses
  <2>7. UsesFor(Append(ids, id), d) = Append(v, p)
    BY <1>4, <1>9, <2>4, UsesForMore
  <2>8. CurUses' = Append(v, p)
    BY <1>6, <2>7 DEF CurUses
  <2>9. PICK w : w = u \o v
    OBVIOUS
  <2>10. IsSeq(w)
    BY ONLY <2>5, <2>9, ConcatIs
  <2>11. u \o Append(v, p) = Append(w, p)
    BY ONLY <2>5, <2>9, ConcatAppend
  <2>12. \/ n2 = n + 1 /\ ps2[n + 1] = p /\ \A i \in 1..n : ps[i] # p
         \/ n2 = n /\ \E i \in 1..n : ps[i] = p
    <3>1. CASE new
      BY <1>4, <1>10, <1>12, <1>15, <3>1
    <3>2. CASE ~new
      <4>1. p \in DOMAIN patterns /\ patterns[p] + 1 \in 1..n
        BY <1>7, <1>12, <3>2
      <4> QED
        BY <1>10, <1>12, <3>2, <4>1
    <3> QED
      BY <3>1, <3>2
  <2>13. Firsts(w) = Prefix(ps, n)
    BY <2>6, <2>9
  <2>14. Firsts(Append(w, p)) = Prefix(ps2, n2)
    BY ONLY <1>7, <1>15, <2>10, <2>12, <2>13, OrderMore
  <2> QED
    BY <1>11, <2>1, <2>2, <2>3, <2>4, <2>8, <2>11, <2>14 DEF Order
<1>22. BoundsAre(ps2, c)'
  <2>1. DOMAIN filesize_bounds \subseteq 0..(n - 1) /\ DOMAIN header_constraints \subseteq 0..(n - 1)
    BY <1>3 DEF IInv, BoundInv
  <2>2. ASSUME NEW i \in 0..(n2 - 1) PROVE (i \in 0..(n - 1) /\ i + 1 \in 1..n) \/ (~(i < c) /\ i \notin 0..(n - 1))
    <3>1. n2 = n \/ n2 = n + 1
      BY <1>12
    <3>2. n \in Nat /\ c \in Nat /\ c <= n
      BY <1>7, <1>8
    <3> QED
      BY <3>1, <3>2
  <2>3. FilesizeAre(ps2, c)'
    <3>1. \A i \in 0..(n - 1) :
            /\ i \in DOMAIN filesize_bounds <=> i < c /\ ps[i + 1].filesize_bounds # {}
            /\ i \in DOMAIN filesize_bounds => filesize_bounds[i] = ps[i + 1].filesize_bounds
      BY <1>3 DEF TablesInv, IdsInv, BoundsAre, FilesizeAre
    <3>2. ASSUME NEW i \in 0..(n2 - 1)
          PROVE  /\ i \in DOMAIN filesize_bounds <=> i < c /\ ps2[i + 1].filesize_bounds # {}
                 /\ i \in DOMAIN filesize_bounds => filesize_bounds[i] = ps2[i + 1].filesize_bounds
      BY <1>15, <2>1, <2>2, <3>1 DEF Agree
    <3> QED
      BY <1>1, <1>11, <3>2 DEF TablesInv, IdsInv, BoundsAre, FilesizeAre
  <2>4. HeadersAre(ps2, c)'
    <3>1. \A i \in 0..(n - 1) :
            /\ i \in DOMAIN header_constraints <=> i < c /\ ps[i + 1].header_constraints # {}
            /\ i \in DOMAIN header_constraints => header_constraints[i] = ps[i + 1].header_constraints
      BY <1>3 DEF TablesInv, IdsInv, BoundsAre, HeadersAre
    <3>2. ASSUME NEW i \in 0..(n2 - 1)
          PROVE  /\ i \in DOMAIN header_constraints <=> i < c /\ ps2[i + 1].header_constraints # {}
                 /\ i \in DOMAIN header_constraints => header_constraints[i] = ps2[i + 1].header_constraints
      BY <1>15, <2>1, <2>2, <3>1 DEF Agree
    <3> QED
      BY <1>1, <1>11, <3>2 DEF TablesInv, IdsInv, BoundsAre, HeadersAre
  <2> QED
    BY <2>3, <2>4 DEF BoundsAre
<1>23. Left(m)' /\ SegmentsInv(ps2, c, at, m)'
  <2>1. Compiled(ps, c, at, sub_patterns) => Compiled(ps2, c, at, sub_patterns)
    BY <1>16, CompiledAgrees
  <2> QED
    BY <1>1, <1>2, <1>6, <2>1 DEF Left, TablesInv, SegmentsInv, Subs, MadeSubs
<1>24. InstructionsInv(ps2, c, ct, m)'
  <2>1. Coded(ps, c, ct, re_code) => Coded(ps2, c, ct, re_code)
    BY <1>16, CompiledAgrees
  <2>2. Codes(ps2, c, ct)' /\ MadeCode(c, ct, m)'
    BY <1>1, <1>2, <1>6, <2>1 DEF TablesInv, InstructionsInv, Codes, MadeCode
  <2>3. ASSUME NEW i \in 1..Len(atoms) PROVE AtomCode(ps2, atoms[i], sub_patterns, re_code)
    <3>1. AtomCode(ps, atoms[i], sub_patterns, re_code)
      BY DEF TablesInv, InstructionsInv, AtomCodes
    <3>2. /\ IsSeq(sub_patterns) /\ Reach(n, Len(sub_patterns), Len(atoms), Len(re_code),
                                          sub_patterns, atoms, anchored_sub_patterns)
      BY <1>3 DEF IInv, SubInv
    <3>3. Len(sub_patterns) \in Nat
      BY <3>2, SeqIs
    <3>4. atoms[i].sub_pattern \in 0..(Len(sub_patterns) - 1)
      BY <3>2 DEF Reach
    <3>5. atoms[i].sub_pattern + 1 \in 1..Len(sub_patterns)
      BY <3>3, <3>4
    <3>6. sub_patterns[atoms[i].sub_pattern + 1].pattern \in 0..(n - 1)
      BY <3>2, <3>5 DEF Reach
    <3>7. sub_patterns[atoms[i].sub_pattern + 1].pattern + 1 \in 1..n
      BY <1>7, <3>6
    <3> QED
      BY <1>15, <3>1, <3>7 DEF AtomCode, Agree
  <2> QED
    BY <1>1, <1>2, <2>2, <2>3 DEF InstructionsInv, AtomCodes
<1>25. TablesInv(ps2, c, at, ct, m)'
  BY <1>17, <1>18, <1>19, <1>20, <1>21, <1>22, <1>23, <1>24 DEF TablesInv, IdsInv
<1> QED
  BY <1>25

-----------------------------------------------------------------------------
(* The steps that compile the patterns of a rule                           *)

\* What is known of the rule whose patterns are being compiled.
LEMMA PushedFacts ==
  ASSUME IInv, NEW ps, NEW c, NEW at, NEW ct, NEW m, TablesInv(ps, c, at, ct, m), pc \in PushedPcs
  PROVE  /\ pc \in RulePcs /\ DOMAIN cur = CurFields /\ cur.rule \in Decls
         /\ Len(cur.rule.patterns) \in Nat /\ cur.k \in 0..Len(cur.rule.patterns)
         /\ \A k \in 1..Len(cur.rule.patterns) : cur.rule.patterns[k].pattern \in AnyPattern
         /\ IsSeq(cur.pattern_ids) /\ Len(cur.pattern_ids) = Len(cur.rule.patterns)
         /\ \A k \in 1..Len(cur.rule.patterns) : cur.pattern_ids[k] \in 0..(next_pattern_id - 1)
         /\ GivenIds(ps, cur.pattern_ids, cur.rule, cur.snapshot.next_pattern_id, next_pattern_id)
         /\ next_pattern_id \in Nat /\ c \in Nat /\ c <= next_pattern_id
         /\ cur.snapshot.next_pattern_id \in Nat /\ cur.snapshot.next_pattern_id <= c
         /\ cur.pending = c..(next_pattern_id - 1)
<1>1. pc \in RulePcs
  BY DEF PushedPcs, RulePcs
<1>2. DOMAIN cur = CurFields /\ cur.rule \in Decls
  BY <1>1 DEF IInv, Shape
<1>3. /\ Len(cur.rule.patterns) \in Nat /\ DOMAIN cur.rule.patterns = 1..Len(cur.rule.patterns)
      /\ \A k \in DOMAIN cur.rule.patterns : cur.rule.patterns[k].pattern \in AnyPattern
  BY <1>2, CompilerAssumption
<1>4. /\ cur.k \in 0..Len(cur.rule.patterns)
      /\ IsSeq(cur.pattern_ids) /\ Len(cur.pattern_ids) = Len(cur.rule.patterns)
      /\ \A k \in 1..Len(cur.rule.patterns) : cur.pattern_ids[k] \in 0..(next_pattern_id - 1)
  BY DEF IInv, RuleInv, Uses
<1>5. GivenIds(ps, cur.pattern_ids, cur.rule, cur.snapshot.next_pattern_id, next_pattern_id)
  BY <1>1 DEF TablesInv, IdsInv, CurIds
<1>6. /\ c \in 0..next_pattern_id /\ cur.snapshot.next_pattern_id <= c
      /\ cur.pending = c..(next_pattern_id - 1)
  BY <1>1 DEF TablesInv, IdsInv, Progress
<1>7. next_pattern_id \in Nat /\ cur.snapshot.next_pattern_id \in 0..next_pattern_id
  BY <1>1 DEF IInv, PatternInv
<1>8. c \in Nat /\ c <= next_pattern_id /\ cur.snapshot.next_pattern_id \in Nat
  BY <1>6, <1>7
<1> QED
  BY <1>1, <1>2, <1>3, <1>4, <1>5, <1>6, <1>7, <1>8

\* The next pattern of the rule: if it is pending, it is the one with id c.
LEMMA NextPatternTables ==
  ASSUME IInv, NEW ps, NEW c, NEW at, NEW ct, NEW m, TablesInv(ps, c, at, ct, m), NextPattern
  PROVE  TablesInv(ps, c, at, ct, 0)'
<1>1. /\ pc = "next" /\ cur.k < Len(cur.rule.patterns)
      /\ UNCHANGED <<rules, patterns, next_pattern_id, sub_patterns, atoms, re_code,
                     filesize_bounds, header_constraints, accepted>>
  BY DEF NextPattern, tables
<1>2. PICK k, ids, d : k = cur.k + 1 /\ ids = cur.pattern_ids /\ d = cur.rule
  OBVIOUS
<1>3. pc \in PushedPcs /\ pc \notin CompilePcs
  BY <1>1 DEF PushedPcs, CompilePcs
<1>4. /\ pc \in RulePcs /\ DOMAIN cur = CurFields /\ Len(d.patterns) \in Nat
      /\ cur.k \in 0..Len(d.patterns) /\ Len(ids) = Len(d.patterns)
      /\ \A j \in 1..Len(d.patterns) : d.patterns[j].pattern \in AnyPattern
      /\ \A j \in 1..Len(d.patterns) : ids[j] \in 0..(next_pattern_id - 1)
      /\ GivenIds(ps, ids, d, cur.snapshot.next_pattern_id, next_pattern_id)
      /\ next_pattern_id \in Nat /\ c \in Nat /\ c <= next_pattern_id
      /\ cur.snapshot.next_pattern_id \in Nat /\ cur.snapshot.next_pattern_id <= c
      /\ cur.pending = c..(next_pattern_id - 1)
  BY <1>2, <1>3, PushedFacts
<1>5. k \in 1..Len(d.patterns) /\ k - 1 = cur.k /\ k # 0
  BY <1>1, <1>2, <1>4
<1>6. /\ cur' = [cur EXCEPT !.k = k, !.prev = <<0, 0>>, !.code = 0,
                            !.calls = IF ids[k] \in cur.pending THEN Calls(d.patterns[k].pattern) ELSE <<>>]
      /\ pc' = IF ids[k] \in cur.pending THEN "compile" ELSE "next"
  BY <1>2 DEF NextPattern
<1>7. /\ cur'.k = k /\ cur'.prev = <<0, 0>> /\ cur'.code = 0 /\ cur'.rule = d /\ cur'.pattern_ids = ids
      /\ cur'.snapshot = cur.snapshot /\ cur'.pending = cur.pending
      /\ cur'.calls = IF ids[k] \in cur.pending THEN Calls(d.patterns[k].pattern) ELSE <<>>
  BY <1>2, <1>4, <1>6 DEF CurFields
<1>8. pc' \in RulePcs /\ pc' \notin EarlyPcs /\ pc' # "assign"
      /\ (pc' \in CompilePcs <=> ids[k] \in cur.pending)
  BY <1>6 DEF RulePcs, EarlyPcs, CompilePcs
<1>9. Listing(ps)' /\ BoundsAre(ps, c)' /\ RuleIds(ps)'
  BY <1>1 DEF TablesInv, IdsInv, Listing, BoundsAre, FilesizeAre, HeadersAre, RuleIds
<1>10. Progress(c)'
  BY <1>1, <1>4, <1>7, <1>8 DEF TablesInv, IdsInv, Progress
<1>11. \A j \in 1..(k - 1) : ids[j] \notin cur.pending
  BY <1>1, <1>2, <1>3, <1>5 DEF TablesInv, IdsInv, CurIds
<1>12. ASSUME ids[k] \in cur.pending PROVE ids[k] = c /\ c < next_pattern_id
  <2>1. ids[k] \in c..(next_pattern_id - 1)
    BY <1>4, <1>12
  <2>2. ~(c < ids[k])
    <3> SUFFICES ASSUME c < ids[k] PROVE FALSE
      OBVIOUS
    <3>1. c \in cur.snapshot.next_pattern_id..(ids[k] - 1)
      BY <1>4, <2>1
    <3>2. k \in 1..Len(ids)
      BY <1>4, <1>5
    <3>3. PICK j \in 1..(k - 1) : ids[j] = c
      BY <1>4, <3>1, <3>2 DEF GivenIds
    <3>4. c \in cur.pending
      BY <1>4, <2>1
    <3> QED
      BY <1>11, <3>3, <3>4
  <2> QED
    BY <1>4, <2>1, <2>2
<1>13. CurIds(ps, c)'
  <2>1. ASSUME NEW j \in 1..k, ids[j] \in cur.pending PROVE pc' # "next" /\ j = k
    <3>1. j \in 1..(k - 1) \/ j = k
      BY <1>4, <1>5
    <3>2. j = k
      BY <1>11, <2>1, <3>1
    <3> QED
      BY <1>6, <2>1, <3>2
  <2> QED
    BY <1>1, <1>4, <1>5, <1>7, <1>8, <1>12, <2>1 DEF CurIds
<1>14. Order(ps)'
  BY <1>1, <1>2, <1>4, <1>7, <1>8 DEF TablesInv, IdsInv, Order, KeptPatterns, AllUses, CurUses
<1>15. CurCalls' = Calls(d.patterns[k].pattern) /\ IsSeq(CurCalls') /\ Len(CurCalls') \in Nat
  <2>1. CurCalls' = Calls(d.patterns[k].pattern)
    BY <1>7 DEF CurCalls
  <2> QED
    BY <1>4, <1>5, <2>1, CallsIs
<1>16. Left(0)'
  <2>1. ASSUME ids[k] \in cur.pending
        PROVE  /\ 0 \in 0..Len(CurCalls') /\ Len(cur'.calls) = Len(CurCalls') - 0
               /\ \A i \in 1..Len(cur'.calls) : cur'.calls[i] = CurCalls'[0 + i]
    <3>1. cur'.calls = CurCalls'
      BY <1>7, <1>15, <2>1
    <3>2. \A i \in 1..Len(cur'.calls) : 0 + i = i
      BY <1>15, <3>1
    <3> QED
      BY <1>15, <3>1, <3>2
  <2> QED
    BY <1>8, <2>1 DEF Left
<1>17. \A kind : Made(0, kind)' = <<>>
  <2>1. Truncate(CurCalls', 0) = <<>>
    BY <1>15, TruncateAll
  <2> QED
    BY <2>1, SelectEmpty DEF Made
<1>18. /\ Len(sub_patterns) = at[c] /\ at[c] \in Nat /\ Len(re_code) = ct[c] /\ ct[c] \in Nat
  <2>1. Places(at, c) /\ Places(ct, c) /\ c \in 0..c
    BY <1>4 DEF TablesInv, SegmentsInv, Subs, Compiled, InstructionsInv, Codes, Coded
  <2> QED
    BY <1>3, <2>1 DEF TablesInv, SegmentsInv, Subs, InstructionsInv, Codes, Places
<1>19. SegmentsInv(ps, c, at, 0)'
  <2>1. Subs(ps, c, at)'
    BY <1>1, <1>4, <1>7, <1>18 DEF TablesInv, SegmentsInv, Subs
  <2>2. Len(<<>>) = 0 /\ \A i \in 1..0 : FALSE
    BY EmptyIs
  <2>3. Prev(<<>>, at[c], <<0, 0>>)
    <3>1. <<0, 0>> \in [1..2 -> Nat]
      OBVIOUS
    <3> QED
      BY <2>2, <3>1 DEF Prev
  <2>4. Segment(sub_patterns', at[c], c, <<>>)
    BY <2>2 DEF Segment
  <2>5. Made(0, Add)' = <<>>
    BY <1>17
  <2>6. MadeSubs(c, at, 0)'
    BY <1>1, <1>7, <1>18, <2>2, <2>3, <2>4, <2>5 DEF MadeSubs
  <2> QED
    BY <2>1, <2>6 DEF SegmentsInv
<1>20. InstructionsInv(ps, c, ct, 0)'
  <2>1. Codes(ps, c, ct)'
    BY <1>1, <1>4, <1>7, <1>18 DEF TablesInv, InstructionsInv, Codes
  <2>2. Len(<<>>) = 0 /\ \A i \in 1..0 : FALSE
    BY EmptyIs
  <2>3. Made(0, "c_regexp")' = <<>> /\ CodeFor(<<>>) = <<>>
    BY <1>17, CodeForEmpty
  <2>4. CodeIn(re_code', ct[c], <<>>)
    BY <2>2 DEF CodeIn
  <2>5. MadeCode(c, ct, 0)'
    BY <1>1, <1>18, <2>2, <2>3, <2>4 DEF MadeCode
  <2>6. AtomCodes(ps, c)'
    BY <1>1, <1>7 DEF TablesInv, InstructionsInv, AtomCodes
  <2> QED
    BY <2>1, <2>5, <2>6 DEF InstructionsInv
<1> QED
  BY <1>9, <1>10, <1>13, <1>14, <1>16, <1>19, <1>20 DEF TablesInv, IdsInv

LEMMA TailIs ==
  ASSUME NEW s, IsSeq(s), s # <<>>
  PROVE  /\ Head(s) = s[1] /\ Len(s) \in Nat /\ Len(s) > 0
         /\ IsSeq(Tail(s)) /\ Len(Tail(s)) = Len(s) - 1
         /\ \A i \in 1..(Len(s) - 1) : Tail(s)[i] = s[i + 1]
<1>1. PICK S : s \in Seq(S)
  BY DEF IsSeq
<1>2. Len(s) \in Nat /\ Len(s) # 0
  BY <1>1, EmptySeq
<1>3. Head(s) = s[1]
  BY <1>1, <1>2
<1>4. Tail(s) \in Seq(S) /\ Len(Tail(s)) = Len(s) - 1 /\ \A i \in 1..(Len(s) - 1) : Tail(s)[i] = s[i + 1]
  BY <1>1, HeadTailProperties
<1> QED
  BY <1>2, <1>3, <1>4 DEF IsSeq

LEMMA ConcatOne ==
  ASSUME NEW s, IsSeq(s), NEW e
  PROVE  s \o <<e>> = Append(s, e)
<1>1. PICK S : s \in Seq(S)
  BY DEF IsSeq
<1>2. PICK U : U = S \cup {e}
  OBVIOUS
<1>3. s \in Seq(U) /\ e \in U
  BY <1>1, <1>2
<1> QED
  BY ONLY <1>3

\* The pattern that is being compiled is the one with id c.
LEMMA CurrentPattern ==
  ASSUME IInv, NEW ps, NEW c, NEW at, NEW ct, NEW m, TablesInv(ps, c, at, ct, m), pc \in CompilePcs,
         NEW p, p = cur.rule.patterns[cur.k].pattern
  PROVE  /\ pc \in PushedPcs /\ pc \in RulePcs /\ cur.k \in 1..Len(cur.rule.patterns) /\ p \in AnyPattern
         /\ cur.pattern_ids[cur.k] = c /\ c < next_pattern_id /\ c \in Nat /\ next_pattern_id \in Nat
         /\ ps[c + 1] = Bounded(cur.rule, p) /\ CurCalls = Calls(p)
         /\ IsSeq(CurCalls) /\ Len(CurCalls) \in Nat /\ m \in Nat /\ m <= Len(CurCalls)
         /\ \A kind : IsSeq(Made(m, kind))
<1>1. pc \in PushedPcs
  BY DEF CompilePcs, PushedPcs
<1>2. /\ pc \in RulePcs /\ Len(cur.rule.patterns) \in Nat /\ cur.k \in 0..Len(cur.rule.patterns)
      /\ \A k \in 1..Len(cur.rule.patterns) : cur.rule.patterns[k].pattern \in AnyPattern
      /\ Len(cur.pattern_ids) = Len(cur.rule.patterns)
      /\ GivenIds(ps, cur.pattern_ids, cur.rule, cur.snapshot.next_pattern_id, next_pattern_id)
      /\ next_pattern_id \in Nat /\ c \in Nat
  BY <1>1, PushedFacts
<1>3. cur.k # 0 /\ cur.pattern_ids[cur.k] = c /\ c < next_pattern_id
  BY DEF TablesInv, IdsInv, CurIds
<1>4. cur.k \in 1..Len(cur.rule.patterns)
  BY <1>2, <1>3
<1>5. p \in AnyPattern
  BY <1>2, <1>4
<1>6. ps[c + 1] = Bounded(cur.rule, p)
  BY <1>2, <1>3, <1>4 DEF GivenIds, UseAt
<1>7. CurCalls = Calls(p)
  BY DEF CurCalls
<1>8. IsSeq(CurCalls) /\ Len(CurCalls) \in Nat
  BY <1>5, <1>7, CallsIs
<1>9. m \in 0..Len(CurCalls)
  BY DEF TablesInv, Left
<1>10. m \in Nat /\ m <= Len(CurCalls)
  BY <1>8, <1>9
<1>11. IsSeq(Truncate(CurCalls, m))
  BY <1>8, <1>10, TruncateIs
<1>12. \A kind : IsSeq(Made(m, kind))
  BY <1>11, SelectIs DEF Made
<1> QED
  BY <1>1, <1>2, <1>3, <1>4, <1>5, <1>6, <1>7, <1>8, <1>10, <1>12

\* The next of its calls.
LEMMA NextCall ==
  ASSUME IInv, NEW ps, NEW c, NEW at, NEW ct, NEW m, TablesInv(ps, c, at, ct, m), pc = "compile",
         cur.calls # <<>>
  PROVE  /\ m < Len(CurCalls) /\ Head(cur.calls) = CurCalls[m + 1]
         /\ Len(Tail(cur.calls)) = Len(CurCalls) - (m + 1)
         /\ \A i \in 1..Len(Tail(cur.calls)) : Tail(cur.calls)[i] = CurCalls[(m + 1) + i]
         /\ \A kind : Made(m + 1, kind) = Made(m, kind) \o Part(Head(cur.calls), kind)
<1>1. pc \in CompilePcs
  BY DEF CompilePcs
<1>2. pc \in RulePcs /\ IsSeq(CurCalls) /\ Len(CurCalls) \in Nat /\ m \in Nat /\ m <= Len(CurCalls)
  BY <1>1, CurrentPattern
<1>3. PICK s, t : s = cur.calls /\ t = Tail(cur.calls)
  OBVIOUS
<1>4. IsSeq(s)
  BY <1>2, <1>3 DEF IInv, SubInv, GoodCalls
<1>5. /\ Head(s) = s[1] /\ Len(s) \in Nat /\ Len(s) > 0 /\ Len(t) = Len(s) - 1
      /\ \A i \in 1..(Len(s) - 1) : t[i] = s[i + 1]
  BY <1>3, <1>4, TailIs
<1>6. Len(s) = Len(CurCalls) - m /\ \A i \in 1..Len(s) : s[i] = CurCalls[m + i]
  BY <1>1, <1>3 DEF TablesInv, Left
<1>7. m < Len(CurCalls) /\ Len(t) = Len(CurCalls) - (m + 1) /\ 1 \in 1..Len(s)
  BY <1>2, <1>5, <1>6
<1>8. Head(s) = CurCalls[m + 1]
  BY <1>5, <1>6, <1>7
<1>9. ASSUME NEW i \in 1..Len(t) PROVE t[i] = CurCalls[(m + 1) + i]
  <2>1. i \in 1..(Len(s) - 1) /\ i + 1 \in 1..Len(s) /\ m + (i + 1) = (m + 1) + i
    BY <1>2, <1>5
  <2> QED
    BY <1>5, <1>6, <2>1
<1>10. ASSUME NEW kind PROVE Made(m + 1, kind) = Made(m, kind) \o Part(Head(s), kind)
  <2>1. PICK u, e : u = Truncate(CurCalls, m) /\ e = Head(s)
    OBVIOUS
  <2>2. IsSeq(u)
    BY <1>2, <2>1, TruncateIs
  <2>3. Truncate(CurCalls, m + 1) = Append(u, e)
    BY <1>2, <1>7, <1>8, <2>1, TruncateNext
  <2>4. Select(Append(u, e), kind) = Select(u, kind) \o Part(e, kind)
    BY <2>2, SelectLast
  <2> QED
    BY <2>1, <2>3, <2>4 DEF Made
<1> QED
  BY <1>3, <1>7, <1>8, <1>9, <1>10

\* A call leaves alone what the ids are.
LEMMA CallKeeps ==
  ASSUME IInv, NEW ps, NEW c, NEW at, NEW ct, NEW m, TablesInv(ps, c, at, ct, m), pc = "compile",
         cur.calls # <<>>, pc' \in CompilePcs,
         UNCHANGED <<rules, patterns, next_pattern_id, filesize_bounds, header_constraints, accepted>>,
         cur'.calls = Tail(cur.calls), cur'.rule = cur.rule, cur'.pattern_ids = cur.pattern_ids,
         cur'.snapshot = cur.snapshot, cur'.pending = cur.pending, cur'.k = cur.k
  PROVE  IdsInv(ps, c)' /\ Left(m + 1)' /\ CurCalls' = CurCalls
<1>1. pc \in CompilePcs
  BY DEF CompilePcs
<1>2. /\ pc \in RulePcs /\ pc \in PushedPcs /\ IsSeq(CurCalls) /\ Len(CurCalls) \in Nat /\ m \in Nat
      /\ m <= Len(CurCalls)
  BY <1>1, CurrentPattern
<1>3. /\ pc' \in RulePcs /\ pc' \in PushedPcs /\ pc' \notin EarlyPcs /\ pc' # "assign" /\ pc' # "next"
  BY DEF CompilePcs, RulePcs, PushedPcs, EarlyPcs
<1>4. Listing(ps)' /\ BoundsAre(ps, c)' /\ RuleIds(ps)'
  BY DEF TablesInv, IdsInv, Listing, BoundsAre, FilesizeAre, HeadersAre, RuleIds
<1>5. Progress(c)'
  BY <1>2, <1>3 DEF TablesInv, IdsInv, Progress
<1>6. CurIds(ps, c)'
  BY <1>1, <1>2, <1>3 DEF TablesInv, IdsInv, CurIds
<1>7. Order(ps)'
  BY <1>2, <1>3 DEF TablesInv, IdsInv, Order, KeptPatterns, AllUses, CurUses
<1>8. CurCalls' = CurCalls
  BY DEF CurCalls
<1>9. Left(m + 1)'
  <2>1. /\ m < Len(CurCalls) /\ Len(Tail(cur.calls)) = Len(CurCalls) - (m + 1)
        /\ \A i \in 1..Len(Tail(cur.calls)) : Tail(cur.calls)[i] = CurCalls[(m + 1) + i]
    BY NextCall
  <2>2. m + 1 \in 0..Len(CurCalls)
    BY <1>2, <2>1
  <2> QED
    BY <1>8, <2>1, <2>2 DEF Left
<1> QED
  BY <1>4, <1>5, <1>6, <1>7, <1>8, <1>9 DEF IdsInv

\* A call is of one kind.
LEMMA PartOf ==
  ASSUME NEW e, NEW kind
  PROVE  (e.call = kind => Part(e, kind) = <<e>>) /\ (e.call # kind => Part(e, kind) = <<>>)
BY DEF Part, When

\* A call of c_regexp, the next of the calls for the current pattern.
LEMMA CRegexpTables ==
  ASSUME IInv, NEW ps, NEW c, NEW at, NEW ct, NEW m, TablesInv(ps, c, at, ct, m), CRegexp
  PROVE  TablesInv(ps, c, at, ct, m + 1)'
<1>1. PICK e, p, l : e = Head(cur.calls) /\ p = cur.rule.patterns[cur.k].pattern /\ l = Len(re_code)
  OBVIOUS
<1>2. PICK code : code = CodeOf(e.piece)
  OBVIOUS
<1>3. /\ pc = "compile" /\ cur.calls # <<>> /\ e.call = "c_regexp" /\ re_code' = re_code \o code
      /\ cur' = [cur EXCEPT !.calls = Tail(@), !.code = Len(re_code')]
      /\ pc' = IF e.piece \in BadRegexps THEN "refused" ELSE pc
      /\ UNCHANGED <<rules, patterns, next_pattern_id, sub_patterns, atoms, filesize_bounds,
                     header_constraints, accepted>>
  BY <1>1, <1>2 DEF CRegexp
<1>4. pc \in CompilePcs /\ pc' \in CompilePcs /\ pc' \in RulePcs
  BY <1>3 DEF CompilePcs, RulePcs
<1>5. /\ pc \in RulePcs /\ p \in AnyPattern /\ c \in Nat /\ c < next_pattern_id /\ next_pattern_id \in Nat
      /\ ps[c + 1] = Bounded(cur.rule, p) /\ CurCalls = Calls(p)
      /\ Len(CurCalls) \in Nat /\ m \in Nat /\ \A kind : IsSeq(Made(m, kind))
  BY <1>1, <1>4, CurrentPattern
<1>6. /\ cur'.calls = Tail(cur.calls) /\ cur'.rule = cur.rule /\ cur'.pattern_ids = cur.pattern_ids
      /\ cur'.snapshot = cur.snapshot /\ cur'.pending = cur.pending /\ cur'.k = cur.k
      /\ cur'.prev = cur.prev /\ cur'.code = Len(re_code')
  <2>1. DOMAIN cur = CurFields
    BY DEF IInv, Shape
  <2> QED
    BY <1>3, <2>1 DEF CurFields
<1>7. IdsInv(ps, c)' /\ Left(m + 1)' /\ CurCalls' = CurCalls
  BY <1>3, <1>4, <1>6, CallKeeps
<1>8. /\ m < Len(CurCalls) /\ e = CurCalls[m + 1]
      /\ \A kind : Made(m + 1, kind) = Made(m, kind) \o Part(e, kind)
  BY <1>1, <1>3, NextCall
<1>9. Made(m + 1, Add)' = Made(m, Add)
  <2>1. e.call # Add
    BY <1>3 DEF Add
  <2>2. Made(m + 1, Add) = Made(m, Add) \o <<>>
    BY <1>8, <2>1, PartOf
  <2>3. IsSeq(Made(m, Add))
    BY <1>5
  <2>4. Made(m, Add) \o <<>> = Made(m, Add)
    BY ONLY <2>3, EmptyConcat
  <2>5. Made(m + 1, Add)' = Made(m + 1, Add)
    BY <1>7 DEF Made
  <2> QED
    BY <2>2, <2>4, <2>5
<1>10. SegmentsInv(ps, c, at, m + 1)'
  <2>1. Subs(ps, c, at)'
    BY <1>3, <1>4, <1>5, <1>6 DEF TablesInv, SegmentsInv, Subs
  <2>2. MadeSubs(c, at, m + 1)'
    BY <1>3, <1>4, <1>6, <1>9 DEF TablesInv, SegmentsInv, MadeSubs
  <2> QED
    BY <2>1, <2>2 DEF SegmentsInv
<1>11. PICK s, t : s = CodeFor(Made(m, "c_regexp")) /\ t = CodeFor(Made(m + 1, "c_regexp")')
  OBVIOUS
<1>12. t = s \o code
  <2>1. PICK u : u = Made(m, "c_regexp")
    OBVIOUS
  <2>2. IsSeq(u)
    BY <1>5, <2>1
  <2>3. Made(m + 1, "c_regexp") = u \o <<e>>
    BY <1>3, <1>8, <2>1, PartOf
  <2>4. u \o <<e>> = Append(u, e)
    BY ONLY <2>2, ConcatOne
  <2>5. CodeFor(Append(u, e)) = CodeFor(u) \o CodeOf(e.piece)
    BY <2>2, CodeForLast
  <2>6. Made(m + 1, "c_regexp")' = Made(m + 1, "c_regexp")
    BY <1>7 DEF Made
  <2> QED
    BY <1>2, <1>11, <2>1, <2>3, <2>4, <2>5, <2>6
<1>13. IsSeq(re_code) /\ IsSeq(code) /\ IsSeq(s)
  BY <1>2, <1>5, <1>11, CodeIs, CodeForIs DEF IInv, SubInv
<1>14. /\ IsSeq(re_code') /\ Len(re_code') = l + Len(code) /\ \A i \in 1..l : re_code'[i] = re_code[i]
       /\ \A i \in 1..Len(code) : re_code'[l + i] = code[i]
  <2>1. IsSeq(re_code \o code) /\ Len(re_code \o code) = Len(re_code) + Len(code)
        /\ (\A i \in 1..Len(re_code) : (re_code \o code)[i] = re_code[i])
        /\ \A i \in 1..Len(code) : (re_code \o code)[Len(re_code) + i] = code[i]
    BY ONLY <1>13, ConcatIs
  <2> QED
    BY <1>1, <1>3, <2>1
<1>15. /\ Len(t) = Len(s) + Len(code) /\ \A i \in 1..Len(s) : t[i] = s[i]
       /\ \A i \in 1..Len(code) : t[Len(s) + i] = code[i]
  <2>1. Len(s \o code) = Len(s) + Len(code) /\ (\A i \in 1..Len(s) : (s \o code)[i] = s[i])
        /\ \A i \in 1..Len(code) : (s \o code)[Len(s) + i] = code[i]
    BY ONLY <1>13, ConcatIs
  <2> QED
    BY <1>12, <2>1
<1>16. l \in Nat /\ Len(s) \in Nat /\ Len(code) \in Nat /\ Len(code) > 0 /\ code[Len(code)][2] = e.piece
  BY <1>1, <1>2, <1>13, SeqIs, CodeEnds
<1>17. /\ Coded(ps, c, ct, re_code) /\ l = ct[c] + Len(s) /\ CodeIn(re_code, ct[c], s)
       /\ cur.snapshot.re_code_len = ct[cur.snapshot.next_pattern_id]
  BY <1>1, <1>4, <1>5, <1>11 DEF TablesInv, InstructionsInv, Codes, MadeCode
<1>18. ct[c] \in Nat
  <2>1. c \in 0..c
    BY <1>5
  <2> QED
    BY <1>17, <2>1 DEF Coded, Places
<1>19. Codes(ps, c, ct)'
  <2>1. ASSUME NEW x \in 1..ct[c] PROVE re_code'[x] = re_code[x]
    <3>1. PICK o, n : o = ct[c] /\ n = Len(s)
      OBVIOUS
    <3>2. o \in Nat /\ n \in Nat /\ l = o + n /\ x \in 1..o
      BY <1>16, <1>17, <1>18, <3>1
    <3>3. x \in 1..l
      BY <3>2
    <3> QED
      BY <1>14, <3>3
  <2>2. \A i \in 1..c : ps[i] \in AnyPattern
    <3>1. next_pattern_id \in Nat /\ \A i \in 1..next_pattern_id : ps[i] \in AnyPattern
      BY ListedAreAny DEF TablesInv, IdsInv
    <3> QED
      BY <1>5, <3>1
  <2>3. Coded(ps, c, ct, re_code')
    BY <1>5, <1>17, <2>1, <2>2, CodedKept
  <2> QED
    BY <1>4, <1>6, <1>17, <2>3 DEF Codes
<1>20. MadeCode(c, ct, m + 1)'
  <2>1. Len(re_code') = ct[c] + Len(t)
    BY <1>14, <1>15, <1>16, <1>17, <1>18
  <2>2. ASSUME NEW j \in 1..Len(t) PROVE re_code'[ct[c] + j] = t[j]
    <3>1. CASE j \in 1..Len(s)
      <4>1. ct[c] + j \in 1..l
        BY <1>16, <1>17, <1>18, <3>1
      <4>2. re_code[ct[c] + j] = s[j]
        BY <1>17, <3>1 DEF CodeIn
      <4> QED
        BY <1>14, <1>15, <3>1, <4>1, <4>2
    <3>2. CASE j \notin 1..Len(s)
      <4>1. PICK i : i = j - Len(s)
        OBVIOUS
      <4>2. i \in 1..Len(code) /\ j = Len(s) + i /\ ct[c] + j = l + i
        <5>1. PICK o, n, k : o = ct[c] /\ n = Len(s) /\ k = Len(code)
          OBVIOUS
        <5>2. o \in Nat /\ n \in Nat /\ k \in Nat /\ l = o + n /\ j \in 1..(n + k) /\ j \notin 1..n /\ i = j - n
          BY <1>15, <1>16, <1>17, <1>18, <3>2, <4>1, <5>1
        <5>3. i \in 1..k /\ j = n + i /\ o + j = l + i
          BY <5>2
        <5> QED
          BY <5>1, <5>3
      <4> QED
        BY <1>14, <1>15, <4>2
    <3> QED
      BY <3>1, <3>2
  <2>3. CodeIn(re_code', ct[c], t)
    BY <2>2 DEF CodeIn
  <2> QED
    BY <1>11, <2>1, <2>3 DEF MadeCode
<1>21. AtomCodes(ps, c)'
  <2>1. ASSUME NEW i \in 1..Len(atoms) PROVE AtomCode(ps, atoms[i], sub_patterns, re_code')
    <3>1. atoms[i].code \in 0..l
      BY <1>1 DEF IInv, SubInv, Reach
    <3>2. AtomCode(ps, atoms[i], sub_patterns, re_code)
      BY DEF TablesInv, InstructionsInv, AtomCodes
    <3>3. atoms[i].code # 0 => re_code'[atoms[i].code] = re_code[atoms[i].code]
      BY <1>14, <1>16, <3>1
    <3> QED
      BY <3>2, <3>3 DEF AtomCode, PieceAt
  <2>2. PieceAt(re_code', Len(re_code'), ps[c + 1])
    <3>1. re_code'[Len(re_code')] = code[Len(code)]
      BY <1>14, <1>16
    <3>2. PICK j \in 1..Len(p.pieces) : e.piece = p.pieces[j]
      <4>1. m + 1 \in 1..Len(CurCalls)
        BY <1>5, <1>8
      <4> QED
        BY <1>3, <1>5, <1>8, <4>1, CallsIs
    <3>3. ps[c + 1].pieces = p.pieces
      BY <1>5, BoundedIs DEF SamePattern
    <3> QED
      BY <1>16, <3>1, <3>2, <3>3 DEF PieceAt
  <2> QED
    BY <1>3, <1>6, <2>1, <2>2 DEF AtomCodes
<1> QED
  BY <1>7, <1>10, <1>19, <1>20, <1>21 DEF TablesInv, InstructionsInv

LEMMA WidthOfIs ==
  ASSUME NEW call
  PROVE  WidthOf(call) \in 1..2
BY DEF WidthOf

\* The links before j do not depend on the calls after it.
LEMMA LinkToSame ==
  ASSUME NEW A, NEW A2, NEW j \in Nat, j > 0, \A i \in 1..j : A2[i] = A[i], NEW o, NEW to, LinkTo(A, j, o, to)
  PROVE  LinkTo(A2, j, o, to)
<1>1. A2[j] = A[j] /\ \A i \in 1..(j - 1) : A2[i] = A[i]
  OBVIOUS
<1>2. A[j].kind \notin TailKinds => to = {}
  BY DEF LinkTo
<1>3. ASSUME A2[j].kind \in TailKinds, NEW l \in 1..(j - 1), WidthOf(A2[l]) = WidthOf(A2[j]),
             \A k \in (l + 1)..(j - 1) : WidthOf(A2[k]) # WidthOf(A2[j])
      PROVE  to = {o + l - 1}
  <2>1. A[j].kind \in TailKinds /\ WidthOf(A[l]) = WidthOf(A[j])
    BY <1>1, <1>3
  <2>2. \A k \in (l + 1)..(j - 1) : WidthOf(A[k]) # WidthOf(A[j])
    <3>1. \A k \in (l + 1)..(j - 1) : k \in 1..(j - 1)
      OBVIOUS
    <3> QED
      BY <1>1, <1>3, <3>1
  <2> QED
    BY <2>1, <2>2 DEF LinkTo
<1> QED
  BY <1>1, <1>2, <1>3 DEF LinkTo

\* One more sub-pattern, x, for the call e.
LEMMA SegmentMore ==
  ASSUME NEW A, IsSeq(A), NEW e, NEW o \in Nat, NEW id, NEW subs, NEW subs2, NEW prev,
         Segment(subs, o, id, A), Prev(A, o, prev), \A j \in 1..Len(A) : subs2[o + j] = subs[o + j],
         NEW x, subs2[o + (Len(A) + 1)] = x, SubIs(x, id, e),
         x.chained_to = IF e.kind \in TailKinds THEN {prev[WidthOf(e)]} ELSE {}
  PROVE  Segment(subs2, o, id, Append(A, e))
<1>1. PICK A2, n : A2 = Append(A, e) /\ n = Len(A)
  OBVIOUS
<1>2. n \in Nat /\ Len(A2) = n + 1 /\ A2[n + 1] = e /\ \A i \in 1..n : A2[i] = A[i]
  BY <1>1, SeqIs, AppendIs
<1>3. ASSUME NEW j \in 1..n PROVE SubIs(subs2[o + j], id, A2[j]) /\ LinkTo(A2, j, o, subs2[o + j].chained_to)
  <2>1. subs2[o + j] = subs[o + j] /\ A2[j] = A[j]
    BY <1>1, <1>2
  <2>2. SubIs(subs[o + j], id, A[j]) /\ LinkTo(A, j, o, subs[o + j].chained_to)
    BY <1>1 DEF Segment
  <2>3. j \in Nat /\ j > 0 /\ \A i \in 1..j : A2[i] = A[i]
    BY <1>2
  <2>4. LinkTo(A2, j, o, subs[o + j].chained_to)
    BY <2>2, <2>3, LinkToSame
  <2> QED
    BY <2>1, <2>2, <2>4
<1>4. LinkTo(A2, n + 1, o, x.chained_to)
  <2>1. (n + 1) - 1 = n
    BY <1>2
  <2>2. e.kind \notin TailKinds => x.chained_to = {}
    OBVIOUS
  <2>3. ASSUME e.kind \in TailKinds, NEW l \in 1..n, WidthOf(A2[l]) = WidthOf(e),
               \A k \in (l + 1)..n : WidthOf(A2[k]) # WidthOf(e)
        PROVE  x.chained_to = {o + l - 1}
    <3>1. WidthOf(A[l]) = WidthOf(e)
      BY <1>2, <2>3
    <3>2. \A k \in (l + 1)..n : k \in 1..n
      BY <1>2
    <3>3. \A k \in (l + 1)..n : WidthOf(A[k]) # WidthOf(A[l])
      BY <1>2, <2>3, <3>1, <3>2
    <3>4. prev[WidthOf(A[l])] = o + l - 1
      BY <1>1, <3>3 DEF Prev
    <3> QED
      BY <2>3, <3>1, <3>4
  <2> QED
    BY <1>2, <2>1, <2>2, <2>3 DEF LinkTo
<1>5. ASSUME NEW j \in 1..(n + 1)
      PROVE  SubIs(subs2[o + j], id, A2[j]) /\ LinkTo(A2, j, o, subs2[o + j].chained_to)
  <2>1. j \in 1..n \/ j = n + 1
    BY <1>2
  <2>2. subs2[o + (n + 1)] = x
    BY <1>1
  <2>3. CASE j = n + 1
    BY <1>2, <1>4, <2>2, <2>3
  <2> QED
    BY <1>3, <2>1, <2>3
<1> QED
  BY <1>1, <1>2, <1>5 DEF Segment

\* The call e adds the sub-pattern that is then the last of its width.
LEMMA PrevMore ==
  ASSUME NEW A, IsSeq(A), NEW e, NEW o \in Nat, NEW prev, Prev(A, o, prev), NEW prev2,
         prev2 = [prev EXCEPT ![WidthOf(e)] = o + Len(A)]
  PROVE  Prev(Append(A, e), o, prev2)
<1>1. PICK A2, n, w : A2 = Append(A, e) /\ n = Len(A) /\ w = WidthOf(e)
  OBVIOUS
<1>2. n \in Nat /\ Len(A2) = n + 1 /\ A2[n + 1] = e /\ \A i \in 1..n : A2[i] = A[i]
  BY <1>1, SeqIs, AppendIs
<1>3. w \in 1..2 /\ prev \in [1..2 -> Nat] /\ o + n \in Nat /\ prev2 = [prev EXCEPT ![w] = o + n]
  BY <1>1, <1>2, WidthOfIs DEF Prev
<1>4. prev2 \in [1..2 -> Nat] /\ prev2[w] = o + n /\ \A v \in 1..2 : v # w => prev2[v] = prev[v]
  BY <1>3
<1>5. ASSUME NEW l \in 1..(n + 1), \A k \in (l + 1)..(n + 1) : WidthOf(A2[k]) # WidthOf(A2[l])
      PROVE  prev2[WidthOf(A2[l])] = o + l - 1
  <2>1. CASE l = n + 1
    <3>1. WidthOf(A2[l]) = w /\ o + l - 1 = o + n
      BY <1>1, <1>2, <2>1
    <3> QED
      BY <1>4, <3>1
  <2>2. CASE l # n + 1
    <3>1. l \in 1..n /\ n + 1 \in (l + 1)..(n + 1)
      BY <1>2, <2>2
    <3>2. A2[l] = A[l] /\ WidthOf(A[l]) # w
      BY <1>1, <1>2, <1>5, <3>1
    <3>3. \A k \in (l + 1)..n : k \in 1..n /\ k \in (l + 1)..(n + 1)
      BY <1>2
    <3>4. \A k \in (l + 1)..n : WidthOf(A[k]) # WidthOf(A[l])
      BY <1>2, <1>5, <3>2, <3>3
    <3>5. prev[WidthOf(A[l])] = o + l - 1
      BY <1>1, <3>1, <3>4 DEF Prev
    <3>6. WidthOf(A[l]) \in 1..2
      BY WidthOfIs
    <3> QED
      BY <1>4, <3>2, <3>5, <3>6
  <2> QED
    BY <2>1, <2>2
<1>6. Prev(A2, o, prev2)
  <2>1. \A l \in 1..Len(A2) : (\A k \in (l + 1)..Len(A2) : WidthOf(A2[k]) # WidthOf(A2[l]))
                               => prev2[WidthOf(A2[l])] = o + l - 1
    BY <1>2, <1>5
  <2> QED
    BY <1>4, <2>1 DEF Prev
<1> QED
  BY <1>1, <1>6

\* A call of add_sub_pattern, the next of the calls for the current pattern.
LEMMA AddSubPatternTables ==
  ASSUME IInv, NEW ps, NEW c, NEW at, NEW ct, NEW m, TablesInv(ps, c, at, ct, m), AddSubPattern
  PROVE  TablesInv(ps, c, at, ct, m + 1)'
<1>1. PICK e, p, ns, w : /\ e = Head(cur.calls) /\ p = cur.rule.patterns[cur.k].pattern
                         /\ ns = Len(sub_patterns) /\ w = WidthOf(e)
  OBVIOUS
<1>2. PICK x, atom : /\ x = [pattern |-> cur.pattern_ids[cur.k], kind |-> e.kind,
                             wide |-> e.wide, anchored_at |-> e.anchored_at,
                             left |-> e.left, right |-> e.right, last |-> e.last,
                             chained_to |-> IF e.kind \in TailKinds THEN {cur.prev[w]} ELSE {}]
                     /\ atom = [sub_pattern |-> ns,
                                code |-> IF e.kind \in {"Regexp", "RegexpChainHead", "RegexpChainTail"}
                                         THEN cur.code ELSE 0]
  OBVIOUS
<1>3. /\ pc = "compile" /\ cur.calls # <<>> /\ e.call = Add
      /\ atoms' = atoms \/ atoms' = Append(atoms, atom)
      /\ sub_patterns' = Append(sub_patterns, x)
      /\ cur' = [cur EXCEPT !.calls = Tail(@), !.prev[w] = ns]
      /\ UNCHANGED <<pc, rules, patterns, next_pattern_id, re_code, filesize_bounds,
                     header_constraints, accepted>>
  BY <1>1, <1>2 DEF AddSubPattern, WidthOf, TailKinds, Add
<1>4. pc \in CompilePcs /\ pc' \in CompilePcs /\ pc' \in RulePcs /\ pc' = "compile"
  BY <1>3 DEF CompilePcs, RulePcs
<1>5. /\ pc \in RulePcs /\ p \in AnyPattern /\ c \in Nat /\ c < next_pattern_id /\ next_pattern_id \in Nat
      /\ cur.pattern_ids[cur.k] = c
      /\ ps[c + 1] = Bounded(cur.rule, p) /\ CurCalls = Calls(p)
      /\ Len(CurCalls) \in Nat /\ m \in Nat /\ \A kind : IsSeq(Made(m, kind))
  BY <1>1, <1>4, CurrentPattern
<1>6. /\ cur'.calls = Tail(cur.calls) /\ cur'.rule = cur.rule /\ cur'.pattern_ids = cur.pattern_ids
      /\ cur'.snapshot = cur.snapshot /\ cur'.pending = cur.pending /\ cur'.k = cur.k
      /\ cur'.prev = [cur.prev EXCEPT ![w] = ns] /\ cur'.code = cur.code
  <2>1. DOMAIN cur = CurFields
    BY DEF IInv, Shape
  <2> QED
    BY <1>3, <2>1 DEF CurFields
<1>7. IdsInv(ps, c)' /\ Left(m + 1)' /\ CurCalls' = CurCalls
  BY <1>3, <1>4, <1>6, CallKeeps
<1>8. \A kind : Made(m + 1, kind) = Made(m, kind) \o Part(e, kind)
  BY <1>1, <1>3, NextCall
<1>9. Made(m + 1, "c_regexp")' = Made(m, "c_regexp")
  <2>1. e.call # "c_regexp"
    BY <1>3 DEF Add
  <2>2. Made(m + 1, "c_regexp") = Made(m, "c_regexp") \o <<>>
    BY <1>8, <2>1, PartOf
  <2>3. IsSeq(Made(m, "c_regexp"))
    BY <1>5
  <2>4. Made(m, "c_regexp") \o <<>> = Made(m, "c_regexp")
    BY ONLY <2>3, EmptyConcat
  <2>5. Made(m + 1, "c_regexp")' = Made(m + 1, "c_regexp")
    BY <1>7 DEF Made
  <2> QED
    BY <2>2, <2>4, <2>5
<1>10. PICK A : A = Made(m, Add)
  OBVIOUS
<1>11. IsSeq(A) /\ Made(m + 1, Add)' = Append(A, e)
  <2>1. IsSeq(A)
    BY <1>5, <1>10
  <2>2. Made(m + 1, Add) = A \o <<e>>
    BY <1>3, <1>8, <1>10, PartOf
  <2>3. A \o <<e>> = Append(A, e)
    BY ONLY <2>1, ConcatOne
  <2>4. Made(m + 1, Add)' = Made(m + 1, Add)
    BY <1>7 DEF Made
  <2> QED
    BY <2>1, <2>2, <2>3, <2>4
<1>12. /\ Compiled(ps, c, at, sub_patterns) /\ ns = at[c] + Len(A) /\ Segment(sub_patterns, at[c], c, A)
       /\ cur.snapshot.sub_patterns_len = at[cur.snapshot.next_pattern_id] /\ Prev(A, at[c], cur.prev)
  BY <1>1, <1>4, <1>5, <1>10 DEF TablesInv, SegmentsInv, Subs, MadeSubs
<1>13. PICK o, n : o = at[c] /\ n = Len(A)
  OBVIOUS
<1>14. o \in Nat /\ n \in Nat /\ ns = o + n /\ ns \in Nat
  <2>1. c \in 0..c
    BY <1>5
  <2>2. at[c] \in Nat
    BY <1>12, <2>1 DEF Compiled, Places
  <2> QED
    BY <1>11, <1>12, <1>13, <2>2, SeqIs
<1>15. /\ Len(sub_patterns') = ns + 1 /\ \A i \in 1..ns : sub_patterns'[i] = sub_patterns[i]
       /\ sub_patterns'[ns + 1] = x
  BY <1>1, <1>3, AppendIs DEF IInv, SubInv
<1>16. /\ SubIs(x, c, e) /\ x.pattern = c
       /\ x.chained_to = IF e.kind \in TailKinds THEN {cur.prev[w]} ELSE {}
  BY <1>2, <1>5 DEF SubIs
<1>17. Subs(ps, c, at)'
  <2>1. \A y \in 1..at[c] : sub_patterns'[y] = sub_patterns[y]
    <3>1. \A y \in 1..o : y \in 1..ns
      BY <1>14
    <3> QED
      BY <1>13, <1>15, <3>1
  <2>2. \A i \in 1..c : ps[i] \in AnyPattern
    <3>1. next_pattern_id \in Nat /\ \A i \in 1..next_pattern_id : ps[i] \in AnyPattern
      BY ListedAreAny DEF TablesInv, IdsInv
    <3> QED
      BY <1>5, <3>1
  <2>3. Compiled(ps, c, at, sub_patterns')
    <3>1. c \in Nat /\ c <= c
      BY <1>5
    <3>2. Compiled(ps, c, at, sub_patterns)
      BY <1>12
    <3> QED
      BY ONLY <3>1, <3>2, <2>1, <2>2, CompiledKept
  <2> QED
    BY <1>4, <1>6, <1>12, <2>3 DEF Subs
<1>18. MadeSubs(c, at, m + 1)'
  <2>1. PICK A2 : A2 = Append(A, e)
    OBVIOUS
  <2>2. Len(A2) = n + 1
    BY <1>11, <1>13, <2>1, AppendIs
  <2>3. Len(sub_patterns') = o + Len(A2)
    BY <1>14, <1>15, <2>2
  <2>4. Segment(sub_patterns', o, c, A2)
    <3>1. \A j \in 1..n : o + j \in 1..ns
      BY <1>14
    <3>2. \A j \in 1..Len(A) : sub_patterns'[o + j] = sub_patterns[o + j]
      BY <1>13, <1>15, <3>1
    <3>3. o + (n + 1) = ns + 1
      BY <1>14
    <3>4. sub_patterns'[o + (Len(A) + 1)] = x
      BY <1>13, <1>15, <3>3
    <3>5. x.chained_to = IF e.kind \in TailKinds THEN {cur.prev[WidthOf(e)]} ELSE {}
      BY <1>1, <1>16
    <3>6. Segment(sub_patterns, o, c, A) /\ Prev(A, o, cur.prev)
      BY <1>12, <1>13
    <3> QED
      BY <1>11, <1>14, <1>16, <2>1, <3>2, <3>4, <3>5, <3>6, SegmentMore
  <2>5. Prev(A2, o, cur'.prev)
    <3>1. cur'.prev = [cur.prev EXCEPT ![WidthOf(e)] = o + Len(A)]
      BY <1>1, <1>6, <1>13, <1>14
    <3>2. Prev(A, o, cur.prev)
      BY <1>12, <1>13
    <3> QED
      BY <1>11, <1>14, <2>1, <3>1, <3>2, PrevMore
  <2> QED
    BY <1>11, <1>13, <2>1, <2>3, <2>4, <2>5 DEF MadeSubs
<1>19. Codes(ps, c, ct)' /\ MadeCode(c, ct, m + 1)'
  BY <1>3, <1>4, <1>5, <1>6, <1>9 DEF TablesInv, InstructionsInv, Codes, MadeCode
<1>20. AtomCodes(ps, c)'
  <2>1. PICK na : na = Len(atoms)
    OBVIOUS
  <2>2. IsSeq(atoms) /\ na \in Nat
    BY <2>1, SeqIs DEF IInv, SubInv
  <2>3. ASSUME NEW i \in 1..na PROVE AtomCode(ps, atoms[i], sub_patterns', re_code)
    <3>1. atoms[i].sub_pattern \in 0..(ns - 1)
      BY <1>1, <2>1 DEF IInv, SubInv, Reach
    <3>2. atoms[i].sub_pattern + 1 \in 1..ns
      BY <1>14, <3>1
    <3>3. AtomCode(ps, atoms[i], sub_patterns, re_code)
      BY <2>1 DEF TablesInv, InstructionsInv, AtomCodes
    <3> QED
      BY <1>15, <3>2, <3>3 DEF AtomCode
  <2>4. cur.code # 0 => PieceAt(re_code, cur.code, ps[c + 1])
    BY <1>3 DEF TablesInv, InstructionsInv, AtomCodes
  <2>5. AtomCode(ps, atom, sub_patterns', re_code)
    <3>1. atom.sub_pattern = ns /\ (atom.code = cur.code \/ atom.code = 0)
      BY <1>2
    <3>2. sub_patterns'[atom.sub_pattern + 1].pattern = c
      BY <1>15, <1>16, <3>1
    <3> QED
      BY <2>4, <3>1, <3>2 DEF AtomCode
  <2>6. \A i \in 1..Len(atoms') : AtomCode(ps, atoms'[i], sub_patterns', re_code)
    <3>1. CASE atoms' = atoms
      BY <2>1, <2>3, <3>1
    <3>2. CASE atoms' = Append(atoms, atom)
      <4>1. Len(atoms') = na + 1 /\ atoms'[na + 1] = atom /\ \A i \in 1..na : atoms'[i] = atoms[i]
        BY <2>1, <2>2, <3>2, AppendIs
      <4>2. \A i \in 1..(na + 1) : i \in 1..na \/ i = na + 1
        BY <2>2
      <4> QED
        BY <2>3, <2>5, <4>1, <4>2
    <3> QED
      BY <1>3, <3>1, <3>2
  <2> QED
    BY <1>3, <1>6, <2>4, <2>6 DEF AtomCodes
<1> QED
  BY <1>7, <1>17, <1>18, <1>19, <1>20 DEF TablesInv, SegmentsInv, InstructionsInv

\* One more place, n, after the first c.
More(at, c, n) == [i \in Nat |-> IF i = c + 1 THEN n ELSE at[i]]

\* The places are still in order.
LEMMA PlacesMore ==
  ASSUME NEW c \in Nat, NEW at, Places(at, c), NEW n \in Nat, at[c] <= n, NEW at2, at2 = More(at, c, n)
  PROVE  Places(at2, c + 1) /\ at2[c + 1] = n /\ \A i \in 0..c : at2[i] = at[i]
<1>1. at2[c + 1] = n /\ \A i \in 0..c : at2[i] = at[i]
  BY DEF More
<1>2. at[0] = 0 /\ (\A i \in 0..c : at[i] \in Nat) /\ \A i \in 0..c : \A j \in i..c : at[i] <= at[j]
  BY DEF Places
<1>3. at2[0] = 0
  BY <1>1, <1>2
<1>4. ASSUME NEW i \in 0..(c + 1) PROVE at2[i] \in Nat
  <2>1. i \in 0..c \/ i = c + 1
    OBVIOUS
  <2> QED
    BY <1>1, <1>2, <2>1
<1>5. ASSUME NEW i \in 0..(c + 1), NEW j \in i..(c + 1) PROVE at2[i] <= at2[j]
  <2>1. CASE i = c + 1
    <3>1. j = i
      BY <2>1
    <3> QED
      BY <1>4, <3>1
  <2>2. CASE i # c + 1 /\ j # c + 1
    <3>1. i \in 0..c /\ j \in i..c /\ j \in 0..c
      BY <2>2
    <3> QED
      BY <1>1, <1>2, <3>1
  <2>3. CASE i # c + 1 /\ j = c + 1
    <3>1. i \in 0..c /\ c \in i..c /\ c \in 0..c
      BY <2>3
    <3>2. at[i] <= at[c] /\ at[i] \in Nat /\ at[c] \in Nat
      BY <1>2, <3>1
    <3>3. at[i] <= n
      BY <3>2
    <3> QED
      BY <1>1, <2>3, <3>1, <3>3
  <2> QED
    BY <2>1, <2>2, <2>3
<1> QED
  BY <1>1, <1>3, <1>4, <1>5 DEF Places

\* Pattern c + 1 is compiled too.
LEMMA CompiledMore ==
  ASSUME NEW ps, NEW c \in Nat, NEW at, NEW subs, Compiled(ps, c, at, subs), NEW A, A = Adds(ps[c + 1]),
         Len(A) \in Nat, NEW n, n = at[c] + Len(A), Segment(subs, at[c], c, A), NEW at2, at2 = More(at, c, n)
  PROVE  Compiled(ps, c + 1, at2, subs) /\ at2[c + 1] = n /\ \A i \in 0..c : at2[i] = at[i]
<1>1. Places(at, c)
  BY DEF Compiled
<1>2. (\A i \in 0..c : at[i] \in Nat) /\ \A i \in 0..c : \A j \in i..c : at[i] <= at[j]
  BY <1>1 DEF Places
<1>3. PICK o, l : o = at[c] /\ l = Len(A)
  OBVIOUS
<1>4. o \in Nat /\ l \in Nat /\ n = o + l /\ n \in Nat /\ o <= n
  <2>1. c \in 0..c
    OBVIOUS
  <2>2. at[c] \in Nat
    BY <1>2, <2>1
  <2> QED
    BY <1>3, <2>2
<1>5. Places(at2, c + 1) /\ at2[c + 1] = n /\ \A i \in 0..c : at2[i] = at[i]
  BY <1>1, <1>3, <1>4, PlacesMore
<1>6. ASSUME NEW i \in 1..(c + 1)
      PROVE  at2[i] = at2[i - 1] + Len(Adds(ps[i])) /\ Segment(subs, at2[i - 1], i - 1, Adds(ps[i]))
  <2>1. CASE i = c + 1
    <3>1. i - 1 = c /\ c \in 0..c
      BY <2>1
    <3>2. at2[i] = n /\ at2[i - 1] = at[c]
      BY <1>5, <2>1, <3>1
    <3> QED
      BY <2>1, <3>1, <3>2
  <2>2. CASE i # c + 1
    <3>1. i \in 1..c /\ i \in 0..c /\ i - 1 \in 0..c
      BY <2>2
    <3>2. at[i] = at[i - 1] + Len(Adds(ps[i])) /\ Segment(subs, at[i - 1], i - 1, Adds(ps[i]))
      BY <3>1 DEF Compiled
    <3> QED
      BY <1>5, <3>1, <3>2
  <2> QED
    BY <2>1, <2>2
<1>7. ASSUME NEW x \in 1..n, ~(x <= o) PROVE subs[x].pattern = c
  <2>1. PICK j : j = x - o
    OBVIOUS
  <2>2. j \in 1..l /\ x = o + j
    BY <1>4, <1>7, <2>1
  <2>3. SubIs(subs[o + j], c, A[j])
    BY <1>3, <2>2 DEF Segment
  <2> QED
    BY <2>2, <2>3 DEF SubIs
<1>8. ASSUME NEW x \in 1..n, x <= o PROVE x \in 1..at[c] /\ subs[x].pattern \in 0..(c - 1)
  <2>1. x \in 1..o
    BY <1>4, <1>8
  <2> QED
    BY <1>3, <2>1 DEF Compiled
<1>9. ASSUME NEW x \in 1..n PROVE subs[x].pattern \in 0..c
  BY <1>7, <1>8
<1>10. ASSUME NEW x \in 1..n, NEW i \in 1..(c + 1) PROVE subs[x].pattern = i - 1 <=> at2[i - 1] < x /\ x <= at2[i]
  <2>1. CASE i = c + 1
    <3>1. i - 1 = c /\ c \in 0..c
      BY <2>1
    <3>2. at2[i] = n /\ at2[i - 1] = o
      BY <1>3, <1>5, <2>1, <3>1
    <3>3. x <= n /\ x \in Nat
      BY <1>4
    <3>4. CASE x <= o
      <4>1. subs[x].pattern # c
        BY <1>8, <3>4
      <4>2. ~(o < x)
        BY <1>4, <3>3, <3>4
      <4> QED
        BY <3>1, <3>2, <4>1, <4>2
    <3>5. CASE ~(x <= o)
      <4>1. subs[x].pattern = c
        BY <1>7, <3>5
      <4>2. o < x
        BY <1>4, <3>3, <3>5
      <4> QED
        BY <3>1, <3>2, <3>3, <4>1, <4>2
    <3> QED
      BY <3>4, <3>5
  <2>2. CASE i # c + 1
    <3>1. i \in 1..c /\ i \in 0..c /\ i - 1 \in 0..c /\ c \in i..c
      BY <2>2
    <3>2. at2[i] = at[i] /\ at2[i - 1] = at[i - 1] /\ at[i] \in Nat /\ at[i] <= o
      BY <1>2, <1>3, <1>5, <3>1
    <3>3. CASE x <= o
      <4>1. x \in 1..at[c]
        BY <1>8, <3>3
      <4>2. subs[x].pattern = i - 1 <=> at[i - 1] < x /\ x <= at[i]
        BY <3>1, <4>1 DEF Compiled
      <4> QED
        BY <3>2, <4>2
    <3>4. CASE ~(x <= o)
      <4>1. subs[x].pattern = c /\ c # i - 1
        BY <1>7, <3>1, <3>4
      <4>2. ~(x <= at[i])
        BY <1>4, <3>2, <3>4
      <4> QED
        BY <3>2, <4>1, <4>2
    <3> QED
      BY <3>3, <3>4
  <2> QED
    BY <2>1, <2>2
<1>11. (c + 1) - 1 = c
  OBVIOUS
<1>12. Compiled(ps, c + 1, at2, subs)
  BY <1>5, <1>6, <1>9, <1>10, <1>11 DEF Compiled
<1> QED
  BY <1>5, <1>12

\* The code of pattern c + 1 is complete too.
LEMMA CodedMore ==
  ASSUME NEW ps, NEW c \in Nat, NEW ct, NEW code, Coded(ps, c, ct, code), NEW A, A = CodeAll(ps[c + 1]),
         Len(A) \in Nat, NEW n, n = ct[c] + Len(A), CodeIn(code, ct[c], A), NEW ct2, ct2 = More(ct, c, n)
  PROVE  Coded(ps, c + 1, ct2, code) /\ ct2[c + 1] = n /\ \A i \in 0..c : ct2[i] = ct[i]
<1>1. Places(ct, c)
  BY DEF Coded
<1>2. ct[c] \in Nat
  <2>1. c \in 0..c
    OBVIOUS
  <2> QED
    BY <1>1, <2>1 DEF Places
<1>3. n \in Nat /\ ct[c] <= n
  <2>1. PICK o, l : o = ct[c] /\ l = Len(A)
    OBVIOUS
  <2>2. o \in Nat /\ l \in Nat /\ n = o + l
    BY <1>2, <2>1
  <2>3. n \in Nat /\ o <= n
    BY <2>2
  <2> QED
    BY <2>1, <2>3
<1>4. Places(ct2, c + 1) /\ ct2[c + 1] = n /\ \A i \in 0..c : ct2[i] = ct[i]
  BY <1>1, <1>3, PlacesMore
<1>5. ASSUME NEW i \in 1..(c + 1)
      PROVE  ct2[i] = ct2[i - 1] + Len(CodeAll(ps[i])) /\ CodeIn(code, ct2[i - 1], CodeAll(ps[i]))
  <2>1. CASE i = c + 1
    <3>1. i - 1 = c /\ c \in 0..c
      BY <2>1
    <3>2. ct2[i] = n /\ ct2[i - 1] = ct[c]
      BY <1>4, <2>1, <3>1
    <3> QED
      BY <2>1, <3>1, <3>2
  <2>2. CASE i # c + 1
    <3>1. i \in 1..c /\ i \in 0..c /\ i - 1 \in 0..c
      BY <2>2
    <3>2. ct[i] = ct[i - 1] + Len(CodeAll(ps[i])) /\ CodeIn(code, ct[i - 1], CodeAll(ps[i]))
      BY <3>1 DEF Coded
    <3> QED
      BY <1>4, <3>1, <3>2
  <2> QED
    BY <2>1, <2>2
<1> QED
  BY <1>4, <1>5 DEF Coded

\* The bound b of pattern c is put in the table f, unless it is empty.
Registered(f, g, c, b) == g = IF b # {} THEN Put(f, c, b) ELSE f

\* What registering a bound changes.
LEMMA RegisteredIs ==
  ASSUME NEW f, f = [i \in DOMAIN f |-> f[i]], NEW g, NEW c, NEW b, Registered(f, g, c, b), c \notin DOMAIN f
  PROVE  /\ g = [i \in DOMAIN g |-> g[i]]
         /\ c \in DOMAIN g <=> b # {}
         /\ c \in DOMAIN g => g[c] = b
         /\ \A i : i # c => (i \in DOMAIN g <=> i \in DOMAIN f) /\ (i \in DOMAIN f => g[i] = f[i])
<1>1. CASE b = {}
  BY <1>1 DEF Registered
<1>2. CASE b # {}
  <2>1. g = [i \in DOMAIN f \cup {c} |-> IF i = c THEN b ELSE f[i]]
    BY <1>2 DEF Registered, Put
  <2> QED
    BY <1>2, <2>1
<1> QED
  BY <1>1, <1>2

\* All calls for the current pattern are made: it is compiled, and the rest of
\* the rule's pending patterns is still pending.
LEMMA FinishTables ==
  ASSUME IInv, NEW ps, NEW c, NEW at, NEW ct, NEW m, TablesInv(ps, c, at, ct, m), FinishPattern
  PROVE  \E at2, ct2 : TablesInv(ps, c + 1, at2, ct2, m)'
<1>1. PICK d, p, ids, k : d = cur.rule /\ p = cur.rule.patterns[cur.k].pattern /\ ids = cur.pattern_ids /\ k = cur.k
  OBVIOUS
<1>2. pc = "compile" /\ cur.calls = <<>>
      /\ UNCHANGED <<rules, patterns, next_pattern_id, sub_patterns, atoms, re_code, accepted>>
  BY DEF FinishPattern
<1>3. pc \in CompilePcs
  BY <1>2 DEF CompilePcs
<1>4. /\ pc \in PushedPcs /\ pc \in RulePcs /\ k \in 1..Len(d.patterns) /\ p \in AnyPattern
      /\ ids[k] = c /\ c < next_pattern_id /\ c \in Nat /\ next_pattern_id \in Nat
      /\ ps[c + 1] = Bounded(d, p) /\ CurCalls = Calls(p)
      /\ IsSeq(CurCalls) /\ Len(CurCalls) \in Nat /\ m \in Nat /\ m <= Len(CurCalls)
      /\ \A kind : IsSeq(Made(m, kind))
  BY <1>1, <1>3, CurrentPattern
<1>5. /\ Registered(filesize_bounds, filesize_bounds', c, d.filesize_bounds)
      /\ Registered(header_constraints, header_constraints', c, d.header_constraints)
      /\ cur' = [cur EXCEPT !.pending = cur.pending \ {c}]
      /\ pc' = IF \/ d.filesize_bounds # {} /\ c \in DOMAIN filesize_bounds
                  \/ d.header_constraints # {} /\ c \in DOMAIN header_constraints
               THEN "panic" ELSE "next"
  BY <1>1, <1>4 DEF FinishPattern, Registered, StillPending
<1>6. /\ cur'.rule = d /\ cur'.pattern_ids = ids /\ cur'.snapshot = cur.snapshot /\ cur'.k = k
      /\ cur'.pending = cur.pending \ {c}
  <2>1. DOMAIN cur = CurFields
    BY DEF IInv, Shape
  <2> QED
    BY <1>1, <1>5, <2>1 DEF CurFields
<1>7. /\ cur.pending = c..(next_pattern_id - 1) /\ cur.snapshot.next_pattern_id \in Nat
      /\ cur.snapshot.next_pattern_id <= c
      /\ GivenIds(ps, ids, d, cur.snapshot.next_pattern_id, next_pattern_id)
  BY <1>1, <1>4, PushedFacts
<1>8. c \in cur.pending /\ c \notin DOMAIN filesize_bounds /\ c \notin DOMAIN header_constraints
  <2>1. c \in cur.pending
    BY <1>4, <1>7
  <2>2. cur.pending \cap DOMAIN filesize_bounds = {} /\ cur.pending \cap DOMAIN header_constraints = {}
    BY <1>4 DEF IInv, BoundInv
  <2> QED
    BY <2>1, <2>2
<1>9. pc' = "next"
  BY <1>5, <1>8
<1>10. pc' \in RulePcs /\ pc' \in PushedPcs /\ pc' \notin CompilePcs /\ pc' \notin EarlyPcs
       /\ pc' # "assign" /\ pc' # "compile"
  BY <1>9 DEF RulePcs, PushedPcs, CompilePcs, EarlyPcs
<1>11. Listing(ps)' /\ RuleIds(ps)'
  BY <1>2 DEF TablesInv, IdsInv, Listing, RuleIds
<1>12. Progress(c + 1)'
  <2>1. c + 1 \in 0..next_pattern_id /\ cur.snapshot.next_pattern_id <= c + 1
    BY <1>4, <1>7
  <2>2. (c..(next_pattern_id - 1)) \ {c} = (c + 1)..(next_pattern_id - 1)
    BY <1>4
  <2>3. cur'.pending = (c + 1)..(next_pattern_id - 1)
    BY <1>6, <1>7, <2>2
  <2> QED
    BY <1>2, <1>6, <1>10, <2>1, <2>3 DEF Progress
<1>13. CurIds(ps, c + 1)'
  <2>1. \A j \in 1..k : ids[j] \in cur.pending => j = k
    BY <1>1, <1>4 DEF TablesInv, IdsInv, CurIds
  <2>2. \A j \in 1..k : ids[j] \notin cur'.pending
    BY <1>4, <1>6, <2>1
  <2> QED
    BY <1>2, <1>6, <1>7, <1>10, <2>2 DEF CurIds
<1>14. Order(ps)'
  BY <1>1, <1>2, <1>4, <1>6, <1>10 DEF TablesInv, IdsInv, Order, KeptPatterns, AllUses, CurUses
<1>15. /\ ps[c + 1].filesize_bounds = d.filesize_bounds /\ ps[c + 1].header_constraints = d.header_constraints
       /\ Calls(ps[c + 1]) = CurCalls
  BY <1>4, BoundedIs
<1>16. FilesizeAre(ps, c + 1)'
  <2>1. filesize_bounds = [i \in DOMAIN filesize_bounds |-> filesize_bounds[i]]
    BY DEF TablesInv, IdsInv, BoundsAre, FilesizeAre
  <2>2. /\ filesize_bounds' = [i \in DOMAIN filesize_bounds' |-> filesize_bounds'[i]]
        /\ c \in DOMAIN filesize_bounds' <=> d.filesize_bounds # {}
        /\ c \in DOMAIN filesize_bounds' => filesize_bounds'[c] = d.filesize_bounds
        /\ \A i : i # c => /\ i \in DOMAIN filesize_bounds' <=> i \in DOMAIN filesize_bounds
                           /\ i \in DOMAIN filesize_bounds => filesize_bounds'[i] = filesize_bounds[i]
    BY <1>5, <1>8, <2>1, RegisteredIs
  <2>3. ASSUME NEW i \in 0..(next_pattern_id - 1)
        PROVE  /\ i \in DOMAIN filesize_bounds' <=> i < c + 1 /\ ps[i + 1].filesize_bounds # {}
               /\ i \in DOMAIN filesize_bounds' => filesize_bounds'[i] = ps[i + 1].filesize_bounds
    <3>1. CASE i = c
      <4>1. i < c + 1
        BY <1>4, <3>1
      <4> QED
        BY <1>15, <2>2, <3>1, <4>1
    <3>2. CASE i # c
      <4>1. i < c + 1 <=> i < c
        BY <1>4, <3>2
      <4>2. /\ i \in DOMAIN filesize_bounds <=> i < c /\ ps[i + 1].filesize_bounds # {}
            /\ i \in DOMAIN filesize_bounds => filesize_bounds[i] = ps[i + 1].filesize_bounds
        BY DEF TablesInv, IdsInv, BoundsAre, FilesizeAre
      <4> QED
        BY <2>2, <3>2, <4>1, <4>2
    <3> QED
      BY <3>1, <3>2
  <2> QED
    BY <1>2, <2>2, <2>3 DEF FilesizeAre
<1>17. HeadersAre(ps, c + 1)'
  <2>1. header_constraints = [i \in DOMAIN header_constraints |-> header_constraints[i]]
    BY DEF TablesInv, IdsInv, BoundsAre, HeadersAre
  <2>2. /\ header_constraints' = [i \in DOMAIN header_constraints' |-> header_constraints'[i]]
        /\ c \in DOMAIN header_constraints' <=> d.header_constraints # {}
        /\ c \in DOMAIN header_constraints' => header_constraints'[c] = d.header_constraints
        /\ \A i : i # c => /\ i \in DOMAIN header_constraints' <=> i \in DOMAIN header_constraints
                           /\ i \in DOMAIN header_constraints => header_constraints'[i] = header_constraints[i]
    BY <1>5, <1>8, <2>1, RegisteredIs
  <2>3. ASSUME NEW i \in 0..(next_pattern_id - 1)
        PROVE  /\ i \in DOMAIN header_constraints' <=> i < c + 1 /\ ps[i + 1].header_constraints # {}
               /\ i \in DOMAIN header_constraints' => header_constraints'[i] = ps[i + 1].header_constraints
    <3>1. CASE i = c
      <4>1. i < c + 1
        BY <1>4, <3>1
      <4> QED
        BY <1>15, <2>2, <3>1, <4>1
    <3>2. CASE i # c
      <4>1. i < c + 1 <=> i < c
        BY <1>4, <3>2
      <4>2. /\ i \in DOMAIN header_constraints <=> i < c /\ ps[i + 1].header_constraints # {}
            /\ i \in DOMAIN header_constraints => header_constraints[i] = ps[i + 1].header_constraints
        BY DEF TablesInv, IdsInv, BoundsAre, HeadersAre
      <4> QED
        BY <2>2, <3>2, <4>1, <4>2
    <3> QED
      BY <3>1, <3>2
  <2> QED
    BY <1>2, <2>2, <2>3 DEF HeadersAre
<1>18. \A kind : Made(m, kind) = CallsOf(ps[c + 1], kind)
  <2>1. Len(cur.calls) = Len(CurCalls) - m /\ Len(cur.calls) = 0
    BY <1>2, <1>3, EmptyIs DEF TablesInv, Left
  <2>2. m = Len(CurCalls)
    BY <1>4, <2>1
  <2>3. Truncate(CurCalls, m) = CurCalls
    BY <1>4, <2>2, TruncateAll
  <2> QED
    BY <1>15, <2>3 DEF Made, CallsOf
<1>19. Made(m, Add) = Adds(ps[c + 1]) /\ CodeFor(Made(m, "c_regexp")) = CodeAll(ps[c + 1])
  BY <1>18 DEF Adds, CodeAll
<1>20. PICK A, C, n, l : A = Adds(ps[c + 1]) /\ C = CodeAll(ps[c + 1]) /\ n = Len(sub_patterns) /\ l = Len(re_code)
  OBVIOUS
<1>21. PICK at2, ct2 : at2 = More(at, c, n) /\ ct2 = More(ct, c, l)
  OBVIOUS
<1>22. /\ Compiled(ps, c, at, sub_patterns) /\ n = at[c] + Len(A) /\ Segment(sub_patterns, at[c], c, A)
       /\ cur.snapshot.sub_patterns_len = at[cur.snapshot.next_pattern_id]
  BY <1>3, <1>4, <1>19, <1>20 DEF TablesInv, SegmentsInv, Subs, MadeSubs
<1>23. /\ Coded(ps, c, ct, re_code) /\ l = ct[c] + Len(C) /\ CodeIn(re_code, ct[c], C)
       /\ cur.snapshot.re_code_len = ct[cur.snapshot.next_pattern_id]
  BY <1>3, <1>4, <1>19, <1>20 DEF TablesInv, InstructionsInv, Codes, MadeCode
<1>24. Len(A) \in Nat /\ Len(C) \in Nat
  <2>1. IsSeq(A)
    BY <1>4, <1>19, <1>20
  <2>2. IsSeq(C)
    <3>1. IsSeq(Made(m, "c_regexp"))
      BY <1>4
    <3> QED
      BY <1>19, <1>20, <3>1, CodeForIs
  <2> QED
    BY <2>1, <2>2, SeqIs
<1>25. Compiled(ps, c + 1, at2, sub_patterns) /\ at2[c + 1] = n /\ \A i \in 0..c : at2[i] = at[i]
  BY <1>4, <1>20, <1>21, <1>22, <1>24, CompiledMore
<1>26. Coded(ps, c + 1, ct2, re_code) /\ ct2[c + 1] = l /\ \A i \in 0..c : ct2[i] = ct[i]
  BY <1>4, <1>20, <1>21, <1>23, <1>24, CodedMore
<1>27. cur.snapshot.next_pattern_id \in 0..c
  BY <1>4, <1>7
<1>28. SegmentsInv(ps, c + 1, at2, m)'
  BY <1>2, <1>6, <1>10, <1>20, <1>22, <1>25, <1>27 DEF SegmentsInv, Subs, MadeSubs
<1>29. InstructionsInv(ps, c + 1, ct2, m)'
  <2>1. Codes(ps, c + 1, ct2)' /\ MadeCode(c + 1, ct2, m)'
    BY <1>2, <1>6, <1>10, <1>20, <1>23, <1>26, <1>27 DEF Codes, MadeCode
  <2>2. AtomCodes(ps, c + 1)'
    BY <1>2, <1>10 DEF TablesInv, InstructionsInv, AtomCodes
  <2> QED
    BY <2>1, <2>2 DEF InstructionsInv
<1>30. Left(m)'
  BY <1>10 DEF Left
<1> QED
  BY <1>11, <1>12, <1>13, <1>14, <1>16, <1>17, <1>28, <1>29, <1>30 DEF TablesInv, IdsInv, BoundsAre

-----------------------------------------------------------------------------
(* The end of a rule, and the invariant of the specification               *)


\* The rule is accepted: nothing of it is pending, and the uses of the accepted
\* rules are those of the rules before it and its own.
LEMMA CommitTables ==
  ASSUME IInv, NEW ps, NEW c, NEW at, NEW ct, NEW m, TablesInv(ps, c, at, ct, m), CommitRule
  PROVE  TablesInv(ps, c, at, ct, m)'
<1>1. PICK d, ids, a : d = cur.rule /\ ids = cur.pattern_ids /\ a = [rule |-> cur.rule, namespace |-> namespace.id]
  OBVIOUS
<1>2. /\ pc = "next" /\ cur.k = Len(d.patterns) /\ accepted' = Append(accepted, a)
      /\ pc' = IF d.ident \in DOMAIN symbol_table[2] THEN "panic" ELSE "items"
      /\ UNCHANGED <<rules, patterns, next_pattern_id, sub_patterns, atoms, re_code,
                     filesize_bounds, header_constraints>>
  BY <1>1 DEF CommitRule, tables
<1>3. pc \in PushedPcs /\ pc \notin CompilePcs
  BY <1>2 DEF PushedPcs, CompilePcs
<1>4. /\ pc \in RulePcs /\ d \in Decls /\ Len(d.patterns) \in Nat
      /\ IsSeq(ids) /\ Len(ids) = Len(d.patterns)
      /\ GivenIds(ps, ids, d, cur.snapshot.next_pattern_id, next_pattern_id)
      /\ next_pattern_id \in Nat /\ c \in Nat /\ c <= next_pattern_id
      /\ cur.snapshot.next_pattern_id \in Nat /\ cur.snapshot.next_pattern_id <= c
      /\ cur.pending = c..(next_pattern_id - 1)
  BY <1>1, <1>3, PushedFacts
<1>5. pc' = "items"
  BY <1>1, <1>2, <1>4 DEF IInv, NameInv
<1>6. /\ pc' \notin RulePcs /\ pc' \notin PushedPcs /\ pc' \notin CompilePcs /\ pc' \notin EarlyPcs
      /\ pc' # "assign" /\ pc' # "compile"
  BY <1>5 DEF RulePcs, PushedPcs, CompilePcs, EarlyPcs
<1>7. c = next_pattern_id
  <2> SUFFICES ASSUME c < next_pattern_id PROVE FALSE
    BY <1>4
  <2>1. c \in cur.pending /\ c \in cur.snapshot.next_pattern_id..(next_pattern_id - 1)
    BY <1>4
  <2>2. PICK j \in 1..Len(ids) : ids[j] = c
    BY <1>4, <2>1 DEF GivenIds
  <2>3. j \in 1..cur.k
    BY <1>2, <1>4
  <2> QED
    BY <1>1, <1>2, <1>3, <2>1, <2>2, <2>3 DEF TablesInv, IdsInv, CurIds
<1>8. Listing(ps)' /\ BoundsAre(ps, c)'
  BY <1>2 DEF TablesInv, IdsInv, Listing, BoundsAre, FilesizeAre, HeadersAre
<1>9. Progress(c)'
  BY <1>2, <1>4, <1>6, <1>7 DEF Progress
<1>10. CurIds(ps, c)' /\ Left(m)'
  BY <1>6 DEF CurIds, Left
<1>11. PICK n : n = Len(accepted)
  OBVIOUS
<1>12. /\ IsSeq(accepted) /\ n \in Nat /\ Len(rules) = n + 1 /\ \A i \in 1..n : accepted[i].rule \in Decls
       /\ rules[n + 1] = [ident |-> d.ident, namespace |-> namespace.id, patterns |-> ids]
  BY <1>1, <1>3, <1>11, SeqIs DEF IInv, RuleInv, RuleIs
<1>13. /\ IsSeq(accepted') /\ Len(accepted') = n + 1 /\ accepted'[n + 1] = a
       /\ \A i \in 1..n : accepted'[i] = accepted[i]
  BY <1>2, <1>11, <1>12, AppendIs
<1>14. a.rule = d /\ a.namespace = namespace.id
  BY <1>1
<1>15. \A i \in 1..(n + 1) : i \in 1..n \/ i = n + 1
  BY <1>12
<1>16. RuleIds(ps)'
  <2>1. EntryIs(ps, rules[n + 1], a)
    <3>1. PICK r : r = rules[n + 1]
      OBVIOUS
    <3>2. r.patterns = ids /\ r = [ident |-> a.rule.ident, namespace |-> a.namespace, patterns |-> r.patterns]
      BY <1>12, <1>14, <3>1
    <3>3. \A k \in 1..Len(a.rule.patterns) : ps[r.patterns[k] + 1] = UseAt(a.rule, k)
      BY <1>4, <1>14, <3>2 DEF GivenIds
    <3> QED
      BY <3>1, <3>2, <3>3 DEF EntryIs
  <2>2. \A i \in 1..n : EntryIs(ps, rules[i], accepted[i])
    BY <1>11 DEF TablesInv, IdsInv, RuleIds
  <2> QED
    BY <1>2, <1>13, <1>15, <2>1, <2>2 DEF RuleIds
<1>17. AllUses' = AllUses \o CurUses
  <2>1. PICK f, g, u : f = UsesList(accepted') /\ g = UsesList(accepted) /\ u = CurUses
    OBVIOUS
  <2>2. \A i \in 1..(n + 1) : accepted'[i].rule \in Decls
    BY <1>4, <1>12, <1>13, <1>14, <1>15
  <2>3. AreSeqs(f) /\ Len(f) = n + 1 /\ \A i \in 1..(n + 1) : f[i] = UsesOf(accepted'[i])
    BY <1>13, <2>1, <2>2, UsesListIs
  <2>4. AreSeqs(g) /\ Len(g) = n /\ \A i \in 1..n : g[i] = UsesOf(accepted[i])
    BY <1>11, <1>12, <2>1, UsesListIs
  <2>5. IsSeq(g) /\ Len(f) = Len(g) + 1 /\ \A i \in 1..Len(g) : g[i] = f[i]
    BY <1>12, <1>13, <2>3, <2>4 DEF AreSeqs
  <2>6. FlattenSeq(f) = FlattenSeq(g) \o f[Len(f)]
    BY <2>3, <2>5, FlattenLast
  <2>7. f[Len(f)] = UsesOf(a)
    BY <1>12, <1>13, <2>3
  <2>8. UsesOf(a) = u
    <3>1. DOMAIN d.patterns = 1..Len(ids)
      BY <1>4, CompilerAssumption
    <3> QED
      BY <1>1, <1>14, <2>1, <3>1 DEF UsesOf, CurUses, UsesFor, UseAt
  <2>9. AllUses' = FlattenSeq(f) /\ AllUses = FlattenSeq(g)
    BY <2>1 DEF AllUses, UsesList
  <2> QED
    BY <2>1, <2>6, <2>7, <2>8, <2>9
<1>18. Order(ps)'
  <2>1. Firsts(AllUses \o CurUses) = Prefix(ps, next_pattern_id)
    BY <1>4 DEF TablesInv, IdsInv, Order
  <2>2. KeptPatterns' = next_pattern_id
    BY <1>2, <1>6 DEF KeptPatterns
  <2> QED
    BY <1>2, <1>6, <1>17, <2>1, <2>2 DEF Order
<1>19. SegmentsInv(ps, c, at, m)'
  BY <1>2, <1>3, <1>6 DEF TablesInv, SegmentsInv, Subs, MadeSubs
<1>20. InstructionsInv(ps, c, ct, m)'
  BY <1>2, <1>3, <1>6 DEF TablesInv, InstructionsInv, Codes, MadeCode, AtomCodes
<1> QED
  BY <1>8, <1>9, <1>10, <1>16, <1>18, <1>19, <1>20 DEF TablesInv, IdsInv

\* The tables are empty.
LEMMA InitTables ==
  ASSUME Init
  PROVE  TInv
<1>1. /\ rules = <<>> /\ patterns = Empty /\ next_pattern_id = 0 /\ sub_patterns = <<>> /\ atoms = <<>>
      /\ re_code = <<>> /\ filesize_bounds = Empty /\ header_constraints = Empty /\ pc = "idle" /\ accepted = <<>>
  BY DEF Init
<1>2. /\ pc \notin RulePcs /\ pc \notin PushedPcs /\ pc \notin CompilePcs /\ pc \notin EarlyPcs
      /\ pc # "assign" /\ pc # "compile"
  BY <1>1 DEF RulePcs, PushedPcs, CompilePcs, EarlyPcs
<1>3. DOMAIN Empty = {} /\ Empty = [i \in DOMAIN Empty |-> Empty[i]]
  BY DEF Empty
<1>4. Len(<<>>) = 0 /\ IsSeq(<<>>) /\ \A i \in 1..0 : FALSE
  BY EmptyIs
<1>5. PICK at : at = [i \in Nat |-> 0]
  OBVIOUS
<1>6. at[0] = 0
  BY <1>5
<1>7. Listing(<<>>) /\ Progress(0) /\ CurIds(<<>>, 0) /\ RuleIds(<<>>) /\ Left(0)
  BY <1>1, <1>2, <1>3, <1>4 DEF Listing, Progress, CurIds, RuleIds, Left
<1>8. BoundsAre(<<>>, 0)
  <2>1. \A i \in 0..(0 - 1) : FALSE
    OBVIOUS
  <2> QED
    BY <1>1, <1>3, <2>1 DEF BoundsAre, FilesizeAre, HeadersAre
<1>9. Order(<<>>)
  <2>1. PICK f : f = UsesList(accepted)
    OBVIOUS
  <2>2. AreSeqs(f) /\ Len(f) = 0
    BY <1>1, <1>4, <2>1, UsesListIs
  <2>3. f = <<>>
    BY <2>2, SeqIs DEF AreSeqs
  <2>4. AllUses = <<>>
    BY <2>1, <2>3, FlattenEmpty DEF AllUses, UsesList
  <2>5. PICK g : g = Prefix(<<>>, 0)
    OBVIOUS
  <2>6. IsSeq(g) /\ Len(g) = 0
    BY <2>5, PrefixIs
  <2>7. Prefix(<<>>, 0) = <<>>
    BY <2>5, <2>6, SeqIs
  <2> QED
    BY <1>1, <1>2, <2>4, <2>7, FirstsEmpty DEF Order, KeptPatterns
<1>10. Places(at, 0)
  <2>1. \A i \in 0..0 : i = 0 /\ \A j \in i..0 : j = 0
    OBVIOUS
  <2> QED
    BY <1>6, <2>1 DEF Places
<1>11. SegmentsInv(<<>>, 0, at, 0)
  <2>1. Compiled(<<>>, 0, at, sub_patterns)
    BY <1>4, <1>6, <1>10 DEF Compiled
  <2> QED
    BY <1>1, <1>2, <1>4, <1>6, <2>1 DEF SegmentsInv, Subs, MadeSubs
<1>12. InstructionsInv(<<>>, 0, at, 0)
  <2>1. Coded(<<>>, 0, at, re_code)
    BY <1>4, <1>10 DEF Coded
  <2> QED
    BY <1>1, <1>2, <1>4, <1>6, <2>1 DEF InstructionsInv, Codes, MadeCode, AtomCodes
<1>13. TablesInv(<<>>, 0, at, at, 0)
  BY <1>7, <1>8, <1>9, <1>11, <1>12 DEF TablesInv, IdsInv
<1> QED
  BY <1>13 DEF TInv

LEMMA StutterTables ==
  ASSUME TInv, UNCHANGED vars
  PROVE  TInv'
<1>1. PICK ps, c, at, ct, m : TablesInv(ps, c, at, ct, m)
  BY DEF TInv
<1>2. UNCHANGED <<rules, patterns, next_pattern_id, sub_patterns, atoms, re_code,
                  filesize_bounds, header_constraints, pc, cur, accepted>>
  BY DEF vars, tables
<1>3. IdsInv(ps, c)' /\ Left(m)'
  BY <1>1, <1>2 DEF TablesInv, IdsInv, Listing, Progress, CurIds, RuleIds, Order, KeptPatterns, AllUses,
                    CurUses, BoundsAre, FilesizeAre, HeadersAre, Left, CurCalls
<1>4. SegmentsInv(ps, c, at, m)' /\ InstructionsInv(ps, c, ct, m)'
  BY <1>1, <1>2 DEF TablesInv, SegmentsInv, Subs, MadeSubs, Made, CurCalls, InstructionsInv, Codes,
                    MadeCode, AtomCodes
<1>5. TablesInv(ps, c, at, ct, m)'
  BY <1>3, <1>4 DEF TablesInv
<1> QED
  BY <1>5 DEF TInv

\* Every step keeps the invariant.
LEMMA StepTables ==
  ASSUME IInv, TInv, Step
  PROVE  TInv'
<1>1. PICK ps, c, at, ct, m : TablesInv(ps, c, at, ct, m)
  BY DEF TInv
<1>2. ASSUME NEW ps2, NEW c2, NEW at2, NEW ct2, NEW m2, TablesInv(ps2, c2, at2, ct2, m2)'
      PROVE  TInv'
  BY <1>2 DEF TInv
<1>3. CASE Outside
  BY <1>1, <1>2, <1>3, OutsideTables
<1>4. CASE \E d \in Decls : Takes(d)
  BY <1>1, <1>2, <1>4, TakesTables
<1>5. CASE Rollback
  <2>1. PICK n : n = cur.snapshot.next_pattern_id
    OBVIOUS
  <2>2. TablesInv(ps, n, at, ct, m)'
    BY <1>1, <1>5, <2>1, RollbackTables
  <2> QED
    BY <1>2, <2>2
<1>6. CASE Assigns
  BY <1>1, <1>2, <1>6, AssignsTables
<1>7. CASE Passes \/ ConditionFromAst
  BY <1>1, <1>2, <1>7, EarlyTables
<1>8. CASE PushRule
  BY <1>1, <1>2, <1>8, PushTables
<1>9. CASE NextPattern
  BY <1>1, <1>2, <1>9, NextPatternTables
<1>10. CASE CRegexp
  BY <1>1, <1>2, <1>10, CRegexpTables
<1>11. CASE AddSubPattern
  BY <1>1, <1>2, <1>11, AddSubPatternTables
<1>12. CASE FinishPattern
  BY <1>1, <1>2, <1>12, FinishTables
<1>13. CASE CommitRule
  BY <1>1, <1>2, <1>13, CommitTables
<1> QED
  BY <1>3, <1>4, <1>5, <1>6, <1>7, <1>8, <1>9, <1>10, <1>11, <1>12, <1>13, StepIs DEF Inside

\* The tables are, at every step of compiling and failing rules, those of the
\* accepted rules and of what is done of the current one.
THEOREM TablesInvariant == Spec => []TInv
<1>1. Init => TInv
  BY InitTables
<1>2. IInv /\ TInv /\ [Next]_vars => TInv'
  <2> SUFFICES ASSUME IInv, TInv, [Next]_vars PROVE TInv'
    OBVIOUS
  <2>1. CASE UNCHANGED vars
    BY <2>1, StutterTables
  <2>2. CASE Next
    <3>1. Step
      BY <2>2, NextIsStep DEF IInv
    <3> QED
      BY <3>1, StepTables
  <2> QED
    BY <2>1, <2>2
<1> QED
  BY <1>1, <1>2, CompilerInvariant, PTL DEF Spec

\* A sequence that has the sequences ss one after the other, and nothing else.
LEMMA FlattenIsWhole ==
  ASSUME NEW ss, AreSeqs(ss), NEW at, Offsets(at, ss), \A i \in 0..Len(ss) : at[i] \in Nat,
         NEW s, IsSeq(s), Len(s) = at[Len(ss)],
         \A i \in 1..Len(ss) : \A j \in 1..Len(ss[i]) : s[at[i - 1] + j] = ss[i][j]
  PROVE  s = FlattenSeq(ss)
<1>1. PICK t, N : t = FlattenSeq(ss) /\ N = Len(ss)
  OBVIOUS
<1>2. N \in Nat
  BY <1>1, SeqIs DEF AreSeqs
<1>3. /\ IsSeq(t) /\ Len(t) = at[N]
      /\ \A i \in 1..N : \A j \in 1..Len(ss[i]) : t[at[i - 1] + j] = ss[i][j]
  BY <1>1, FlattenPoints
<1>4. at[0] = 0 /\ \A i \in 1..N : at[i] = at[i - 1] + Len(ss[i])
  BY <1>1 DEF Offsets
<1>5. \A i \in 0..N : at[i] \in Nat
  BY <1>1
<1>6. ASSUME NEW x \in 1..Len(s) PROVE s[x] = t[x]
  <2>1. at[N] \in Nat
    BY <1>2, <1>5
  <2>2. x \in 1..at[N] /\ x \in Nat /\ x > 0 /\ x <= at[N]
    <3>1. x \in 1..at[N]
      BY <1>1
    <3> QED
      BY <2>1, <3>1
  <2>3. N # 0
    BY <1>4, <2>2
  <2>4. PICK T : T = {i \in 1..N : x <= at[i]}
    OBVIOUS
  <2>5. T \subseteq Nat /\ N \in T
    BY <1>2, <2>2, <2>3, <2>4
  <2>6. PICK i \in T : \A y \in T : i <= y
    BY <2>5, LeastIs
  <2>7. i \in 1..N /\ x <= at[i] /\ i \in 0..N /\ i - 1 \in 0..N
    BY <1>2, <2>4, <2>6
  <2>8. at[i - 1] < x
    <3>1. CASE i = 1
      <4>1. at[i - 1] = 0
        BY <1>4, <3>1
      <4> QED
        BY <2>2, <4>1
    <3>2. CASE i # 1
      <4>1. i - 1 \in 1..N /\ ~(i <= i - 1)
        BY <1>2, <2>7, <3>2
      <4>2. i - 1 \notin T
        BY <2>6, <4>1
      <4>3. ~(x <= at[i - 1]) /\ at[i - 1] \in Nat
        BY <1>5, <2>4, <2>7, <4>1, <4>2
      <4> QED
        BY <2>2, <4>3
    <3> QED
      BY <3>1, <3>2
  <2>9. PICK o, l, j : o = at[i - 1] /\ l = Len(ss[i]) /\ j = x - o
    OBVIOUS
  <2>10. o \in Nat /\ l \in Nat /\ at[i] = o + l
    <3>1. IsSeq(ss[i])
      BY <1>1, <2>7 DEF AreSeqs
    <3> QED
      BY <1>4, <1>5, <2>7, <2>9, <3>1, SeqIs
  <2>11. j \in 1..l /\ x = o + j
    <3>1. x <= o + l /\ o < x
      BY <2>7, <2>8, <2>9, <2>10
    <3> QED
      BY <2>2, <2>9, <2>10, <3>1
  <2>12. s[o + j] = ss[i][j] /\ t[o + j] = ss[i][j]
    BY <1>1, <1>3, <2>7, <2>9, <2>11
  <2> QED
    BY <2>11, <2>12
<1>7. Len(s) = Len(t)
  BY <1>1, <1>3
<1>8. s = t
  BY <1>3, <1>6, <1>7, SameSeq
<1> QED
  BY <1>1, <1>8

-----------------------------------------------------------------------------
(* What the invariant says when no rule is being compiled                  *)

\* All patterns are compiled, and D has them in the order of their ids.
Rested(D, at, ct) ==
  /\ IsSeq(D) /\ Len(D) = next_pattern_id /\ next_pattern_id \in Nat
  /\ D = Distinct
  /\ Listing(D)
  /\ \A i \in 1..next_pattern_id : D[i] \in AnyPattern
  /\ RuleIds(D)
  /\ BoundsAre(D, next_pattern_id)
  /\ Compiled(D, next_pattern_id, at, sub_patterns) /\ Len(sub_patterns) = at[next_pattern_id]
  /\ Coded(D, next_pattern_id, ct, re_code) /\ Len(re_code) = ct[next_pattern_id]
  /\ \A i \in 1..Len(atoms) : AtomCode(D, atoms[i], sub_patterns, re_code)

\* That is the case, for some places where the parts of the patterns begin.
LEMMA RestedIs ==
  ASSUME IInv, TInv, AtRest
  PROVE  \E D, at, ct : Rested(D, at, ct)
<1>1. pc \notin RulePcs /\ pc \notin CompilePcs /\ pc \notin PushedPcs
  BY DEF AtRest, RulePcs, CompilePcs, PushedPcs
<1>2. PICK ps, c, at, ct, m : TablesInv(ps, c, at, ct, m)
  BY DEF TInv
<1>3. PICK n, D : n = next_pattern_id /\ D = Prefix(ps, n)
  OBVIOUS
<1>4. n \in Nat /\ c = n
  BY <1>1, <1>2, <1>3 DEF TablesInv, IdsInv, Progress, IInv, PatternInv
<1>5. IsSeq(D) /\ Len(D) = n /\ \A i \in 1..n : D[i] = ps[i]
  BY <1>3, <1>4, PrefixIs
<1>6. Agree(D, ps, n)
  BY <1>5 DEF Agree
<1>7. D = Distinct
  BY <1>1, <1>2, <1>3 DEF TablesInv, IdsInv, Order, KeptPatterns, Distinct
<1>8. \A p \in DOMAIN patterns : patterns[p] \in 0..(n - 1) /\ patterns[p] + 1 \in 1..n
  BY <1>3, <1>4 DEF IInv, PatternInv
<1>9. Listing(D)
  BY <1>2, <1>3, <1>5, <1>8 DEF TablesInv, IdsInv, Listing
<1>10. \A i \in 1..n : D[i] \in AnyPattern
  BY <1>3, <1>9, ListedAreAny
<1>11. RuleIds(D)
  <2>1. ASSUME NEW i \in 1..Len(accepted) PROVE EntryIs(D, rules[i], accepted[i])
    <3>1. EntryIs(ps, rules[i], accepted[i])
      BY <1>2 DEF TablesInv, IdsInv, RuleIds
    <3>2. \A k \in 1..Len(accepted[i].rule.patterns) : rules[i].patterns[k] \in 0..(n - 1)
      BY <1>1, <1>3 DEF IInv, RuleInv, RuleIs, Uses, KeptPatterns
    <3>3. \A k \in 1..Len(accepted[i].rule.patterns) : rules[i].patterns[k] + 1 \in 1..n
      BY <1>4, <3>2
    <3> QED
      BY <1>5, <3>1, <3>3 DEF EntryIs
  <2> QED
    BY <2>1 DEF RuleIds
<1>12. BoundsAre(D, n)
  <2>1. \A i \in 0..(n - 1) : D[i + 1] = ps[i + 1]
    BY <1>4, <1>5
  <2>2. FilesizeAre(ps, n) /\ HeadersAre(ps, n)
    BY <1>2, <1>4 DEF TablesInv, IdsInv, BoundsAre
  <2>3. FilesizeAre(D, n)
    BY <1>3, <2>1, <2>2 DEF FilesizeAre
  <2>4. HeadersAre(D, n)
    BY <1>3, <2>1, <2>2 DEF HeadersAre
  <2> QED
    BY <2>3, <2>4 DEF BoundsAre
<1>13. Compiled(D, n, at, sub_patterns) /\ Len(sub_patterns) = at[n]
  <2>1. Compiled(ps, n, at, sub_patterns) /\ Len(sub_patterns) = at[n]
    BY <1>1, <1>2, <1>4 DEF TablesInv, SegmentsInv, Subs
  <2> QED
    BY <1>6, <2>1, CompiledAgrees
<1>14. Coded(D, n, ct, re_code) /\ Len(re_code) = ct[n]
  <2>1. Coded(ps, n, ct, re_code) /\ Len(re_code) = ct[n]
    BY <1>1, <1>2, <1>4 DEF TablesInv, InstructionsInv, Codes
  <2> QED
    BY <1>6, <2>1, CompiledAgrees
<1>15. ASSUME NEW i \in 1..Len(atoms) PROVE AtomCode(D, atoms[i], sub_patterns, re_code)
  <2>1. AtomCode(ps, atoms[i], sub_patterns, re_code)
    BY <1>2 DEF TablesInv, InstructionsInv, AtomCodes
  <2>2. PICK s : s = atoms[i].sub_pattern + 1
    OBVIOUS
  <2>3. IsSeq(sub_patterns) /\ atoms[i].sub_pattern \in 0..(Len(sub_patterns) - 1)
    BY DEF IInv, SubInv, Reach
  <2>4. s \in 1..Len(sub_patterns)
    BY <2>2, <2>3, SeqIs
  <2>5. sub_patterns[s].pattern \in 0..(n - 1)
    BY <1>3, <2>4 DEF IInv, SubInv, Reach
  <2>6. sub_patterns[s].pattern + 1 \in 1..n
    BY <1>4, <2>5
  <2> QED
    BY <1>5, <2>1, <2>2, <2>6 DEF AtomCode
<1> QED
  BY <1>3, <1>4, <1>5, <1>7, <1>9, <1>10, <1>11, <1>12, <1>13, <1>14, <1>15 DEF Rested

\* The sub-patterns of a split pattern are whole chains.
LEMMA ChainsWhole ==
  ASSUME IInv, TInv
  PROVE  ChainsAreWhole
<1> SUFFICES ASSUME AtRest, NEW p \in DOMAIN patterns, Len(p.pieces) > 1, NEW w \in Widths(p)
             PROVE  Whole(LinksOf(patterns[p], w), p)
  BY DEF ChainsAreWhole, Whole, LinksOf, Widths
<1>1. PICK D, at, ct : Rested(D, at, ct)
  BY RestedIs
<1>2. PICK n, id : n = next_pattern_id /\ id = patterns[p]
  OBVIOUS
<1>3. n \in Nat /\ id \in 0..(n - 1) /\ p \in AnyPattern
  BY <1>2 DEF IInv, PatternInv
<1>4. PICK i : i = id + 1
  OBVIOUS
<1>5. i \in 1..n /\ i - 1 = id /\ id \in 0..n /\ i \in 0..n /\ n \in i..n /\ n \in 0..n
  BY <1>3, <1>4
<1>6. D[i] = p
  BY <1>1, <1>2, <1>4 DEF Rested, Listing
<1>7. Compiled(D, n, at, sub_patterns) /\ Len(sub_patterns) = at[n]
  BY <1>1, <1>2 DEF Rested
<1>8. at[i] = at[i - 1] + Len(Adds(D[i])) /\ Segment(sub_patterns, at[i - 1], i - 1, Adds(D[i]))
  BY <1>5, <1>7 DEF Compiled
<1>9. at[id] \in Nat /\ at[i] <= at[n]
  BY <1>5, <1>7 DEF Compiled, Places
<1>10. PICK o, l : o = at[id] /\ l = Len(Adds(p))
  OBVIOUS
<1>11. o \in Nat /\ at[i] = o + l /\ Segment(sub_patterns, o, id, Adds(p)) /\ o + l <= Len(sub_patterns)
  BY <1>5, <1>6, <1>7, <1>8, <1>9, <1>10
<1>12. Owned(sub_patterns, Len(sub_patterns), o, l, id)
  <2>1. ASSUME NEW x \in 1..Len(sub_patterns) PROVE sub_patterns[x].pattern = id <=> o < x /\ x <= o + l
    <3>1. x \in 1..at[n]
      BY <1>7
    <3>2. sub_patterns[x].pattern = i - 1 <=> at[i - 1] < x /\ x <= at[i]
      BY <1>5, <1>7, <3>1 DEF Compiled
    <3> QED
      BY <1>5, <1>10, <1>11, <3>2
  <2> QED
    BY <2>1 DEF Owned
<1>13. IsSeq(sub_patterns)
  BY DEF IInv, SubInv
<1> QED
  BY <1>2, <1>3, <1>10, <1>11, <1>12, <1>13, ChainIsWhole

-----------------------------------------------------------------------------
(* The tables are those of the accepted rules                              *)

IdIn(D, p) == CHOOSE i \in DOMAIN D : D[i] = p

\* Equal patterns have one id.
LEMMA IdInIs ==
  ASSUME NEW D, NEW at, NEW ct, Rested(D, at, ct), NEW i \in 1..next_pattern_id, NEW p, p = D[i]
  PROVE  IdIn(D, p) = i
<1>1. PICK n : n = next_pattern_id
  OBVIOUS
<1>2. DOMAIN D = 1..n /\ n \in Nat
  BY <1>1, SeqIs DEF Rested
<1>3. \A j \in 1..n : patterns[D[j]] = j - 1
  BY <1>1 DEF Rested, Listing
<1>4. ASSUME NEW j \in 1..n, D[j] = p PROVE j = i
  <2>1. j - 1 = i - 1
    BY <1>1, <1>3, <1>4
  <2> QED
    BY <1>1, <1>2, <2>1
<1>5. i \in DOMAIN D
  BY <1>1, <1>2
<1> QED
  BY <1>2, <1>4, <1>5 DEF IdIn

\* The entries of the table of rules.
IdsFor(D, a) == [k \in DOMAIN UsesOf(a) |-> IdIn(D, UsesOf(a)[k]) - 1]
RulesFor(D) == [i \in DOMAIN accepted |-> [ident |-> accepted[i].rule.ident,
                                           namespace |-> accepted[i].namespace,
                                           patterns |-> IdsFor(D, accepted[i])]]

\* The table of rules has the accepted rules with their patterns' ids.
LEMMA RulesExact ==
  ASSUME IInv, AtRest, NEW D, NEW at, NEW ct, Rested(D, at, ct)
  PROVE  rules = RulesFor(D)
<1>1. pc \notin PushedPcs /\ pc \notin RulePcs
  BY DEF AtRest, PushedPcs, RulePcs
<1>2. IsSeq(rules) /\ IsSeq(accepted) /\ Len(rules) = Len(accepted)
  BY <1>1 DEF IInv, RuleInv
<1>3. DOMAIN rules = 1..Len(accepted) /\ DOMAIN accepted = 1..Len(accepted)
  BY <1>2, SeqIs
<1>4. rules = [i \in DOMAIN rules |-> rules[i]]
  <2>1. PICK S : rules \in Seq(S)
    BY <1>2 DEF IsSeq
  <2> QED
    BY <2>1
<1>5. ASSUME NEW i \in 1..Len(accepted)
      PROVE  rules[i] = [ident |-> accepted[i].rule.ident, namespace |-> accepted[i].namespace,
                         patterns |-> IdsFor(D, accepted[i])]
  <2>1. PICK r, a, d, ids : r = rules[i] /\ a = accepted[i] /\ d = accepted[i].rule /\ ids = rules[i].patterns
    OBVIOUS
  <2>2. /\ r = [ident |-> a.rule.ident, namespace |-> a.namespace, patterns |-> ids]
        /\ \A k \in 1..Len(d.patterns) : D[ids[k] + 1] = UseAt(d, k)
    BY <2>1 DEF Rested, RuleIds, EntryIs
  <2>3. /\ d \in Decls /\ IsSeq(ids) /\ Len(ids) = Len(d.patterns)
        /\ \A k \in 1..Len(d.patterns) : ids[k] \in 0..(next_pattern_id - 1)
    BY <1>1, <2>1 DEF IInv, RuleInv, RuleIs, Uses, KeptPatterns
  <2>4. DOMAIN d.patterns = 1..Len(d.patterns)
    BY <2>3, CompilerAssumption
  <2>5. PICK u : u = UsesOf(a)
    OBVIOUS
  <2>6. DOMAIN u = 1..Len(d.patterns) /\ \A k \in 1..Len(d.patterns) : u[k] = UseAt(d, k)
    BY <2>1, <2>4, <2>5 DEF UsesOf, UseAt
  <2>7. ASSUME NEW k \in 1..Len(d.patterns) PROVE IdIn(D, u[k]) - 1 = ids[k]
    <3>1. PICK j : j = ids[k] + 1
      OBVIOUS
    <3>2. j \in 1..next_pattern_id /\ j - 1 = ids[k]
      <4>1. next_pattern_id \in Nat
        BY DEF IInv, PatternInv
      <4>2. ids[k] \in 0..(next_pattern_id - 1)
        BY <2>3
      <4> QED
        BY ONLY <3>1, <4>1, <4>2
    <3>3. u[k] = D[j]
      BY <2>2, <2>6, <3>1
    <3>4. IdIn(D, u[k]) = j
      BY <3>2, <3>3, IdInIs
    <3> QED
      BY <3>2, <3>4
  <2>8. ids = [k \in 1..Len(d.patterns) |-> ids[k]]
    <3>1. PICK S : ids \in Seq(S)
      BY <2>3 DEF IsSeq
    <3>2. ids = [k \in 1..Len(ids) |-> ids[k]]
      BY <3>1
    <3> QED
      BY <2>3, <3>2
  <2>9. IdsFor(D, a) = ids
    BY <2>5, <2>6, <2>7, <2>8 DEF IdsFor
  <2> QED
    BY <2>1, <2>2, <2>9
<1> QED
  BY <1>3, <1>4, <1>5 DEF RulesFor

\* The registered patterns are the distinct patterns of the accepted rules.
LEMMA PatternsExact ==
  ASSUME IInv, NEW D, NEW at, NEW ct, Rested(D, at, ct)
  PROVE  patterns = [p \in ToSet(D) |-> IdIn(D, p) - 1]
<1>1. PICK n : n = next_pattern_id
  OBVIOUS
<1>2. DOMAIN D = 1..n /\ n \in Nat
  BY <1>1, SeqIs DEF Rested
<1>3. /\ \A i \in 1..n : D[i] \in DOMAIN patterns /\ patterns[D[i]] = i - 1
      /\ \A p \in DOMAIN patterns : D[patterns[p] + 1] = p
      /\ patterns = [p \in DOMAIN patterns |-> patterns[p]]
  BY <1>1 DEF Rested, Listing
<1>4. \A p \in DOMAIN patterns : patterns[p] \in 0..(n - 1)
  BY <1>1 DEF IInv, PatternInv
<1>5. ASSUME NEW p \in DOMAIN patterns PROVE p \in ToSet(D) /\ patterns[p] = IdIn(D, p) - 1
  <2>1. PICK i : i = patterns[p] + 1
    OBVIOUS
  <2>2. i \in 1..n /\ i - 1 = patterns[p] /\ p = D[i]
    BY <1>2, <1>3, <1>4, <2>1
  <2>3. IdIn(D, p) = i
    BY <1>1, <2>2, IdInIs
  <2> QED
    BY <1>2, <2>2, <2>3 DEF ToSet
<1>6. ASSUME NEW p \in ToSet(D) PROVE p \in DOMAIN patterns
  BY <1>2, <1>3 DEF ToSet
<1>7. DOMAIN patterns = ToSet(D)
  BY <1>5, <1>6
<1> QED
  BY <1>3, <1>5, <1>7

\* What the table of sub-patterns has of each.
View(id, kind, wide) == <<id, kind, wide>>
SubViews == [i \in DOMAIN sub_patterns |-> View(sub_patterns[i].pattern, sub_patterns[i].kind,
                                                sub_patterns[i].wide)]
ViewsOf(id, A) == [j \in DOMAIN A |-> View(id, A[j].kind, A[j].wide)]
ViewsFor(D) == [i \in DOMAIN D |-> ViewsOf(i - 1, Adds(D[i]))]

LEMMA ViewsOfIs ==
  ASSUME NEW id, NEW A, IsSeq(A), NEW s, s = ViewsOf(id, A)
  PROVE  IsSeq(s) /\ Len(s) = Len(A) /\ \A j \in 1..Len(A) : s[j] = View(id, A[j].kind, A[j].wide)
<1>1. Len(A) \in Nat /\ DOMAIN A = 1..Len(A)
  BY SeqIs
<1>2. s = [j \in 1..Len(A) |-> s[j]] /\ \A j \in 1..Len(A) : s[j] = View(id, A[j].kind, A[j].wide)
  BY <1>1 DEF ViewsOf
<1> QED
  BY <1>1, <1>2, FunctionIs

\* The sub-patterns are those of the registered patterns, in order.
LEMMA SubPatternsExact ==
  ASSUME IInv, NEW D, NEW at, NEW ct, Rested(D, at, ct)
  PROVE  SubViews = FlattenSeq(ViewsFor(D))
<1>1. PICK n, s, ss : n = next_pattern_id /\ s = SubViews /\ ss = ViewsFor(D)
  OBVIOUS
<1>2. DOMAIN D = 1..n /\ n \in Nat /\ Compiled(D, n, at, sub_patterns) /\ Len(sub_patterns) = at[n]
      /\ \A i \in 1..n : D[i] \in AnyPattern
  BY <1>1, SeqIs DEF Rested
<1>3. at[0] = 0 /\ (\A i \in 0..n : at[i] \in Nat) /\ \A i \in 0..n : \A j \in i..n : at[i] <= at[j]
  BY <1>2 DEF Compiled, Places
<1>4. IsSeq(s) /\ Len(s) = at[n]
      /\ \A x \in 1..at[n] : s[x] = View(sub_patterns[x].pattern, sub_patterns[x].kind, sub_patterns[x].wide)
  <2>1. at[n] \in Nat /\ DOMAIN sub_patterns = 1..at[n]
    BY <1>2, <1>3, SeqIs DEF IInv, SubInv
  <2>2. s = [x \in 1..at[n] |-> s[x]]
        /\ \A x \in 1..at[n] : s[x] = View(sub_patterns[x].pattern, sub_patterns[x].kind, sub_patterns[x].wide)
    BY <1>1, <2>1 DEF SubViews
  <2> QED
    BY <2>1, <2>2, FunctionIs
<1>5. IsSeq(ss) /\ Len(ss) = n /\ \A i \in 1..n : ss[i] = ViewsOf(i - 1, Adds(D[i]))
  <2>1. ss = [i \in 1..n |-> ss[i]] /\ \A i \in 1..n : ss[i] = ViewsOf(i - 1, Adds(D[i]))
    BY <1>1, <1>2 DEF ViewsFor
  <2> QED
    BY <1>2, <2>1, FunctionIs
<1>6. ASSUME NEW i \in 1..n
      PROVE  /\ IsSeq(ss[i]) /\ Len(ss[i]) = Len(Adds(D[i])) /\ IsSeq(Adds(D[i]))
             /\ \A j \in 1..Len(Adds(D[i])) : ss[i][j] = View(i - 1, Adds(D[i])[j].kind, Adds(D[i])[j].wide)
  <2>1. PICK A, id, t : A = Adds(D[i]) /\ id = i - 1 /\ t = ss[i]
    OBVIOUS
  <2>2. IsSeq(A)
    BY <1>2, <2>1, AddsIs
  <2>3. t = ViewsOf(id, A)
    BY <1>5, <2>1
  <2>4. IsSeq(t) /\ Len(t) = Len(A) /\ \A j \in 1..Len(A) : t[j] = View(id, A[j].kind, A[j].wide)
    BY <2>2, <2>3, ViewsOfIs
  <2> QED
    BY <2>1, <2>2, <2>4
<1>7. \A i \in 1..n : at[i] = at[i - 1] + Len(Adds(D[i])) /\ Segment(sub_patterns, at[i - 1], i - 1, Adds(D[i]))
  BY <1>2 DEF Compiled
<1>8. AreSeqs(ss) /\ Offsets(at, ss)
  BY <1>3, <1>5, <1>6, <1>7 DEF AreSeqs, Offsets
<1>9. ASSUME NEW i \in 1..n, NEW j \in 1..Len(ss[i]) PROVE s[at[i - 1] + j] = ss[i][j]
  <2>1. PICK A, o, l, id : A = Adds(D[i]) /\ o = at[i - 1] /\ l = Len(A) /\ id = i - 1
    OBVIOUS
  <2>2. j \in 1..l /\ ss[i][j] = View(id, A[j].kind, A[j].wide) /\ l \in Nat
    BY <1>6, <2>1, SeqIs
  <2>3. i - 1 \in 0..n /\ i \in 0..n /\ n \in i..n /\ n \in 0..n
    BY <1>2
  <2>4. o \in Nat /\ at[i] = o + l /\ at[i] <= at[n] /\ at[n] \in Nat
    BY <1>3, <1>7, <2>1, <2>3
  <2>5. o + j \in 1..at[n]
    BY <2>2, <2>4
  <2>6. SubIs(sub_patterns[o + j], id, A[j])
    BY <1>7, <2>1, <2>2 DEF Segment
  <2>7. s[o + j] = View(id, A[j].kind, A[j].wide)
    BY <1>4, <2>5, <2>6 DEF SubIs
  <2> QED
    BY <2>1, <2>2, <2>7
<1>10. s = FlattenSeq(ss)
  BY <1>3, <1>4, <1>5, <1>8, <1>9, FlattenIsWhole
<1> QED
  BY <1>1, <1>10

CodesFor(D) == [i \in DOMAIN D |-> CodeAll(D[i])]

\* The instructions are those of the registered patterns, in order.
LEMMA InstructionsExact ==
  ASSUME IInv, NEW D, NEW at, NEW ct, Rested(D, at, ct)
  PROVE  re_code = FlattenSeq(CodesFor(D))
<1>1. PICK n, ss : n = next_pattern_id /\ ss = CodesFor(D)
  OBVIOUS
<1>2. DOMAIN D = 1..n /\ n \in Nat /\ Coded(D, n, ct, re_code) /\ Len(re_code) = ct[n]
      /\ \A i \in 1..n : D[i] \in AnyPattern
  BY <1>1, SeqIs DEF Rested
<1>3. ct[0] = 0 /\ \A i \in 0..n : ct[i] \in Nat
  BY <1>2 DEF Coded, Places
<1>4. IsSeq(ss) /\ Len(ss) = n /\ \A i \in 1..n : ss[i] = CodeAll(D[i])
  <2>1. ss = [i \in 1..n |-> ss[i]] /\ \A i \in 1..n : ss[i] = CodeAll(D[i])
    BY <1>1, <1>2 DEF CodesFor
  <2> QED
    BY <1>2, <2>1, FunctionIs
<1>5. \A i \in 1..n : IsSeq(ss[i])
  BY <1>2, <1>4, AddsIs
<1>6. \A i \in 1..n : ct[i] = ct[i - 1] + Len(ss[i]) /\ CodeIn(re_code, ct[i - 1], ss[i])
  BY <1>2, <1>4 DEF Coded
<1>7. AreSeqs(ss) /\ Offsets(ct, ss)
  BY <1>3, <1>4, <1>5, <1>6 DEF AreSeqs, Offsets
<1>8. \A i \in 1..n : \A j \in 1..Len(ss[i]) : re_code[ct[i - 1] + j] = ss[i][j]
  BY <1>6 DEF CodeIn
<1>9. IsSeq(re_code)
  BY DEF IInv, SubInv
<1>10. re_code = FlattenSeq(ss)
  BY <1>2, <1>3, <1>4, <1>7, <1>8, <1>9, FlattenIsWhole
<1> QED
  BY <1>1, <1>10

FilesizeFor(D) == [i \in {n \in 0..(Len(D) - 1) : D[n + 1].filesize_bounds # {}} |-> D[i + 1].filesize_bounds]
HeadersFor(D) == [i \in {n \in 0..(Len(D) - 1) : D[n + 1].header_constraints # {}} |-> D[i + 1].header_constraints]

\* The bounds are those of the registered patterns that have one.
LEMMA BoundsExact ==
  ASSUME IInv, NEW D, NEW at, NEW ct, Rested(D, at, ct)
  PROVE  filesize_bounds = FilesizeFor(D) /\ header_constraints = HeadersFor(D)
<1>1. PICK n : n = next_pattern_id
  OBVIOUS
<1>2. n \in Nat /\ Len(D) = n /\ FilesizeAre(D, n) /\ HeadersAre(D, n)
  BY <1>1 DEF Rested, BoundsAre
<1>3. DOMAIN filesize_bounds \subseteq 0..(n - 1) /\ DOMAIN header_constraints \subseteq 0..(n - 1)
  BY <1>1 DEF IInv, BoundInv
<1>4. \A i \in 0..(n - 1) : i < n
  BY <1>2
<1>5. filesize_bounds = FilesizeFor(D)
  <2>1. PICK S : S = {i \in 0..(Len(D) - 1) : D[i + 1].filesize_bounds # {}}
    OBVIOUS
  <2>2. DOMAIN filesize_bounds = S
    BY <1>1, <1>2, <1>3, <1>4, <2>1 DEF FilesizeAre
  <2>3. \A i \in S : filesize_bounds[i] = D[i + 1].filesize_bounds
    BY <1>1, <1>2, <1>3, <2>2 DEF FilesizeAre
  <2>4. filesize_bounds = [i \in S |-> filesize_bounds[i]]
    BY <1>2, <2>2 DEF FilesizeAre
  <2>5. filesize_bounds = [i \in S |-> D[i + 1].filesize_bounds]
    BY <2>3, <2>4
  <2> QED
    BY <2>1, <2>5 DEF FilesizeFor
<1>6. header_constraints = HeadersFor(D)
  <2>1. PICK S : S = {i \in 0..(Len(D) - 1) : D[i + 1].header_constraints # {}}
    OBVIOUS
  <2>2. DOMAIN header_constraints = S
    BY <1>1, <1>2, <1>3, <1>4, <2>1 DEF HeadersAre
  <2>3. \A i \in S : header_constraints[i] = D[i + 1].header_constraints
    BY <1>1, <1>2, <1>3, <2>2 DEF HeadersAre
  <2>4. header_constraints = [i \in S |-> header_constraints[i]]
    BY <1>2, <2>2 DEF HeadersAre
  <2>5. header_constraints = [i \in S |-> D[i + 1].header_constraints]
    BY <2>3, <2>4
  <2> QED
    BY <2>1, <2>5 DEF HeadersFor
<1> QED
  BY <1>5, <1>6

\* An atom leads to the code of a piece of its own pattern.
LEMMA AtomsExact ==
  ASSUME IInv, NEW D, NEW at, NEW ct, Rested(D, at, ct), NEW i \in DOMAIN atoms, atoms[i].code # 0,
         NEW p, p = D[sub_patterns[atoms[i].sub_pattern + 1].pattern + 1]
  PROVE  \E j \in DOMAIN p.pieces : re_code[atoms[i].code][2] = p.pieces[j]
<1>1. IsSeq(atoms) /\ IsSeq(sub_patterns)
  BY DEF IInv, SubInv
<1>2. i \in 1..Len(atoms)
  BY <1>1, SeqIs
<1>3. PICK j \in 1..Len(p.pieces) : re_code[atoms[i].code][2] = p.pieces[j]
  BY <1>2 DEF Rested, AtomCode, PieceAt
<1>4. atoms[i].sub_pattern \in 0..(Len(sub_patterns) - 1)
  BY <1>2 DEF IInv, SubInv, Reach
<1>5. PICK x : x = atoms[i].sub_pattern + 1
  OBVIOUS
<1>6. x \in 1..Len(sub_patterns)
  BY <1>1, <1>4, <1>5, SeqIs
<1>7. sub_patterns[x].pattern \in 0..(next_pattern_id - 1)
  BY <1>6 DEF IInv, SubInv, Reach
<1>8. sub_patterns[x].pattern + 1 \in 1..next_pattern_id
  BY <1>7 DEF Rested
<1>9. p \in AnyPattern
  BY <1>5, <1>8 DEF Rested
<1>10. IsSeq(p.pieces)
  BY <1>9, PiecesIs
<1>11. j \in DOMAIN p.pieces
  BY <1>3, <1>10, SeqIs
<1> QED
  BY <1>3, <1>11

\* Put together.
LEMMA TablesExact ==
  ASSUME IInv, TInv
  PROVE  TablesAreExact
<1> SUFFICES ASSUME AtRest PROVE TablesAreExact
  BY DEF TablesAreExact
<1>1. PICK at, ct : Rested(Distinct, at, ct)
  <2>1. PICK D, at, ct : Rested(D, at, ct)
    BY RestedIs
  <2>2. D = Distinct
    BY <2>1 DEF Rested
  <2> QED
    BY <2>1, <2>2
<1>2. next_pattern_id = Len(Distinct)
  BY <1>1 DEF Rested
<1>3. rules = [i \in DOMAIN accepted |->
                 [ident |-> accepted[i].rule.ident, namespace |-> accepted[i].namespace,
                  patterns |-> [k \in DOMAIN UsesOf(accepted[i]) |->
                                  (CHOOSE j \in DOMAIN Distinct : Distinct[j] = UsesOf(accepted[i])[k]) - 1]]]
  <2>1. rules = RulesFor(Distinct)
    BY <1>1, RulesExact
  <2> QED
    BY <2>1, Zenon DEF RulesFor, IdsFor, IdIn
<1>4. patterns = [p \in ToSet(Distinct) |-> (CHOOSE j \in DOMAIN Distinct : Distinct[j] = p) - 1]
  BY <1>1, PatternsExact, Zenon DEF IdIn
<1>5. [i \in DOMAIN sub_patterns |-> <<sub_patterns[i].pattern, sub_patterns[i].kind, sub_patterns[i].wide>>]
      = FlattenSeq([i \in DOMAIN Distinct |->
           [j \in DOMAIN CallsOf(Distinct[i], "add_sub_pattern") |->
              LET call == CallsOf(Distinct[i], "add_sub_pattern")[j] IN <<i - 1, call.kind, call.wide>>]])
  <2>1. SubViews = FlattenSeq(ViewsFor(Distinct))
    BY <1>1, SubPatternsExact
  <2> QED
    BY <2>1, Zenon DEF SubViews, ViewsFor, ViewsOf, View, Adds, Add
<1>6. re_code = FlattenSeq([i \in DOMAIN Distinct |->
           FlattenSeq([j \in DOMAIN CallsOf(Distinct[i], "c_regexp") |->
                         CodeOf(CallsOf(Distinct[i], "c_regexp")[j].piece)])])
  <2>1. re_code = FlattenSeq(CodesFor(Distinct))
    BY <1>1, InstructionsExact
  <2> QED
    BY <2>1, Zenon DEF CodesFor, CodeAll, CodeFor, CodeParts
<1>7. \A i \in DOMAIN atoms : atoms[i].code # 0 =>
        \E j \in DOMAIN Distinct[sub_patterns[atoms[i].sub_pattern + 1].pattern + 1].pieces :
          re_code[atoms[i].code][2] = Distinct[sub_patterns[atoms[i].sub_pattern + 1].pattern + 1].pieces[j]
  <2> SUFFICES ASSUME NEW i \in DOMAIN atoms, atoms[i].code # 0,
                      NEW p, p = Distinct[sub_patterns[atoms[i].sub_pattern + 1].pattern + 1]
               PROVE  \E j \in DOMAIN p.pieces : re_code[atoms[i].code][2] = p.pieces[j]
    BY Zenon
  <2> QED
    BY <1>1, AtomsExact
<1>8. filesize_bounds = [i \in {n \in 0..(Len(Distinct) - 1) : Distinct[n + 1].filesize_bounds # {}} |->
                           Distinct[i + 1].filesize_bounds]
  BY <1>1, BoundsExact, Zenon DEF FilesizeFor
<1>9. header_constraints = [i \in {n \in 0..(Len(Distinct) - 1) : Distinct[n + 1].header_constraints # {}} |->
                              Distinct[i + 1].header_constraints]
  BY <1>1, BoundsExact, Zenon DEF HeadersFor
<1> QED
  BY <1>2, <1>3, <1>4, <1>5, <1>6, <1>7, <1>8, <1>9, Zenon DEF TablesAreExact

\* A rule that fails leaves no trace: whenever no rule is being compiled, the
\* tables of c_rule (rules, pattern ids, sub-patterns, regexp code and bounds)
\* are the ones that compiling only the accepted rules gives, whatever rules
\* failed in between and wherever restore_snapshot was called, and every atom
\* leads to the code of a regexp of its own pattern.
THEOREM TablesAlwaysExact == Spec => []TablesAreExact
<1>1. IInv /\ TInv => TablesAreExact
  BY TablesExact
<1> QED
  BY <1>1, CompilerInvariant, TablesInvariant, PTL

\* The tables agree with each other: ids are in range, every sub-pattern is
\* reached by the scanner in one way, the sub-patterns of a pattern split at
\* large gaps are one whole chain in each width (c_chain), symbols and code
\* follow the table of rules, includes nest, and no panic is reached.
THEOREM CompilerAlwaysConsistent == Spec => []CompilerIsConsistent
<1>1. IInv /\ TInv => ChainsAreWhole
  BY ChainsWhole
<1>2. (/\ TypeOK /\ SubPatternsAreReachable /\ CodeFollowsRules /\ IncludesNest /\ NeverPanics)
      /\ ChainsAreWhole => CompilerIsConsistent
  BY DEF CompilerIsConsistent
<1> QED
  BY <1>1, <1>2, CompilerInvariant, TablesInvariant, TablesAlwaysAgree, PTL

=============================================================================
