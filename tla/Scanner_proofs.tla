--------------------------- MODULE Scanner_proofs ---------------------------
(***************************************************************************)
(* Proofs about Scanner and BlockScanner for any rules, namespaces,        *)
(* patterns, modules, data, blocks and timeouts.                           *)
(*                                                                         *)
(* Part 1 is about the invariants of Scanner, part 2 shows that the        *)
(* results of a scan are what its rules say of its data (ResultIsExact):   *)
(* its lemmas on the evaluation of the conditions speak of any set T of    *)
(* true rules, so that they serve both scanners.  Part 3 is about          *)
(* BlockScanner and any sequence of calls of the two scanners that share a *)
(* context: while the context belongs to a Scanner the invariants of part  *)
(* 1 hold, and what they say of rules and patterns holds in both modes.    *)
(***************************************************************************)
EXTENDS BlockScanner, SequenceTheorems, FiniteSetTheorems, WellFoundedInduction, TLAPS

-----------------------------------------------------------------------------
(* Sets of rules kept in vectors, one per namespace                        *)

AllOf(f) == UNION {ToSet(f[n]) : n \in Namespaces}

\* The elements of a vector after a push.
LEMMA ToSetAppend ==
  ASSUME NEW S, NEW s \in Seq(S), NEW e \in S
  PROVE  ToSet(Append(s, e)) = ToSet(s) \cup {e}
<1>1. \A i \in 1..Len(s) : Append(s, e)[i] = s[i]
  OBVIOUS
<1>2. Append(s, e)[Len(s) + 1] = e /\ DOMAIN Append(s, e) = 1..(Len(s) + 1)
  OBVIOUS
<1>3. DOMAIN s = 1..Len(s) /\ Len(s) \in Nat
  OBVIOUS
<1>4. 1..(Len(s) + 1) = 1..Len(s) \cup {Len(s) + 1}
  BY <1>3
<1> QED
  BY <1>1, <1>2, <1>3, <1>4 DEF ToSet

\* A vector has no elements exactly if it is empty.
LEMMA ToSetEmpty ==
  ASSUME NEW S, NEW s \in Seq(S)
  PROVE  ToSet(s) \subseteq S /\ (ToSet(s) = {} <=> s = <<>>)
<1>1. DOMAIN s = 1..Len(s) /\ Len(s) \in Nat /\ \A i \in 1..Len(s) : s[i] \in S
  OBVIOUS
<1>2. s # <<>> => 1 \in 1..Len(s)
  BY <1>1, EmptySeq
<1>3. s = <<>> => ToSet(s) = {}
  BY DEF ToSet
<1> QED
  BY <1>1, <1>2, <1>3 DEF ToSet

\* track_rule_match adds its rule to the tracked ones.
LEMMA AllOfAppend ==
  ASSUME NEW f \in [Namespaces -> Seq(Rules)], NEW n \in Namespaces, NEW r \in Rules
  PROVE  AllOf([f EXCEPT ![n] = Append(@, r)]) = AllOf(f) \cup {r}
<1> DEFINE g == [f EXCEPT ![n] = Append(@, r)]
<1>1. g[n] = Append(f[n], r) /\ \A m \in Namespaces \ {n} : g[m] = f[m]
  OBVIOUS
<1>2. ToSet(g[n]) = ToSet(f[n]) \cup {r}
  BY <1>1, ToSetAppend
<1>3. \A m \in Namespaces \ {n} : ToSet(g[m]) = ToSet(f[m])
  BY <1>1
<1> HIDE DEF g
<1>4. AllOf(g) = AllOf(f) \cup {r}
  BY <1>2, <1>3 DEF AllOf
<1> QED
  BY <1>4 DEF g

\* track_rule_no_match drains the vector of one namespace: the rules of the
\* others stay, because no rule is in two of them.
LEMMA AllOfClear ==
  ASSUME NEW f \in [Namespaces -> Seq(Rules)], NEW n \in Namespaces,
         \A m \in Namespaces : \A r \in ToSet(f[m]) : NamespaceOf[r] = m
  PROVE  AllOf([f EXCEPT ![n] = <<>>]) = AllOf(f) \ ToSet(f[n])
<1> DEFINE g == [f EXCEPT ![n] = <<>>]
<1>1. g[n] = <<>> /\ \A m \in Namespaces \ {n} : g[m] = f[m]
  OBVIOUS
<1>2. ToSet(g[n]) = {}
  BY <1>1 DEF ToSet
<1>3. \A m \in Namespaces \ {n} : ToSet(g[m]) = ToSet(f[m])
  BY <1>1
<1>4. \A m \in Namespaces \ {n} : ToSet(f[m]) \cap ToSet(f[n]) = {}
  OBVIOUS
<1> HIDE DEF g
<1>5. \A x : x \in AllOf(g) <=> \E m \in Namespaces : x \in ToSet(g[m])
  BY DEF AllOf
<1>6. \A x : x \in AllOf(f) <=> \E m \in Namespaces : x \in ToSet(f[m])
  BY DEF AllOf
<1>7. \A x : x \in AllOf(g) <=> \E m \in Namespaces \ {n} : x \in ToSet(f[m])
  BY <1>2, <1>3, <1>5
<1>8. \A x : x \in AllOf(g) <=> x \in AllOf(f) /\ x \notin ToSet(f[n])
  BY <1>4, <1>6, <1>7
<1> QED
  BY <1>8 DEF g

LEMMA AllOfEmpty == AllOf([n \in Namespaces |-> <<>>]) = {}
BY DEF AllOf, ToSet

-----------------------------------------------------------------------------
(* The inductive invariant, in three parts                                 *)

scanning == {"deadline", "modules", "enter", "eval", "search"}

RulesTyped ==
  /\ matching_rules_per_ns \in [Namespaces -> Seq(Rules)]
  /\ ns_order \in Seq(Namespaces)
  /\ matching_rules \in Seq(Seq(Rules))

\* Vectors hold rules of their namespace only, a vector that is not empty has
\* its key in the IndexMap, and nothing is reported while a scan runs.
RulesInv ==
  /\ RulesTyped
  /\ \A n \in Namespaces : \A r \in ToSet(matching_rules_per_ns[n]) : NamespaceOf[r] = n
  /\ \A n \in Namespaces : matching_rules_per_ns[n] # <<>> => n \in ToSet(ns_order)
  /\ pc \in scanning => Reported = {}
  /\ BitsAreTracked

\* What the state of the scan is at each point, so that search_for_patterns
\* finds data and scan_impl its ScanningData.
ControlInv ==
  /\ pc \in {"ready"} \cup scanning
  /\ pc = "modules" => scan_state = "ScanningData"
  /\ pc \in {"enter", "eval"} =>
       /\ scan_state \in {"ScanningData", "Timeout"}
       /\ ~pattern_search_done => scan_state = "ScanningData"
  /\ pc = "search" => taken = "ScanningData" /\ caller = "eval" /\ atom \in Nat \ {0}

\* A bit or a match of a pattern implies an entry in pattern_matches, which
\* is what reset looks at.
PatternsInv ==
  /\ input \in Inputs
  /\ occupied \subseteq Patterns
  /\ pattern_bits \subseteq occupied
  /\ matches \in [Patterns -> Nat]
  /\ \A p \in Patterns \ occupied : matches[p] = 0
  /\ pc \in {"deadline", "modules"} =>
       /\ pattern_bits = {} /\ disabled_patterns = {}
       /\ matches = [p \in Patterns |-> 0]
       /\ rule_bits = {}

IInv == RulesInv /\ ControlInv /\ PatternsInv

LEMMA TrackedIs == Tracked = AllOf(matching_rules_per_ns)
BY DEF Tracked, AllOf

LEMMA TrackedIsNext == Tracked' = AllOf(matching_rules_per_ns')
BY DEF Tracked, AllOf

LEMMA IInvInit == Init => IInv
<1> SUFFICES ASSUME Init PROVE IInv
  OBVIOUS
<1>1. matching_rules_per_ns = [n \in Namespaces |-> <<>>] /\ ns_order = <<>>
      /\ matching_rules = <<>> /\ rule_bits = {}
  BY DEF Init, InitContext
<1>2. Tracked = {}
  BY <1>1, TrackedIs, AllOfEmpty
<1>3. Reported = {}
  BY <1>1 DEF Reported
<1>4. \A n \in Namespaces : ToSet(matching_rules_per_ns[n]) = {}
  BY <1>1 DEF ToSet
<1>5. RulesInv
  BY <1>1, <1>2, <1>3, <1>4 DEF RulesInv, RulesTyped, BitsAreTracked
<1>6. ControlInv
  BY DEF Init, InitContext, ControlInv, scanning
<1>7. NoInput \in Inputs
  BY DEF NoInput, Inputs
<1>8. PatternsInv
  BY <1>7 DEF Init, InitContext, PatternsInv
<1> QED
  BY <1>5, <1>6, <1>8 DEF IInv

\* Steps that do not touch the rules and do not begin a scan.
LEMMA RulesUnchanged ==
  ASSUME RulesInv, UNCHANGED ruleVars, pc' \in scanning => pc \in scanning
  PROVE  RulesInv'
<1>1. UNCHANGED <<matching_rules_per_ns, ns_order, matching_rules, rule_bits>>
  BY DEF ruleVars
<1>2. Tracked' = Tracked /\ Reported' = Reported
  BY <1>1 DEF Tracked, Reported
<1> QED
  BY <1>1, <1>2 DEF RulesInv, RulesTyped, BitsAreTracked

\* reset empties the bitmap of rules, the vectors and the results.
LEMMA ResetRules ==
  ASSUME NEW next, RulesInv, Reset(next)
  PROVE  RulesInv' /\ rule_bits' = {}
<1>1. matching_rules_per_ns' = [n \in Namespaces |-> <<>>] /\ ns_order' = ns_order
  BY DEF Reset
<1>2. Tracked' = {}
  BY <1>1, TrackedIsNext, AllOfEmpty
<1>3. Reported' = {} /\ rule_bits' = {} /\ matching_rules' \in Seq(Seq(Rules))
  <2>1. CASE SomethingMatched
    <3>1. matching_rules' = <<>> /\ rule_bits' = {}
      BY <2>1 DEF Reset
    <3> QED
      BY <3>1 DEF Reported
  <2>2. CASE ~SomethingMatched
    <3>1. Tracked = {} /\ Reported = {}
      BY <2>2 DEF SomethingMatched
    <3>2. matching_rules' = matching_rules /\ rule_bits' = rule_bits
      BY <2>2, <3>1 DEF Reset, Moved
    <3>3. Reported' = Reported
      BY <3>2 DEF Reported
    <3>4. rule_bits = {}
      BY <3>1 DEF RulesInv, BitsAreTracked
    <3>5. matching_rules \in Seq(Seq(Rules))
      BY DEF RulesInv, RulesTyped
    <3> QED
      BY <3>1, <3>2, <3>3, <3>4, <3>5
  <2> QED
    BY <2>1, <2>2
<1>4. \A n \in Namespaces : ToSet(matching_rules_per_ns'[n]) = {} /\ matching_rules_per_ns'[n] = <<>>
  BY <1>1 DEF ToSet
<1>5. RulesTyped'
  BY <1>1, <1>3 DEF RulesTyped, RulesInv
<1> QED
  BY <1>2, <1>3, <1>4, <1>5 DEF RulesInv, BitsAreTracked

\* A rule that matches is tracked and gets its bit.
LEMMA RuleMatchRules ==
  ASSUME RulesInv, RuleMatch
  PROVE  RulesInv'
<1> DEFINE n == NamespaceOf[rule]
<1>1. rule \in Rules /\ n \in Namespaces /\ pc \in scanning
  BY DEF RuleMatch, Evaluable, Namespaces, scanning
<1>2. /\ matching_rules_per_ns' = [matching_rules_per_ns EXCEPT ![n] = Append(@, rule)]
      /\ ns_order' = IF n \in ToSet(ns_order) THEN ns_order ELSE Append(ns_order, n)
      /\ rule_bits' = rule_bits \cup {rule} /\ matching_rules' = matching_rules
  BY DEF RuleMatch
<1> HIDE DEF n
<1>3. matching_rules_per_ns \in [Namespaces -> Seq(Rules)] /\ ns_order \in Seq(Namespaces)
  BY DEF RulesInv, RulesTyped
<1>4. Tracked' = Tracked \cup {rule}
  BY <1>1, <1>2, <1>3, AllOfAppend, TrackedIs, TrackedIsNext
<1>5. Reported' = Reported
  BY <1>2 DEF Reported
<1>6. matching_rules_per_ns'[n] = Append(matching_rules_per_ns[n], rule)
      /\ \A m \in Namespaces \ {n} : matching_rules_per_ns'[m] = matching_rules_per_ns[m]
  BY <1>1, <1>2, <1>3
<1>7. ToSet(matching_rules_per_ns'[n]) = ToSet(matching_rules_per_ns[n]) \cup {rule}
  BY <1>1, <1>3, <1>6, ToSetAppend
<1>8. ToSet(ns_order') = ToSet(ns_order) \cup {n}
  <2>1. CASE n \in ToSet(ns_order)
    BY <1>2, <2>1
  <2>2. CASE n \notin ToSet(ns_order)
    BY <1>1, <1>2, <1>3, <2>2, ToSetAppend
  <2> QED
    BY <2>1, <2>2
<1>9. RulesTyped'
  <2>1. ns_order' \in Seq(Namespaces)
    BY <1>1, <1>2, <1>3
  <2>2. matching_rules_per_ns' \in [Namespaces -> Seq(Rules)]
    BY <1>1, <1>2, <1>3
  <2> QED
    BY <1>2, <2>1, <2>2 DEF RulesTyped, RulesInv
<1>10. \A m \in Namespaces : \A r \in ToSet(matching_rules_per_ns'[m]) : NamespaceOf[r] = m
  BY <1>6, <1>7 DEF RulesInv, n
<1>11. \A m \in Namespaces : matching_rules_per_ns'[m] # <<>> => m \in ToSet(ns_order')
  BY <1>6, <1>8 DEF RulesInv
<1>12. Reported = {} /\ rule_bits = Tracked \cup Reported
  BY <1>1 DEF RulesInv, BitsAreTracked
<1> QED
  BY <1>2, <1>4, <1>5, <1>9, <1>10, <1>11, <1>12 DEF RulesInv, BitsAreTracked

\* A global rule that does not match takes back exactly the bits of the rules
\* it removes from the vector of its namespace.
LEMMA GlobalNoMatchRules ==
  ASSUME RulesInv, GlobalNoMatch
  PROVE  RulesInv'
<1> DEFINE n == NamespaceOf[rule]
<1>1. rule \in Rules /\ n \in Namespaces /\ pc \in scanning
  BY DEF GlobalNoMatch, Evaluable, Namespaces, scanning
<1>2. /\ matching_rules_per_ns' = [matching_rules_per_ns EXCEPT ![n] = <<>>]
      /\ rule_bits' = rule_bits \ ToSet(matching_rules_per_ns[n])
      /\ ns_order' = ns_order /\ matching_rules' = matching_rules
  BY DEF GlobalNoMatch
<1> HIDE DEF n
<1>3. matching_rules_per_ns \in [Namespaces -> Seq(Rules)] /\ ns_order \in Seq(Namespaces)
      /\ \A m \in Namespaces : \A r \in ToSet(matching_rules_per_ns[m]) : NamespaceOf[r] = m
  BY DEF RulesInv, RulesTyped
<1>4. Tracked' = Tracked \ ToSet(matching_rules_per_ns[n])
  BY <1>1, <1>2, <1>3, AllOfClear, TrackedIs, TrackedIsNext
<1>5. Reported' = Reported /\ Reported = {} /\ rule_bits = Tracked \cup Reported
  <2>1. Reported' = Reported
    BY <1>2 DEF Reported
  <2> QED
    BY <1>1, <2>1 DEF RulesInv, BitsAreTracked
<1>6. matching_rules_per_ns'[n] = <<>>
      /\ \A m \in Namespaces \ {n} : matching_rules_per_ns'[m] = matching_rules_per_ns[m]
  BY <1>1, <1>2, <1>3
<1>7. ToSet(matching_rules_per_ns'[n]) = {}
  BY <1>6 DEF ToSet
<1>8. RulesTyped'
  <2>1. matching_rules_per_ns' \in [Namespaces -> Seq(Rules)]
    BY <1>1, <1>2, <1>3
  <2> QED
    BY <1>2, <2>1 DEF RulesTyped, RulesInv
<1>9. \A m \in Namespaces : \A r \in ToSet(matching_rules_per_ns'[m]) : NamespaceOf[r] = m
  BY <1>3, <1>6, <1>7
<1>10. \A m \in Namespaces : matching_rules_per_ns'[m] # <<>> => m \in ToSet(ns_order')
  BY <1>2, <1>6 DEF RulesInv
<1> QED
  BY <1>2, <1>4, <1>5, <1>8, <1>9, <1>10 DEF RulesInv, BitsAreTracked

AllRuns(s) == UNION {ToSet(s[i]) : i \in 1..Len(s)}

\* The rules of two lists of vectors, one after the other.
LEMMA AllRunsConcat ==
  ASSUME NEW S, NEW s \in Seq(S), NEW t \in Seq(S)
  PROVE  AllRuns(s \o t) = AllRuns(s) \cup AllRuns(t)
<1> DEFINE u == s \o t
<1>1. Len(s) \in Nat /\ Len(t) \in Nat /\ Len(u) = Len(s) + Len(t)
  OBVIOUS
<1>2. \A i \in 1..Len(s) : u[i] = s[i]
  OBVIOUS
<1>3. \A i \in 1..Len(t) : u[Len(s) + i] = t[i]
  OBVIOUS
<1> HIDE DEF u
<1>4. ASSUME NEW x \in AllRuns(u) PROVE x \in AllRuns(s) \cup AllRuns(t)
  <2>1. PICK i \in 1..Len(u) : x \in ToSet(u[i])
    BY <1>4 DEF AllRuns
  <2>2. CASE i <= Len(s)
    <3>1. i \in 1..Len(s)
      BY <1>1, <2>2
    <3> QED
      BY <1>2, <2>1, <3>1 DEF AllRuns
  <2>3. CASE i > Len(s)
    <3>1. i - Len(s) \in 1..Len(t) /\ Len(s) + (i - Len(s)) = i
      BY <1>1, <2>3
    <3>2. u[i] = t[i - Len(s)]
      BY <1>3, <3>1
    <3> QED
      BY <2>1, <3>1, <3>2 DEF AllRuns
  <2> QED
    BY <1>1, <2>2, <2>3
<1>5. ASSUME NEW x \in AllRuns(s) PROVE x \in AllRuns(u)
  <2>1. PICK i \in 1..Len(s) : x \in ToSet(s[i])
    BY <1>5 DEF AllRuns
  <2>2. i \in 1..Len(u)
    BY <1>1
  <2> QED
    BY <1>2, <2>1, <2>2 DEF AllRuns
<1>6. ASSUME NEW x \in AllRuns(t) PROVE x \in AllRuns(u)
  <2>1. PICK i \in 1..Len(t) : x \in ToSet(t[i])
    BY <1>6 DEF AllRuns
  <2>2. Len(s) + i \in 1..Len(u)
    BY <1>1
  <2> QED
    BY <1>3, <2>1, <2>2 DEF AllRuns
<1> QED
  BY <1>4, <1>5, <1>6 DEF u

\* Moving the vectors to matching_rules loses no rule and adds none.
LEMMA MovedRules ==
  ASSUME RulesInv, Reported = {}
  PROVE  /\ Moved \in Seq(Seq(Rules))
         /\ AllRuns(Moved) = Tracked
<1> DEFINE q == [i \in 1..Len(ns_order) |-> matching_rules_per_ns[ns_order[i]]]
<1>1. /\ matching_rules_per_ns \in [Namespaces -> Seq(Rules)]
      /\ ns_order \in Seq(Namespaces) /\ matching_rules \in Seq(Seq(Rules))
      /\ \A n \in Namespaces : matching_rules_per_ns[n] # <<>> => n \in ToSet(ns_order)
  BY DEF RulesInv, RulesTyped
<1>2. Reported = AllRuns(matching_rules)
  BY DEF Reported, AllRuns
<1>3. CASE Tracked = {}
  BY <1>1, <1>2, <1>3 DEF Moved
<1>4. CASE Tracked # {}
  <2>1. Len(ns_order) \in Nat /\ \A i \in 1..Len(ns_order) : ns_order[i] \in Namespaces
    BY <1>1
  <2>2. q \in Seq(Seq(Rules)) /\ Len(q) = Len(ns_order)
        /\ \A i \in 1..Len(q) : q[i] = matching_rules_per_ns[ns_order[i]]
    BY <1>1, <2>1
  <2>3. Moved = matching_rules \o q
    BY <1>4 DEF Moved
  <2> HIDE DEF q
  <2>4. AllRuns(Moved) = AllRuns(q)
    <3>1. matching_rules \in Seq(Seq(Rules)) /\ q \in Seq(Seq(Rules))
      BY <1>1, <2>2
    <3>2. AllRuns(matching_rules \o q) = AllRuns(matching_rules) \cup AllRuns(q)
      BY <3>1, AllRunsConcat, SMTT(30)
    <3> QED
      BY <1>2, <2>3, <3>2
  <2>5. ASSUME NEW x \in AllRuns(q) PROVE x \in Tracked
    <3>1. PICK i \in 1..Len(q) : x \in ToSet(q[i])
      BY <2>5 DEF AllRuns
    <3>2. x \in ToSet(matching_rules_per_ns[ns_order[i]]) /\ ns_order[i] \in Namespaces
      BY <2>1, <2>2, <3>1
    <3> QED
      BY <3>2 DEF Tracked
  <2>6. ASSUME NEW x \in Tracked PROVE x \in AllRuns(q)
    <3>1. PICK n \in Namespaces : x \in ToSet(matching_rules_per_ns[n])
      BY <2>6 DEF Tracked
    <3>2. matching_rules_per_ns[n] # <<>>
      BY <3>1 DEF ToSet
    <3>3. n \in ToSet(ns_order)
      BY <1>1, <3>2
    <3>4. PICK i \in 1..Len(ns_order) : ns_order[i] = n
      BY <1>1, <3>3 DEF ToSet
    <3>5. i \in 1..Len(q) /\ q[i] = matching_rules_per_ns[n]
      BY <2>2, <3>4
    <3> QED
      BY <3>1, <3>5 DEF AllRuns
  <2>7. matching_rules \o q \in Seq(Seq(Rules))
    BY <1>1, <2>2
  <2> QED
    BY <2>3, <2>4, <2>5, <2>6, <2>7
<1> QED
  BY <1>3, <1>4

\* The end of eval_conditions keeps the set of rules and its bits.
LEMMA MoveMatchingRulesRules ==
  ASSUME RulesInv, Reported = {}, MoveMatchingRules, pc' = "ready"
  PROVE  RulesInv'
<1>1. /\ matching_rules' = Moved /\ matching_rules_per_ns' = [n \in Namespaces |-> <<>>]
      /\ ns_order' = ns_order /\ rule_bits' = rule_bits
  BY DEF MoveMatchingRules
<1>2. Tracked' = {}
  BY <1>1, TrackedIsNext, AllOfEmpty
<1>3. Reported' = AllRuns(matching_rules')
  BY DEF Reported, AllRuns
<1>4. matching_rules' \in Seq(Seq(Rules)) /\ Reported' = Tracked
  BY <1>1, <1>3, MovedRules
<1>5. \A n \in Namespaces : ToSet(matching_rules_per_ns'[n]) = {} /\ matching_rules_per_ns'[n] = <<>>
  BY <1>1 DEF ToSet
<1>6. RulesTyped'
  BY <1>1, <1>4 DEF RulesTyped, RulesInv
<1>7. pc' \notin scanning
  BY DEF scanning
<1> QED
  BY <1>1, <1>2, <1>4, <1>5, <1>6, <1>7 DEF RulesInv, BitsAreTracked

-----------------------------------------------------------------------------
(* The steps                                                               *)

\* track_match creates an entry for every pattern whose bit it sets.
LEMMA TrackMatchPatterns ==
  ASSUME NEW F, NEW disabled, F \subseteq Patterns, PatternsInv,
         TrackMatch(F, disabled), input' = input, pc' \notin {"deadline", "modules"}
  PROVE  PatternsInv'
<1> DEFINE full == {p \in F \cap occupied : matches[p] >= MaxMatches}
<1>1. /\ pattern_bits' = pattern_bits \cup F
      /\ occupied' = occupied \cup F
      /\ matches' = [p \in Patterns |->
                       IF p \in F \ full THEN matches[p] + 1 ELSE matches[p]]
  BY DEF TrackMatch
<1>2. /\ input \in Inputs /\ occupied \subseteq Patterns /\ pattern_bits \subseteq occupied
      /\ matches \in [Patterns -> Nat] /\ \A p \in Patterns \ occupied : matches[p] = 0
  BY DEF PatternsInv
<1>3. matches' \in [Patterns -> Nat]
  BY <1>1, <1>2
<1>4. \A p \in Patterns \ occupied' : matches'[p] = 0
  BY <1>1, <1>2
<1> QED
  BY <1>1, <1>2, <1>3, <1>4 DEF PatternsInv

\* Steps that leave the patterns alone and do not follow a reset.
LEMMA PatternsUnchanged ==
  ASSUME PatternsInv, UNCHANGED matchVars, input' = input,
         pc' \in {"deadline", "modules"} =>
           pc \in {"deadline", "modules"} /\ rule_bits' = rule_bits
  PROVE  PatternsInv'
BY DEF PatternsInv, matchVars

\* reset clears the bitmap of patterns and the matches whenever there are any.
LEMMA ResetPatterns ==
  ASSUME NEW next, RulesInv, PatternsInv, Reset(next), input' \in Inputs
  PROVE  /\ PatternsInv'
         /\ pattern_bits' = {} /\ disabled_patterns' = {} /\ matches' = [p \in Patterns |-> 0]
<1>1. rule_bits' = {}
  BY ResetRules
<1>2. disabled_patterns' = {}
  BY DEF Reset, ResetDisabled
<1>3. CASE SomethingMatched
  <2>1. /\ pattern_bits' = {} /\ matches' = [p \in Patterns |-> 0]
        /\ occupied' \in {occupied, {}}
    BY <1>3 DEF Reset
  <2> QED
    BY <1>1, <1>2, <2>1 DEF PatternsInv
<1>4. CASE ~SomethingMatched
  <2>1. occupied = {}
    BY <1>4 DEF SomethingMatched
  <2>2. pattern_bits' = pattern_bits /\ matches' = matches /\ occupied' = occupied
    BY <1>4 DEF Reset
  <2>3. pattern_bits = {} /\ matches \in [Patterns -> Nat]
        /\ \A p \in Patterns : matches[p] = 0
    BY <2>1 DEF PatternsInv
  <2>4. matches = [p \in Patterns |-> 0]
    BY <2>3
  <2> QED
    BY <1>1, <1>2, <2>1, <2>2, <2>3, <2>4 DEF PatternsInv
<1> QED
  BY <1>3, <1>4

\* A call, or a step of one, of the module part of a scan.
LEMMA IInvCalls ==
  ASSUME IInv,
         \/ \E t \in Timeouts : SetTimeout(t)
         \/ \E m \in Modules, v \in {"yes", "no"} : SetModuleOutput(m, v)
         \/ \E d \in Data : Scan(d)
         \/ BeginModules \/ RunModule \/ ModuleFails \/ BeginEval
  PROVE  IInv'
<1> USE DEF IInv
<1>1. ASSUME NEW t \in Timeouts, SetTimeout(t) PROVE IInv'
  <2>1. RulesInv'
    BY <1>1, RulesUnchanged DEF SetTimeout, controlVars
  <2>2. ControlInv'
    BY <1>1 DEF SetTimeout, controlVars, ControlInv, scanning
  <2>3. PatternsInv'
    BY <1>1, PatternsUnchanged DEF SetTimeout, controlVars, ruleVars
  <2> QED
    BY <2>1, <2>2, <2>3
<1>2. ASSUME NEW m \in Modules, NEW v, SetModuleOutput(m, v) PROVE IInv'
  <2>1. RulesInv'
    BY <1>2, RulesUnchanged DEF SetModuleOutput, controlVars
  <2>2. ControlInv'
    BY <1>2 DEF SetModuleOutput, controlVars, ControlInv, scanning
  <2>3. PatternsInv'
    BY <1>2, PatternsUnchanged DEF SetModuleOutput, controlVars, settingVars, ruleVars
  <2> QED
    BY <2>1, <2>2, <2>3
<1>3. ASSUME NEW d \in Data, Scan(d) PROVE IInv'
  <2>1. Reset("deadline") /\ input' = d
    BY <1>3 DEF Scan
  <2>2. d \in Inputs
    BY ScannerAssumption
  <2>3. RulesInv'
    BY <2>1, ResetRules
  <2>4. PatternsInv'
    BY <2>1, <2>2, ResetPatterns
  <2>5. pc' = "deadline"
    BY <2>1 DEF Reset
  <2>6. ControlInv'
    BY <2>5 DEF ControlInv, scanning
  <2> QED
    BY <2>3, <2>4, <2>6
<1>4. CASE BeginModules
  <2>1. RulesInv'
    BY <1>4, RulesUnchanged DEF BeginModules, scanning
  <2>2. ControlInv'
    BY <1>4 DEF BeginModules, ControlInv, scanning
  <2>3. PatternsInv'
    BY <1>4, PatternsUnchanged DEF BeginModules, ruleVars
  <2> QED
    BY <2>1, <2>2, <2>3
<1>5. CASE RunModule
  <2>1. UNCHANGED <<controlVars, scan_state, input, matchVars, ruleVars, pattern_search_done>>
    BY <1>5 DEF RunModule
  <2>2. RulesInv'
    BY <2>1, RulesUnchanged DEF controlVars
  <2>3. ControlInv'
    BY <2>1 DEF controlVars, ControlInv
  <2>4. PatternsInv'
    BY <2>1, PatternsUnchanged DEF controlVars, ruleVars
  <2> QED
    BY <2>2, <2>3, <2>4
<1>6. CASE ModuleFails
  <2>1. RulesInv'
    BY <1>6, RulesUnchanged DEF ModuleFails, scanning
  <2>2. ControlInv'
    BY <1>6 DEF ModuleFails, ControlInv, scanning
  <2>3. PatternsInv'
    BY <1>6, PatternsUnchanged DEF ModuleFails, settingVars
  <2> QED
    BY <2>1, <2>2, <2>3
<1>7. CASE BeginEval
  <2>1. RulesInv'
    BY <1>7, RulesUnchanged DEF BeginEval, scanning
  <2>2. ControlInv'
    BY <1>7 DEF BeginEval, ControlInv, scanning
  <2>3. PatternsInv'
    BY <1>7, PatternsUnchanged DEF BeginEval, settingVars
  <2> QED
    BY <2>1, <2>2, <2>3
<1> QED
  BY <1>1, <1>2, <1>3, <1>4, <1>5, <1>6, <1>7

\* The search for patterns, which finds data wherever it begins.
LEMMA IInvSearch ==
  ASSUME IInv, EvalSearches \/ SearchAtom \/ SearchEnds \/ SearchTimesOut
  PROVE  IInv'
<1> USE DEF IInv
<1>1. CASE EvalSearches
  <2>1. pc = "eval" /\ ~pattern_search_done
    BY <1>1 DEF EvalSearches
  <2>2. scan_state = "ScanningData"
    BY <2>1 DEF ControlInv
  <2>3. SearchBegins("eval")
    BY <1>1, <2>2 DEF EvalSearches, SearchPanics
  <2>4. RulesInv'
    BY <2>1, <2>3, RulesUnchanged DEF SearchBegins, scanning
  <2>5. ControlInv'
    BY <2>2, <2>3 DEF SearchBegins, ControlInv, scanning
  <2>6. PICK disabled : TrackMatch(input.anchored \ disabled, disabled)
    BY <2>3 DEF SearchBegins
  <2>7. input.anchored \ disabled \subseteq Patterns
    BY DEF PatternsInv, Inputs
  <2>8. input' = input /\ pc' = "search"
    BY <2>3 DEF SearchBegins, settingVars
  <2>9. PatternsInv'
    BY <2>6, <2>7, <2>8, TrackMatchPatterns
  <2> QED
    BY <2>4, <2>5, <2>9
<1>2. CASE SearchAtom
  <2>1. pc = "search" /\ UNCHANGED <<pc, taken, caller, scan_state, settingVars, ruleVars,
                                     pattern_search_done>> /\ atom' = atom + 1
    BY <1>2 DEF SearchAtom
  <2>2. RulesInv'
    BY <2>1, RulesUnchanged
  <2>3. ControlInv'
    BY <2>1 DEF ControlInv
  <2>4. input' = input
    BY <2>1 DEF settingVars
  <2>5. CASE input.atoms[atom] \in disabled_patterns
    <3>1. UNCHANGED matchVars
      BY <1>2, <2>5 DEF SearchAtom
    <3> QED
      BY <2>1, <2>2, <2>3, <2>4, <3>1, PatternsUnchanged
  <2>6. CASE input.atoms[atom] \notin disabled_patterns
    <3>1. TrackMatch({input.atoms[atom]}, disabled_patterns)
      BY <1>2, <2>6 DEF SearchAtom
    <3>2. atom <= Len(input.atoms) /\ input.atoms \in Seq(Patterns)
      BY <1>2 DEF SearchAtom, PatternsInv, Inputs
    <3>3. atom \in Nat \ {0}
      BY <2>1 DEF ControlInv
    <3>4. {input.atoms[atom]} \subseteq Patterns
      BY <3>2, <3>3
    <3>5. PatternsInv'
      BY <2>1, <2>4, <3>1, <3>4, TrackMatchPatterns
    <3> QED
      BY <2>2, <2>3, <3>5
  <2> QED
    BY <2>5, <2>6
<1>3. CASE SearchEnds
  <2>1. RulesInv'
    BY <1>3, RulesUnchanged DEF SearchEnds, scanning
  <2>2. ControlInv'
    BY <1>3 DEF SearchEnds, ControlInv, scanning
  <2>3. pc' = "eval"
    BY <1>3 DEF SearchEnds, ControlInv
  <2>4. PatternsInv'
    BY <1>3, <2>3, PatternsUnchanged DEF SearchEnds, settingVars
  <2> QED
    BY <2>1, <2>2, <2>4
<1>4. CASE SearchTimesOut
  <2>1. pc = "search" /\ caller = "eval" /\ pc' = "eval" /\ scan_state' = "Timeout"
        /\ pattern_search_done' = TRUE
    BY <1>4 DEF SearchTimesOut, ControlInv
  <2>2. RulesInv'
    BY <1>4, <2>1, RulesUnchanged DEF SearchTimesOut, scanning
  <2>3. ControlInv'
    BY <1>4, <2>1 DEF SearchTimesOut, ControlInv, scanning
  <2>4. PatternsInv'
    BY <1>4, <2>1, PatternsUnchanged DEF SearchTimesOut, settingVars
  <2> QED
    BY <2>2, <2>3, <2>4
<1> QED
  BY <1>1, <1>2, <1>3, <1>4

\* The conditions.
LEMMA IInvEval ==
  ASSUME IInv, EnterNamespace \/ RuleMatch \/ RuleNoMatch \/ GlobalNoMatch
  PROVE  IInv'
<1> USE DEF IInv
<1>1. pc \in {"enter", "eval"} /\ pc' \in {"enter", "eval"}
  BY DEF EnterNamespace, RuleMatch, RuleNoMatch, GlobalNoMatch, Evaluable, ContinueWith
<1>2. UNCHANGED <<scan_state, taken, caller, pattern_search_done, matchVars, input>>
  BY DEF EnterNamespace, RuleMatch, RuleNoMatch, GlobalNoMatch, evalUnchanged, settingVars
<1>3. ControlInv'
  BY <1>1, <1>2 DEF ControlInv, scanning
<1>4. PatternsInv'
  BY <1>1, <1>2, PatternsUnchanged
<1>5. CASE EnterNamespace
  BY <1>1, <1>3, <1>4, <1>5, RulesUnchanged DEF EnterNamespace, scanning
<1>6. CASE RuleMatch
  BY <1>3, <1>4, <1>6, RuleMatchRules
<1>7. CASE RuleNoMatch
  <2>1. UNCHANGED <<matching_rules_per_ns, ns_order, matching_rules, rule_bits>>
    BY <1>7 DEF RuleNoMatch
  <2>2. Tracked' = Tracked /\ Reported' = Reported
    BY <2>1 DEF Tracked, Reported
  <2>3. pc \in scanning
    BY <1>1 DEF scanning
  <2>4. RulesInv'
    BY <2>1, <2>2, <2>3 DEF RulesInv, RulesTyped, BitsAreTracked
  <2> QED
    BY <1>3, <1>4, <2>4
<1>8. CASE GlobalNoMatch
  BY <1>3, <1>4, <1>8, GlobalNoMatchRules
<1> QED
  BY <1>5, <1>6, <1>7, <1>8

\* The end of a scan: neither of its panics happens.
LEMMA IInvReturns ==
  ASSUME IInv, NEW trapped \in BOOLEAN, ScanReturns(trapped)
  PROVE  IInv'
<1> USE DEF IInv
<1>1. pc \in {"enter", "eval"}
  BY DEF ScanReturns, EvalStops
<1>2. Reported = {}
  BY <1>1 DEF RulesInv, scanning
<1>3. scan_state = "ScanningData" \/ TimedOut(trapped)
  BY <1>1 DEF ControlInv, TimedOut
<1>4. MoveMatchingRules /\ pc' = "ready"
  BY <1>2, <1>3 DEF ScanReturns
<1>5. RulesInv'
  BY <1>2, <1>4, MoveMatchingRulesRules
<1>6. ControlInv'
  BY <1>4 DEF ControlInv, scanning
<1>7. UNCHANGED <<matchVars, input>>
  BY DEF ScanReturns, settingVars
<1>8. PatternsInv'
  BY <1>4, <1>7, PatternsUnchanged
<1> QED
  BY <1>5, <1>6, <1>8

\* The heartbeat thread, and steps that change nothing.
LEMMA IInvIdle ==
  ASSUME IInv, TickEpoch \/ TickCounter \/ UNCHANGED vars
  PROVE  IInv'
<1> USE DEF IInv
<1>1. UNCHANGED <<controlVars, scan_state, settingVars, matchVars, ruleVars, pattern_search_done>>
  BY DEF TickEpoch, TickCounter, vars, ctxVars
<1>2. UNCHANGED <<pc, taken, caller, input, rule_bits>>
  BY <1>1 DEF controlVars, settingVars, ruleVars
<1>3. RulesInv'
  BY <1>1, <1>2, RulesUnchanged
<1>4. ControlInv'
  BY <1>1, <1>2 DEF ControlInv, controlVars
<1>5. PatternsInv'
  BY <1>1, <1>2, PatternsUnchanged
<1> QED
  BY <1>3, <1>4, <1>5

LEMMA IInvNext == IInv /\ [Next]_vars => IInv'
<1> SUFFICES ASSUME IInv, [Next]_vars PROVE IInv'
  OBVIOUS
<1>1. CASE \/ \E t \in Timeouts : SetTimeout(t)
           \/ \E m \in Modules, v \in {"yes", "no"} : SetModuleOutput(m, v)
           \/ \E d \in Data : Scan(d)
           \/ BeginModules \/ RunModule \/ ModuleFails \/ BeginEval
  BY <1>1, IInvCalls
<1>2. CASE EvalSearches \/ SearchAtom \/ SearchEnds \/ SearchTimesOut
  BY <1>2, IInvSearch
<1>3. CASE EnterNamespace \/ RuleMatch \/ RuleNoMatch \/ GlobalNoMatch
  BY <1>3, IInvEval
<1>4. CASE \E trapped \in BOOLEAN : ScanReturns(trapped)
  BY <1>4, IInvReturns
<1>5. CASE TickEpoch \/ TickCounter \/ UNCHANGED vars
  BY <1>5, IInvIdle
<1> QED
  BY <1>1, <1>2, <1>3, <1>4, <1>5 DEF Next, ScanStep

-----------------------------------------------------------------------------

\* For any rules and any sequence of calls, the bitmap of matching rules has
\* exactly the bits of the rules in the vectors.
THEOREM BitsAlwaysTracked == Spec => []BitsAreTracked
<1>1. IInv => BitsAreTracked
  BY DEF IInv, RulesInv
<1> QED
  BY <1>1, IInvInit, IInvNext, PTL DEF Spec

\* No scan panics: neither the search without data, nor the assertion in
\* eval_conditions, nor the unreachable!() of scan_impl.
THEOREM ScanNeverPanics == Spec => []NeverPanics
<1>1. IInv => NeverPanics
  BY DEF IInv, ControlInv, NeverPanics, scanning
<1> QED
  BY <1>1, IInvInit, IInvNext, PTL DEF Spec

\* The condition under which reset clears is enough: nothing of the last scan
\* is left when the modules run, however that scan ended.
THEOREM ResetAlwaysComplete == Spec => []ResetIsComplete
<1>1. IInv => ResetIsComplete
  BY DEF IInv, PatternsInv, RulesInv, BitsAreTracked, ResetIsComplete
<1> QED
  BY <1>1, IInvInit, IInvNext, PTL DEF Spec

-----------------------------------------------------------------------------
(* The number of private rules that matched                                *)

\* Rules are evaluated in order, so a rule is counted at most once.
CountInv ==
  /\ PrivateCountIsExact
  /\ rule \in 1..(NumRules + 1)
  /\ pc \in {"enter", "eval", "search"} => \A r \in Tracked : r < rule

\* Rules form a finite interval, of which the private ones are a part.
LEMMA RulesFinite ==
  /\ NumRules \in Nat /\ IsFiniteSet(Rules) /\ Cardinality(Rules) = NumRules
  /\ \A X : IsFiniteSet(X \cap PrivateRules) /\ Cardinality(X \cap PrivateRules) \in Nat
<1>1. NumRules \in Nat \ {0} /\ PrivateRules \subseteq Rules
  BY ScanContextAssumption
<1>2. IsFiniteSet(Rules) /\ Cardinality(Rules) = NumRules
  BY <1>1, FS_Interval DEF Rules
<1>3. ASSUME NEW X
      PROVE  IsFiniteSet(X \cap PrivateRules) /\ Cardinality(X \cap PrivateRules) \in Nat
  <2>1. X \cap PrivateRules \in SUBSET Rules
    BY <1>1
  <2>2. IsFiniteSet(X \cap PrivateRules)
    BY <1>2, <2>1, FS_Subset
  <2> QED
    BY <2>2, FS_CardinalityType
<1> QED
  BY <1>1, <1>2, <1>3

\* After a namespace comes a later rule, or the end.
LEMMA AfterNamespaceLater ==
  ASSUME NEW r \in Rules
  PROVE  AfterNamespace(r) \in 1..(NumRules + 1) /\ r < AfterNamespace(r)
<1> DEFINE Q == {q \in Rules : NamespaceOf[q] <= NamespaceOf[r]}
<1>1. NumRules \in Nat /\ NamespaceOf \in [Rules -> Nat]
      /\ \A p, q \in Rules : p < q => NamespaceOf[p] <= NamespaceOf[q]
  BY ScanContextAssumption
<1>2. r \in Nat /\ 1 <= r /\ r <= NumRules
  BY <1>1 DEF Rules
<1>3. 1..r \subseteq Rules
  BY <1>1, <1>2 DEF Rules
<1>4. ASSUME NEW q \in 1..r PROVE q \in Q
  <2>1. q \in Rules /\ (q < r \/ q = r)
    BY <1>2, <1>3
  <2>2. NamespaceOf[q] <= NamespaceOf[r]
    BY <1>1, <2>1
  <2> QED
    BY <2>1, <2>2
<1>5. Q \in SUBSET Rules /\ 1..r \in SUBSET Q
  BY <1>4
<1> HIDE DEF Q
<1>6. IsFiniteSet(Q) /\ Cardinality(Q) <= NumRules
  BY <1>5, RulesFinite, FS_Subset
<1>7. Cardinality(1..r) <= Cardinality(Q)
  BY <1>5, <1>6, FS_Subset
<1>8. Cardinality(1..r) = r
  BY <1>2, FS_Interval
<1>9. Cardinality(Q) \in Nat
  BY <1>6, FS_CardinalityType
<1>10. AfterNamespace(r) = Cardinality(Q) + 1
  BY DEF AfterNamespace, Q
<1> QED
  BY <1>1, <1>2, <1>6, <1>7, <1>8, <1>9, <1>10

LEMMA CountInvInit == Init => CountInv
<1> SUFFICES ASSUME Init PROVE CountInv
  OBVIOUS
<1>1. matching_rules_per_ns = [n \in Namespaces |-> <<>>] /\ matching_rules = <<>>
      /\ rule = 1 /\ num_matching_private_rules = 0
  BY DEF Init, InitContext
<1>2. Tracked = {}
  BY <1>1, TrackedIs, AllOfEmpty
<1>3. Reported = {}
  BY <1>1 DEF Reported
<1>4. NumRules \in Nat
  BY ScanContextAssumption
<1> QED
  BY <1>1, <1>2, <1>3, <1>4, FS_EmptySet DEF CountInv, PrivateCountIsExact

\* Steps that leave the rules and the position in them alone.
LEMMA CountUnchanged ==
  ASSUME CountInv, UNCHANGED ruleVars, rule' = rule,
         pc' \in {"enter", "eval", "search"} => pc \in {"enter", "eval", "search"}
  PROVE  CountInv'
<1>1. UNCHANGED <<matching_rules_per_ns, matching_rules, num_matching_private_rules>>
  BY DEF ruleVars
<1>2. Tracked' = Tracked /\ Reported' = Reported
  BY <1>1 DEF Tracked, Reported
<1> QED
  BY <1>1, <1>2 DEF CountInv, PrivateCountIsExact

\* reset: no rules, and a count of 0.
LEMMA CountReset ==
  ASSUME RulesInv, NEW next, Reset(next), CountInv, rule' = rule,
         next \notin {"enter", "eval", "search"}
  PROVE  CountInv'
<1>1. RulesInv' /\ rule_bits' = {}
  BY ResetRules
<1>2. Tracked' \cup Reported' = {}
  BY <1>1 DEF RulesInv, BitsAreTracked
<1>3. num_matching_private_rules' = 0 /\ pc' = next
  BY DEF Reset
<1>4. Cardinality((Tracked' \cup Reported') \cap PrivateRules) = 0
  BY <1>2, FS_EmptySet
<1> QED
  BY <1>3, <1>4 DEF CountInv, PrivateCountIsExact

\* Only rules are tracked.
LEMMA TrackedAreRules ==
  ASSUME RulesInv
  PROVE  Tracked \subseteq Rules
<1> SUFFICES ASSUME NEW r \in Tracked PROVE r \in Rules
  OBVIOUS
<1>1. PICK n \in Namespaces : r \in ToSet(matching_rules_per_ns[n])
  BY DEF Tracked
<1>2. matching_rules_per_ns[n] \in Seq(Rules)
  BY DEF RulesInv, RulesTyped
<1> QED
  BY <1>1, <1>2, ToSetEmpty

\* A rule that matches was not counted before.
LEMMA CountRuleMatch ==
  ASSUME RulesInv, CountInv, RuleMatch
  PROVE  CountInv'
<1> DEFINE X == Tracked \cap PrivateRules
<1>1. rule \in Rules /\ pc = "eval" /\ NamespaceOf[rule] \in Namespaces
  BY DEF RuleMatch, Evaluable, Namespaces
<1>2. Reported = {} /\ matching_rules_per_ns \in [Namespaces -> Seq(Rules)]
  BY <1>1 DEF RulesInv, RulesTyped, scanning
<1>3. matching_rules_per_ns' = [matching_rules_per_ns EXCEPT ![NamespaceOf[rule]] = Append(@, rule)]
      /\ matching_rules' = matching_rules
  BY DEF RuleMatch
<1>4. Tracked' = Tracked \cup {rule}
  BY <1>1, <1>2, <1>3, AllOfAppend, TrackedIs, TrackedIsNext
<1>5. Reported' = Reported
  BY <1>3 DEF Reported
<1>6. rule \notin Tracked /\ \A r \in Tracked : r < rule
  BY <1>1 DEF CountInv
<1>7. num_matching_private_rules = Cardinality(X) /\ IsFiniteSet(X) /\ Cardinality(X) \in Nat
  BY <1>2, RulesFinite DEF CountInv, PrivateCountIsExact
<1>8. num_matching_private_rules' = Cardinality(Tracked' \cap PrivateRules)
  <2>1. CASE rule \in PrivateRules
    <3>1. Tracked' \cap PrivateRules = X \cup {rule}
      BY <1>4, <2>1
    <3>2. Cardinality(X \cup {rule}) = Cardinality(X) + 1
      BY <1>6, <1>7, FS_AddElement
    <3>3. num_matching_private_rules' = num_matching_private_rules + 1
      BY <2>1 DEF RuleMatch
    <3> QED
      BY <1>7, <3>1, <3>2, <3>3
  <2>2. CASE rule \notin PrivateRules
    <3>1. Tracked' \cap PrivateRules = X
      BY <1>4, <2>2
    <3>2. num_matching_private_rules' = num_matching_private_rules + 0
      BY <2>2 DEF RuleMatch
    <3> QED
      BY <1>7, <3>1, <3>2
  <2> QED
    BY <2>1, <2>2
<1>9. rule' = rule + 1
  BY DEF RuleMatch, ContinueWith
<1>10. rule \in Nat /\ 1 <= rule /\ rule <= NumRules /\ NumRules \in Nat
  BY <1>1, RulesFinite DEF Rules
<1>11. rule' \in 1..(NumRules + 1)
  BY <1>9, <1>10
<1>12. \A r \in Tracked : r \in Nat
  BY TrackedAreRules DEF Rules
<1>13. \A r \in Tracked' : r < rule'
  BY <1>4, <1>6, <1>9, <1>10, <1>12
<1>14. Tracked' \cup Reported' = Tracked'
  BY <1>2, <1>5
<1> QED
  BY <1>8, <1>11, <1>13, <1>14 DEF CountInv, PrivateCountIsExact

\* A condition that is false counts nothing.
LEMMA CountRuleNoMatch ==
  ASSUME RulesInv, CountInv, RuleNoMatch
  PROVE  CountInv'
<1>1. rule \in Rules /\ pc = "eval" /\ rule' = rule + 1
  BY DEF RuleNoMatch, Evaluable, ContinueWith
<1>2. UNCHANGED <<matching_rules_per_ns, matching_rules, num_matching_private_rules>>
  BY DEF RuleNoMatch
<1>3. Tracked' = Tracked /\ Reported' = Reported
  BY <1>2 DEF Tracked, Reported
<1>4. rule \in Nat /\ 1 <= rule /\ rule <= NumRules /\ NumRules \in Nat
  BY <1>1, RulesFinite DEF Rules
<1>5. rule' \in 1..(NumRules + 1)
  BY <1>1, <1>4
<1>6. \A r \in Tracked : r \in Nat /\ r < rule
  BY <1>1, TrackedAreRules DEF CountInv, Rules
<1>7. \A r \in Tracked' : r < rule'
  BY <1>1, <1>3, <1>4, <1>6
<1> QED
  BY <1>2, <1>3, <1>5, <1>7 DEF CountInv, PrivateCountIsExact

\* The private rules that a failed global rule takes back were all counted.
LEMMA CountGlobalNoMatch ==
  ASSUME RulesInv, CountInv, GlobalNoMatch
  PROVE  CountInv'
<1> DEFINE n == NamespaceOf[rule]
           R == ToSet(matching_rules_per_ns[n])
           X == Tracked \cap PrivateRules
<1>1. rule \in Rules /\ pc = "eval" /\ n \in Namespaces
  BY DEF GlobalNoMatch, Evaluable, Namespaces
<1>2. /\ Reported = {} /\ matching_rules_per_ns \in [Namespaces -> Seq(Rules)]
      /\ \A m \in Namespaces : \A r \in ToSet(matching_rules_per_ns[m]) : NamespaceOf[r] = m
  BY <1>1 DEF RulesInv, RulesTyped, scanning
<1>3. /\ matching_rules_per_ns' = [matching_rules_per_ns EXCEPT ![n] = <<>>]
      /\ matching_rules' = matching_rules
      /\ num_matching_private_rules'
           = num_matching_private_rules - Cardinality(R \cap PrivateRules)
      /\ rule' = AfterNamespace(rule)
  BY DEF GlobalNoMatch, ContinueWith
<1>4. Tracked' = Tracked \ R
  BY <1>1, <1>2, <1>3, AllOfClear, TrackedIs, TrackedIsNext
<1>5. R \subseteq Tracked
  BY <1>1 DEF Tracked
<1> HIDE DEF R, n
<1>6. Reported' = {}
  <2>1. Reported' = Reported
    BY <1>3 DEF Reported
  <2> QED
    BY <1>2, <2>1
<1>7. num_matching_private_rules = Cardinality(X) /\ IsFiniteSet(X)
  BY <1>2, RulesFinite DEF CountInv, PrivateCountIsExact
<1>8. Tracked' \cap PrivateRules = X \ R /\ X \cap R = R \cap PrivateRules
  BY <1>4, <1>5
<1> HIDE DEF X
<1>9. Cardinality(X \ R) = Cardinality(X) - Cardinality(X \cap R)
  BY <1>7, FS_Difference
<1>10. num_matching_private_rules' = Cardinality((Tracked' \cup Reported') \cap PrivateRules)
  <2>1. (Tracked' \cup Reported') \cap PrivateRules = X \ R
    BY <1>6, <1>8
  <2> QED
    BY <1>3, <1>7, <1>8, <1>9, <2>1
<1>11. rule' \in 1..(NumRules + 1) /\ rule < rule' /\ rule' \in Nat /\ rule \in Nat
  BY <1>1, <1>3, AfterNamespaceLater, RulesFinite DEF Rules
<1>12. \A r \in Tracked : r \in Nat /\ r < rule
  BY <1>1, TrackedAreRules DEF CountInv, Rules
<1>13. \A r \in Tracked' : r < rule'
  BY <1>4, <1>11, <1>12
<1> QED
  BY <1>10, <1>11, <1>13 DEF CountInv, PrivateCountIsExact

\* The rules that are moved to matching_rules were those counted.
LEMMA CountMoves ==
  ASSUME RulesInv, CountInv, Reported = {}, MoveMatchingRules, rule' = rule, pc' = "ready"
  PROVE  CountInv'
<1>1. matching_rules' = Moved /\ matching_rules_per_ns' = [m \in Namespaces |-> <<>>]
      /\ num_matching_private_rules' = num_matching_private_rules
  BY DEF MoveMatchingRules
<1>2. Tracked' = {}
  BY <1>1, AllOfEmpty, TrackedIsNext
<1>3. Reported' = AllRuns(matching_rules')
  BY DEF Reported, AllRuns
<1>4. Reported' = Tracked
  BY <1>1, <1>3, MovedRules
<1>5. Tracked' \cup Reported' = Tracked \cup Reported
  BY <1>2, <1>4
<1> QED
  BY <1>1, <1>5 DEF CountInv, PrivateCountIsExact

LEMMA CountReturns ==
  ASSUME IInv, CountInv, NEW trapped \in BOOLEAN, ScanReturns(trapped)
  PROVE  CountInv'
<1>1. pc \in {"enter", "eval"}
  BY DEF ScanReturns, EvalStops
<1>2. Reported = {} /\ RulesInv
  BY <1>1 DEF IInv, RulesInv, scanning
<1>3. scan_state = "ScanningData" \/ TimedOut(trapped)
  BY <1>1 DEF IInv, ControlInv, TimedOut
<1>4. MoveMatchingRules /\ pc' = "ready" /\ rule' = rule
  BY <1>2, <1>3 DEF ScanReturns
<1> QED
  BY <1>2, <1>4, CountMoves

\* Evaluation begins with the first rule and none tracked.
LEMMA CountBeginEval ==
  ASSUME IInv, CountInv, BeginEval
  PROVE  CountInv'
<1>1. Tracked = {}
  BY DEF IInv, RulesInv, PatternsInv, BitsAreTracked, BeginEval
<1>2. UNCHANGED <<matching_rules_per_ns, matching_rules, num_matching_private_rules>>
      /\ rule' = 1
  BY DEF BeginEval, ruleVars
<1>3. Tracked' = Tracked /\ Reported' = Reported
  BY <1>2 DEF Tracked, Reported
<1>4. PrivateCountIsExact'
  BY <1>2, <1>3 DEF CountInv, PrivateCountIsExact
<1>5. rule' \in 1..(NumRules + 1)
  BY <1>2, RulesFinite
<1> QED
  BY <1>1, <1>3, <1>4, <1>5 DEF CountInv

LEMMA CountInvNext == IInv /\ CountInv /\ [Next]_vars => CountInv'
<1> SUFFICES ASSUME IInv, CountInv, [Next]_vars PROVE CountInv'
  OBVIOUS
<1>1. CASE \E d \in Data : Scan(d)
  <2>1. PICK d \in Data : Scan(d)
    BY <1>1
  <2>2. Reset("deadline") /\ rule' = rule
    BY <2>1 DEF Scan
  <2> QED
    BY <2>2, CountReset DEF IInv
<1>2. CASE \/ \E t \in Timeouts : SetTimeout(t)
           \/ \E m \in Modules, v \in {"yes", "no"} : SetModuleOutput(m, v)
           \/ BeginModules \/ RunModule \/ ModuleFails
  <2>1. UNCHANGED ruleVars /\ rule' = rule
    BY <1>2 DEF SetTimeout, SetModuleOutput, BeginModules, RunModule, ModuleFails, controlVars
  <2>2. pc' = pc \/ pc' \in {"modules", "ready"}
    BY <1>2 DEF SetTimeout, SetModuleOutput, BeginModules, RunModule, ModuleFails, controlVars
  <2> QED
    BY <2>1, <2>2, CountUnchanged
<1>3. CASE EvalSearches \/ SearchAtom \/ SearchEnds \/ SearchTimesOut \/ EnterNamespace
  <2>1. UNCHANGED ruleVars /\ rule' = rule
    BY <1>3 DEF EvalSearches, SearchBegins, SearchPanics, SearchAtom, SearchEnds,
                SearchTimesOut, EnterNamespace
  <2>2. pc \in {"enter", "eval", "search"}
    BY <1>3 DEF EvalSearches, SearchAtom, SearchEnds, SearchTimesOut, EnterNamespace
  <2> QED
    BY <2>1, <2>2, CountUnchanged
<1>4. CASE BeginEval \/ RuleMatch \/ RuleNoMatch \/ GlobalNoMatch
  BY <1>4, CountBeginEval, CountRuleMatch, CountRuleNoMatch, CountGlobalNoMatch DEF IInv
<1>5. CASE \E trapped \in BOOLEAN : ScanReturns(trapped)
  BY <1>5, CountReturns
<1>6. CASE TickEpoch \/ TickCounter \/ UNCHANGED vars
  <2>1. UNCHANGED <<controlVars, ruleVars>>
    BY <1>6 DEF TickEpoch, TickCounter, vars, ctxVars
  <2>2. UNCHANGED <<pc, rule>>
    BY <2>1 DEF controlVars
  <2> QED
    BY <2>1, <2>2, CountUnchanged
<1> QED
  BY <1>1, <1>2, <1>3, <1>4, <1>5, <1>6 DEF Next, ScanStep

\* num_matching_private_rules is the number of private rules among those
\* tracked or reported, also after a failed global rule took some back: the
\* length of MatchingRules never wraps around.
THEOREM PrivateCountAlwaysExact == Spec => []PrivateCountIsExact
<1>1. CountInv => PrivateCountIsExact
  BY DEF CountInv
<1> QED
  BY <1>1, IInvInit, CountInvInit, IInvNext, CountInvNext, PTL DEF Spec

-----------------------------------------------------------------------------
(* Type correctness                                                        *)

Ticks == Nat \cup {Year}
Answers == {"none", "yes", "no"}

\* The part of TypeOK that does not follow from the invariants above.
CallTyped ==
  /\ scan_state \in {"Idle", "ScanningData", "Timeout", "Finished"}
  /\ taken \in {"Idle", "ScanningData"} /\ caller = "eval"
  /\ atom \in Nat /\ pattern_search_done \in BOOLEAN
  /\ result \in {"None", "Ok", "Timeout", "ModuleError"}
ModulesTyped ==
  /\ mod \in Nat \ {0} /\ filesize \in Int
  /\ root_struct \in [Modules -> BOOLEAN] /\ module_outputs \subseteq Modules
  /\ user_outputs \in [Modules -> Answers] /\ given \in [Modules -> Answers]
ClocksTyped ==
  /\ timeout \in Ticks /\ hb_left \in Ticks /\ epoch_left \in Ticks
  /\ heartbeat \in {"off", "sleep", "counter"}
OthersTyped ==
  /\ num_non_matching_private_rules \in Nat
  /\ disabled_patterns \subseteq Patterns

InheritedTyped == inherited \in Seq(Namespaces)

TypeInv == CallTyped /\ ModulesTyped /\ ClocksTyped /\ OthersTyped /\ InheritedTyped

LEMMA TypeInvInit == Init => TypeInv
<1> SUFFICES ASSUME Init PROVE TypeInv
  OBVIOUS
<1> USE DEF Init, InitContext
<1>1. CallTyped
  BY DEF CallTyped
<1>2. ModulesTyped
  BY DEF ModulesTyped, Answers, NoOutputs, Undefined
<1>3. ClocksTyped
  BY DEF ClocksTyped, Ticks
<1>4. OthersTyped
  BY DEF OthersTyped
<1>5. InheritedTyped
  BY DEF InheritedTyped
<1> QED
  BY <1>1, <1>2, <1>3, <1>4, <1>5 DEF TypeInv

LEMMA CallTypedNext ==
  ASSUME CallTyped, [Next]_vars
  PROVE  CallTyped'
<1> USE DEF CallTyped
<1>1. CASE \E t \in Timeouts : SetTimeout(t)
  BY <1>1 DEF SetTimeout, controlVars
<1>2. CASE \E m \in Modules, v \in {"yes", "no"} : SetModuleOutput(m, v)
  BY <1>2 DEF SetModuleOutput, controlVars
<1>3. CASE \E d \in Data : Scan(d)
  BY <1>3 DEF Scan, Reset
<1>4. CASE BeginModules \/ RunModule \/ ModuleFails \/ BeginEval
  BY <1>4 DEF BeginModules, RunModule, ModuleFails, BeginEval, controlVars
<1>5. CASE EnterNamespace \/ RuleMatch \/ RuleNoMatch \/ GlobalNoMatch
  BY <1>5 DEF EnterNamespace, RuleMatch, RuleNoMatch, GlobalNoMatch, evalUnchanged
<1>6. CASE EvalSearches
  BY <1>6 DEF EvalSearches, SearchBegins, SearchPanics
<1>7. CASE SearchAtom \/ SearchEnds \/ SearchTimesOut
  <2>1. CASE SearchAtom
    <3>1. atom' = atom + 1
          /\ UNCHANGED <<taken, caller, scan_state, pattern_search_done, result>>
      BY <2>1 DEF SearchAtom
    <3> QED
      BY <3>1
  <2>2. CASE SearchEnds
    BY <2>2 DEF SearchEnds
  <2>3. CASE SearchTimesOut
    BY <2>3 DEF SearchTimesOut
  <2> QED
    BY <1>7, <2>1, <2>2, <2>3
<1>8. CASE \E trapped \in BOOLEAN : ScanReturns(trapped)
  BY <1>8 DEF ScanReturns
<1>9. CASE TickEpoch \/ TickCounter \/ UNCHANGED vars
  BY <1>9 DEF TickEpoch, TickCounter, vars, ctxVars, controlVars
<1> QED
  BY <1>1, <1>2, <1>3, <1>4, <1>5, <1>6, <1>7, <1>8, <1>9 DEF Next, ScanStep

LEMMA ModulesTypedNext ==
  ASSUME ModulesTyped, PatternsInv, [Next]_vars
  PROVE  ModulesTyped'
<1> USE DEF ModulesTyped
<1>0. Provided \in [Modules -> Answers]
  BY DEF Provided, Left, NoOutputs, Answers
<1>1. CASE \E t \in Timeouts : SetTimeout(t)
  BY <1>0, <1>1 DEF SetTimeout, moduleVars
<1>2. CASE \E m \in Modules, v \in {"yes", "no"} : SetModuleOutput(m, v)
  BY <1>0, <1>2 DEF SetModuleOutput, settingVars, Answers
<1>3. CASE \E d \in Data : Scan(d)
  BY <1>0, <1>3 DEF Scan
<1>4. CASE BeginModules
  <2>1. input.size \in Int
    BY DEF PatternsInv, Inputs
  <2> QED
    BY <1>4, <2>1 DEF BeginModules, moduleVars
<1>5. CASE RunModule
  <2> DEFINE m == Imports[mod]
  <2>1. m \in Modules /\ mod' = mod + 1
    <3>1. mod \in 1..Len(Imports)
      BY <1>5 DEF RunModule, ModulesTyped
    <3> QED
      BY <1>5, <3>1, ScannerAssumption DEF RunModule
  <2>2. UNCHANGED <<filesize, given>>
    BY <1>5 DEF RunModule
  <2>3. user_outputs' \in [Modules -> Answers]
    BY <1>5, <2>1 DEF RunModule, Answers
  <2>4. module_outputs' \subseteq Modules
    BY <1>5, <2>1 DEF RunModule
  <2>5. root_struct' \in [Modules -> BOOLEAN]
    BY <1>5, <2>1 DEF RunModule
  <2> QED
    BY <2>1, <2>2, <2>3, <2>4, <2>5
<1>6. CASE ModuleFails \/ BeginEval \/ \E trapped \in BOOLEAN : ScanReturns(trapped)
  BY <1>6 DEF ModuleFails, BeginEval, ScanReturns, moduleVars, settingVars, NoOutputs, Answers
<1>7. CASE (EnterNamespace \/ EvalSearches \/ RuleMatch \/ RuleNoMatch \/ GlobalNoMatch
            \/ SearchAtom \/ SearchEnds \/ SearchTimesOut \/ TickEpoch \/ TickCounter)
           /\ UNCHANGED <<moduleVars, given, inherited>>
  <2>1. UNCHANGED settingVars
    BY <1>7 DEF EnterNamespace, EvalSearches, SearchBegins, SearchPanics, RuleMatch,
       RuleNoMatch, GlobalNoMatch, SearchAtom, SearchEnds, SearchTimesOut, TickEpoch,
       TickCounter, evalUnchanged
  <2> QED
    BY <1>7, <2>1 DEF settingVars, moduleVars
<1>8. CASE UNCHANGED vars
  BY <1>8 DEF vars, ctxVars, settingVars, moduleVars
<1> QED
  BY <1>1, <1>2, <1>3, <1>4, <1>5, <1>6, <1>7, <1>8 DEF Next, ScanStep

LEMMA ClocksTypedNext ==
  ASSUME ClocksTyped, [Next]_vars
  PROVE  ClocksTyped'
<1> USE DEF ClocksTyped
<1>1. CASE \E t \in Timeouts : SetTimeout(t)
  <2>1. Timeouts \subseteq Ticks
    BY ScanContextAssumption DEF Ticks
  <2> QED
    BY <1>1, <2>1 DEF SetTimeout, clockVars
<1>2. CASE \E d \in Data : Scan(d)
  BY <1>2 DEF Scan, Reset
<1>3. CASE BeginModules
  BY <1>3 DEF BeginModules, SetEpochDeadline
<1>4. CASE SearchTimesOut
  <2>1. 0 \in Ticks
    BY DEF Ticks
  <2> QED
    BY <1>4, <2>1 DEF SearchTimesOut, settingVars
<1>5. CASE TickEpoch \/ TickCounter
  <2>1. \A left \in Ticks : Tick(left) \in Ticks
    BY DEF Ticks, Tick, Year
  <2> QED
    BY <1>5, <2>1 DEF TickEpoch, TickCounter, settingVars
<1>6. CASE \/ \E m \in Modules, v \in {"yes", "no"} : SetModuleOutput(m, v)
           \/ RunModule \/ ModuleFails \/ BeginEval
           \/ EnterNamespace \/ EvalSearches \/ RuleMatch \/ RuleNoMatch \/ GlobalNoMatch
           \/ SearchAtom \/ SearchEnds
           \/ \E trapped \in BOOLEAN : ScanReturns(trapped)
           \/ UNCHANGED vars
  <2>1. UNCHANGED <<timeout, clockVars>>
    BY <1>6 DEF SetModuleOutput, RunModule, ModuleFails, BeginEval, EnterNamespace,
       EvalSearches, SearchBegins, SearchPanics, RuleMatch, RuleNoMatch, GlobalNoMatch,
       SearchAtom, SearchEnds, ScanReturns, evalUnchanged, settingVars, vars, ctxVars
  <2> QED
    BY <2>1 DEF clockVars
<1> QED
  BY <1>1, <1>2, <1>3, <1>4, <1>5, <1>6 DEF Next, ScanStep

\* What is disabled is a pattern, and what is counted a number.
LEMMA OthersTypedNext ==
  ASSUME OthersTyped, IInv, [Next]_vars
  PROVE  OthersTyped'
<1> USE DEF OthersTyped
<1>1. CASE \E d \in Data : Scan(d)
  BY <1>1 DEF Scan, Reset, ResetDisabled
<1>2. CASE EvalSearches
  <2>1. input.anchored \subseteq Patterns /\ input.size_out \subseteq Patterns
        /\ input.header_out \subseteq Patterns
    BY DEF IInv, PatternsInv, Inputs
  <2>2. occupied \subseteq Patterns /\ FastScanPatterns \subseteq Patterns
    BY ScanContextAssumption DEF IInv, PatternsInv
  <2>3. disabled_patterns' \subseteq Patterns
    BY <1>2, <2>1, <2>2 DEF EvalSearches, SearchBegins, SearchPanics, TrackMatch, matchVars
  <2>4. UNCHANGED ruleVars
    BY <1>2 DEF EvalSearches, SearchBegins, SearchPanics
  <2> QED
    BY <2>3, <2>4 DEF ruleVars
<1>3. CASE SearchAtom
  <2>1. occupied \subseteq Patterns /\ FastScanPatterns \subseteq Patterns
    BY ScanContextAssumption DEF IInv, PatternsInv
  <2>2. disabled_patterns' \subseteq Patterns
    BY <1>3, <2>1 DEF SearchAtom, TrackMatch, matchVars
  <2> QED
    BY <1>3, <2>2 DEF SearchAtom, ruleVars
<1>4. CASE RuleMatch \/ RuleNoMatch
  BY <1>4 DEF RuleMatch, RuleNoMatch, evalUnchanged, matchVars
<1>5. CASE GlobalNoMatch
  <2>1. \A X : Cardinality(X \cap PrivateRules) \in Nat
    BY RulesFinite
  <2>2. num_non_matching_private_rules' \in Nat
    BY <1>5, <2>1 DEF GlobalNoMatch
  <2> QED
    BY <1>5, <2>2 DEF GlobalNoMatch, evalUnchanged, matchVars
<1>6. CASE \E trapped \in BOOLEAN : ScanReturns(trapped)
  BY <1>6 DEF ScanReturns, MoveMatchingRules, matchVars, ruleVars
<1>7. CASE \/ \E t \in Timeouts : SetTimeout(t)
           \/ \E m \in Modules, v \in {"yes", "no"} : SetModuleOutput(m, v)
           \/ BeginModules \/ RunModule \/ ModuleFails \/ BeginEval
           \/ EnterNamespace \/ SearchEnds \/ SearchTimesOut
           \/ TickEpoch \/ TickCounter \/ UNCHANGED vars
  <2>1. UNCHANGED <<matchVars, ruleVars>>
    BY <1>7 DEF SetTimeout, SetModuleOutput, BeginModules, RunModule, ModuleFails, BeginEval,
       EnterNamespace, SearchEnds, SearchTimesOut, TickEpoch, TickCounter, vars, ctxVars
  <2> QED
    BY <2>1 DEF matchVars, ruleVars
<1> QED
  BY <1>1, <1>2, <1>3, <1>4, <1>5, <1>6, <1>7 DEF Next, ScanStep

\* Only the beginning of a scan records the order of the namespaces.
LEMMA InheritedUnchanged ==
  ASSUME [Next]_vars, \A d \in Data : ~Scan(d)
  PROVE  inherited' = inherited
BY DEF Next, ScanStep, SetTimeout, SetModuleOutput, BeginModules, RunModule, ModuleFails, BeginEval,
       ScanReturns, vars

LEMMA InheritedTypedNext ==
  ASSUME InheritedTyped, IInv, [Next]_vars
  PROVE  InheritedTyped'
<1>1. CASE \E d \in Data : Scan(d)
  <2>1. inherited' = ns_order
    BY <1>1 DEF Scan
  <2> QED
    BY <2>1 DEF InheritedTyped, IInv, RulesInv, RulesTyped
<1>2. CASE \A d \in Data : ~Scan(d)
  BY <1>2, InheritedUnchanged DEF InheritedTyped
<1> QED
  BY <1>1, <1>2

LEMMA TypeInvNext == IInv /\ TypeInv /\ [Next]_vars => TypeInv'
BY CallTypedNext, ModulesTypedNext, ClocksTypedNext, OthersTypedNext, InheritedTypedNext DEF TypeInv, IInv

\* The invariants together are all of TypeOK.
LEMMA TypeOKFollows == IInv /\ CountInv /\ TypeInv => TypeOK
<1> SUFFICES ASSUME IInv, CountInv, TypeInv PROVE TypeOK
  OBVIOUS
<1>1. Tracked \subseteq Rules
  BY TrackedAreRules DEF IInv
<1>2. Reported \subseteq Rules
  <2> SUFFICES ASSUME NEW r \in Reported PROVE r \in Rules
    OBVIOUS
  <2>1. PICK i \in 1..Len(matching_rules) : r \in ToSet(matching_rules[i])
    BY DEF Reported
  <2>2. matching_rules[i] \in Seq(Rules)
    BY DEF IInv, RulesInv, RulesTyped
  <2> QED
    BY <2>1, <2>2, ToSetEmpty
<1>3. rule_bits \subseteq Rules
  BY <1>1, <1>2 DEF IInv, RulesInv, BitsAreTracked
<1>4. num_matching_private_rules \in Nat
  BY RulesFinite DEF CountInv, PrivateCountIsExact
<1>5. pc \in {"ready", "deadline", "modules", "enter", "eval", "search", "panicked"}
  BY DEF IInv, ControlInv, scanning
<1>6. /\ input \in Inputs /\ occupied \subseteq Patterns /\ pattern_bits \subseteq Patterns
      /\ matches \in [Patterns -> Nat]
  BY DEF IInv, PatternsInv
<1>7. /\ matching_rules_per_ns \in [Namespaces -> Seq(Rules)]
      /\ {ns_order, inherited} \subseteq Seq(Namespaces) /\ matching_rules \in Seq(Seq(Rules))
      /\ rule \in 1..(NumRules + 1)
  BY DEF IInv, RulesInv, RulesTyped, CountInv, TypeInv, InheritedTyped
<1>8. /\ {timeout, hb_left, epoch_left} \subseteq Nat \cup {Year}
      /\ heartbeat \in {"off", "sleep", "counter"}
  BY DEF TypeInv, ClocksTyped, Ticks
<1>9. {user_outputs, given} \subseteq [Modules -> {"none", "yes", "no"}]
  BY DEF TypeInv, ModulesTyped, Answers
<1> QED
  BY <1>3, <1>4, <1>5, <1>6, <1>7, <1>8, <1>9
     DEF TypeOK, TypeInv, CallTyped, ModulesTyped, OthersTyped

\* Every variable of the scanner keeps its type, for any constants: counters
\* do not go below zero, rules are never evaluated past the last one, and a
\* clock without timeout never starts to run.
THEOREM ScannerAlwaysTyped == Spec => []TypeOK
BY IInvInit, CountInvInit, TypeInvInit, IInvNext, CountInvNext, TypeInvNext, TypeOKFollows,
   PTL DEF Spec

-----------------------------------------------------------------------------
(* Which rules match after the first k - 1 have been evaluated             *)

\* No global rule of namespace n before rule k is false.
Alive(T, n, k) == \A g \in GlobalRules : NamespaceOf[g] = n /\ g < k => g \in T

Matching(T, k) == {r \in Rules : r < k /\ r \in T /\ Alive(T, NamespaceOf[r], k)}

\* The rules up to the end of a namespace are those of it and of earlier ones.
LEMMA AfterNamespaceIs ==
  ASSUME NEW q \in Rules, NEW r \in Rules
  PROVE  r < AfterNamespace(q) <=> NamespaceOf[r] <= NamespaceOf[q]
<1> DEFINE Q == {p \in Rules : NamespaceOf[p] <= NamespaceOf[q]}
<1>1. NumRules \in Nat /\ NamespaceOf \in [Rules -> Nat]
      /\ \A p, s \in Rules : p < s => NamespaceOf[p] <= NamespaceOf[s]
  BY ScanContextAssumption
<1>2. r \in Nat /\ 1 <= r /\ r <= NumRules /\ NamespaceOf[r] \in Nat /\ NamespaceOf[q] \in Nat
  BY <1>1 DEF Rules
<1>3. Q \in SUBSET Rules
  OBVIOUS
<1>4. IsFiniteSet(Q) /\ Cardinality(Q) \in Nat
  BY <1>3, RulesFinite, FS_Subset, FS_CardinalityType
<1>5. AfterNamespace(q) = Cardinality(Q) + 1
  BY DEF AfterNamespace
<1>6. CASE NamespaceOf[r] <= NamespaceOf[q]
  <2>1. ASSUME NEW p \in 1..r PROVE p \in Q
    <3>1. p \in Rules /\ (p < r \/ p = r)
      BY <1>1, <1>2 DEF Rules
    <3>2. NamespaceOf[p] <= NamespaceOf[r] /\ NamespaceOf[p] \in Nat
      BY <1>1, <1>2, <3>1
    <3> QED
      BY <1>2, <1>6, <3>1, <3>2
  <2>2. 1..r \in SUBSET Q
    BY <2>1
  <2> HIDE DEF Q
  <2>3. Cardinality(1..r) <= Cardinality(Q)
    BY <1>4, <2>2, FS_Subset
  <2>4. Cardinality(1..r) = r
    BY <1>2, FS_Interval
  <2> QED
    BY <1>2, <1>4, <1>5, <1>6, <2>3, <2>4
<1>7. CASE ~(NamespaceOf[r] <= NamespaceOf[q])
  <2>1. ASSUME NEW p \in Q PROVE p \in 1..(r - 1)
    <3>1. p \in Rules /\ NamespaceOf[p] <= NamespaceOf[q] /\ NamespaceOf[p] \in Nat /\ p \in Nat
      BY <1>1 DEF Rules
    <3>2. ~(r < p) /\ r # p
      BY <1>1, <1>2, <1>7, <3>1
    <3> QED
      BY <1>2, <3>1, <3>2 DEF Rules
  <2>2. Q \in SUBSET (1..(r - 1))
    BY <2>1
  <2> HIDE DEF Q
  <2>3. IsFiniteSet(1..(r - 1)) /\ Cardinality(1..(r - 1)) = r - 1
    <3>1. r - 1 \in Int /\ 1 \in Int
      BY <1>2
    <3>2. IsFiniteSet(1..(r - 1)) /\ Cardinality(1..(r - 1)) = IF 1 > r - 1 THEN 0 ELSE (r - 1) - 1 + 1
      BY <3>1, FS_Interval
    <3> QED
      BY <1>2, <3>2
  <2>4. Cardinality(Q) <= Cardinality(1..(r - 1))
    BY <2>2, <2>3, FS_Subset
  <2> QED
    BY <1>2, <1>4, <1>5, <1>7, <2>3, <2>4
<1> QED
  BY <1>6, <1>7

\* One more rule that matches is one more matching rule.
LEMMA MatchingTrue ==
  ASSUME NEW T, NEW r \in Rules, Alive(T, NamespaceOf[r], r), r \in T
  PROVE  /\ Matching(T, r + 1) = Matching(T, r) \cup {r}
         /\ Alive(T, NamespaceOf[r], r + 1)
<1>1. NumRules \in Nat /\ GlobalRules \subseteq Rules
  BY ScanContextAssumption
<1>2. \A q \in Rules : q < r + 1 <=> q < r \/ q = r
  BY <1>1 DEF Rules
<1>3. \A n : Alive(T, n, r + 1) <=> Alive(T, n, r)
  BY <1>1, <1>2 DEF Alive
<1>4. ~(r < r)
  BY <1>1 DEF Rules
<1> QED
  BY <1>2, <1>3, <1>4 DEF Matching

\* A rule that is not global and does not match changes nothing.
LEMMA MatchingFalse ==
  ASSUME NEW T, NEW r \in Rules, Alive(T, NamespaceOf[r], r), r \notin T, r \notin GlobalRules
  PROVE  /\ Matching(T, r + 1) = Matching(T, r)
         /\ Alive(T, NamespaceOf[r], r + 1)
<1>1. NumRules \in Nat /\ GlobalRules \subseteq Rules
  BY ScanContextAssumption
<1>2. \A q \in Rules : q < r + 1 <=> q < r \/ q = r
  BY <1>1 DEF Rules
<1>3. \A n : Alive(T, n, r + 1) <=> Alive(T, n, r)
  BY <1>1, <1>2 DEF Alive
<1> QED
  BY <1>2, <1>3 DEF Matching

\* A global rule that does not match ends its namespace with no match.
LEMMA MatchingGlobal ==
  ASSUME NEW T, NEW r \in Rules, r \notin T, r \in GlobalRules
  PROVE  Matching(T, AfterNamespace(r)) =
           {q \in Matching(T, r) : NamespaceOf[q] # NamespaceOf[r]}
<1> DEFINE k == AfterNamespace(r)
<1>1. /\ NumRules \in Nat /\ GlobalRules \subseteq Rules /\ NamespaceOf \in [Rules -> Nat]
      /\ \A p, s \in Rules : p < s => NamespaceOf[p] <= NamespaceOf[s]
  BY ScanContextAssumption
<1>2. \A q \in Rules : q < k <=> NamespaceOf[q] <= NamespaceOf[r]
  BY AfterNamespaceIs
<1>3. \A q \in Rules : NamespaceOf[q] \in Nat /\ q \in Nat
  BY <1>1 DEF Rules
<1> HIDE DEF k
<1>4. \A q \in Rules : NamespaceOf[q] < NamespaceOf[r] => q < r
  BY <1>1, <1>3
<1>5. r < k
  BY <1>2, <1>3
<1>6. ~Alive(T, NamespaceOf[r], k)
  BY <1>5 DEF Alive
<1>7. \A q \in Rules : q < r => NamespaceOf[q] <= NamespaceOf[r] /\ q < k
  BY <1>1, <1>2
<1>8. ASSUME NEW q \in Rules, NamespaceOf[q] < NamespaceOf[r]
      PROVE  Alive(T, NamespaceOf[q], k) <=> Alive(T, NamespaceOf[q], r)
  <2>1. \A g \in GlobalRules : NamespaceOf[g] = NamespaceOf[q] => g < k /\ g < r
    BY <1>1, <1>4, <1>7, <1>8
  <2> QED
    BY <2>1 DEF Alive
<1>9. ASSUME NEW q \in Rules
      PROVE  q \in Matching(T, k) <=> q \in Matching(T, r) /\ NamespaceOf[q] # NamespaceOf[r]
  <2>1. CASE NamespaceOf[q] = NamespaceOf[r]
    BY <1>6, <2>1 DEF Matching
  <2>2. CASE NamespaceOf[q] < NamespaceOf[r]
    <3>1. q < k /\ q < r
      BY <1>4, <1>7, <2>2
    <3>2. NamespaceOf[q] # NamespaceOf[r]
      BY <1>3, <2>2
    <3> QED
      BY <1>8, <2>2, <3>1, <3>2 DEF Matching
  <2>3. CASE NamespaceOf[r] < NamespaceOf[q]
    <3>1. ~(q < k) /\ ~(q < r)
      BY <1>2, <1>3, <1>7, <2>3
    <3> QED
      BY <3>1 DEF Matching
  <2> QED
    BY <1>3, <2>1, <2>2, <2>3
<1>10. Matching(T, k) \subseteq Rules /\ Matching(T, r) \subseteq Rules
  BY DEF Matching
<1> QED
  BY <1>9, <1>10 DEF k

-----------------------------------------------------------------------------
(* The evaluation of the conditions                                        *)

\* Evaluation enters a namespace at its first rule.
AtNamespace ==
  /\ pc \in {"eval", "search"} => rule \in Rules
  /\ pc = "enter" /\ rule \in Rules =>
       \A q \in Rules : q < rule => NamespaceOf[q] < NamespaceOf[rule]

\* The bits of the rules passed are those of the rules that match.
Evaluated(T) ==
  /\ rule_bits = Matching(T, rule)
  /\ pc \in {"eval", "search"} => Alive(T, NamespaceOf[rule], rule)

EvalPoints == {"enter", "eval", "search"}

\* A rule and the next one are in the same namespace, or a new one begins.
LEMMA ContinueNext ==
  ASSUME NEW T, rule \in Rules, ContinueWith(rule + 1),
         Alive(T, NamespaceOf[rule], rule + 1)
  PROVE  /\ AtNamespace'
         /\ pc' \in {"eval", "search"} => Alive(T, NamespaceOf[rule'], rule')
<1>1. /\ NumRules \in Nat /\ NamespaceOf \in [Rules -> Nat]
      /\ \A p, s \in Rules : p < s => NamespaceOf[p] <= NamespaceOf[s]
  BY ScanContextAssumption
<1>2. /\ rule' = rule + 1
      /\ pc' = IF rule + 1 \in Rules /\ NamespaceOf[rule + 1] = NamespaceOf[rule] THEN "eval" ELSE "enter"
  BY DEF ContinueWith
<1>3. \A q \in Rules : NamespaceOf[q] \in Nat /\ q \in Nat
  BY <1>1 DEF Rules
<1>4. CASE rule + 1 \in Rules /\ NamespaceOf[rule + 1] = NamespaceOf[rule]
  <2>1. pc' = "eval" /\ rule' \in Rules /\ NamespaceOf[rule'] = NamespaceOf[rule]
    BY <1>2, <1>4
  <2> QED
    BY <1>2, <2>1 DEF AtNamespace
<1>5. CASE rule + 1 \in Rules /\ NamespaceOf[rule + 1] # NamespaceOf[rule]
  <2>1. pc' = "enter"
    BY <1>2, <1>5
  <2>2. NamespaceOf[rule] < NamespaceOf[rule + 1]
    BY <1>1, <1>3, <1>5
  <2>3. ASSUME NEW q \in Rules, q < rule + 1 PROVE NamespaceOf[q] < NamespaceOf[rule + 1]
    <3>1. q = rule \/ q < rule
      BY <1>3, <2>3
    <3>2. NamespaceOf[q] <= NamespaceOf[rule]
      BY <1>1, <1>3, <3>1
    <3> QED
      BY <1>3, <1>5, <2>2, <3>2
  <2> QED
    BY <1>2, <2>1, <2>3 DEF AtNamespace
<1>6. CASE rule + 1 \notin Rules
  BY <1>2, <1>6 DEF AtNamespace
<1> QED
  BY <1>4, <1>5, <1>6

\* After a namespace the next one begins.
LEMMA SkipNext ==
  ASSUME rule \in Rules, ContinueWith(AfterNamespace(rule))
  PROVE  AtNamespace' /\ pc' = "enter"
<1> DEFINE k == AfterNamespace(rule)
<1>1. NamespaceOf \in [Rules -> Nat]
  BY ScanContextAssumption
<1>2. \A q \in Rules : q < k <=> NamespaceOf[q] <= NamespaceOf[rule]
  BY AfterNamespaceIs
<1>3. k \in Nat
  BY AfterNamespaceLater, ScanContextAssumption
<1>4. rule' = k /\ pc' = IF k \in Rules /\ NamespaceOf[k] = NamespaceOf[rule] THEN "eval" ELSE "enter"
  BY DEF ContinueWith
<1> HIDE DEF k
<1>5. k \in Rules => NamespaceOf[rule] < NamespaceOf[k]
  BY <1>1, <1>2, <1>3
<1>6. pc' = "enter"
  BY <1>1, <1>4, <1>5
<1>7. ASSUME k \in Rules, NEW q \in Rules, q < k PROVE NamespaceOf[q] < NamespaceOf[k]
  <2>1. NamespaceOf[q] <= NamespaceOf[rule] /\ NamespaceOf[rule] < NamespaceOf[k]
    BY <1>2, <1>5, <1>7
  <2> QED
    BY <1>1, <1>7, <2>1
<1> QED
  BY <1>4, <1>6, <1>7 DEF AtNamespace

\* The vector of a namespace holds the rules of it that have their bit set.
LEMMA VectorIs ==
  ASSUME RulesInv, Reported = {}, NEW n \in Namespaces
  PROVE  ToSet(matching_rules_per_ns[n]) = {r \in rule_bits : NamespaceOf[r] = n}
<1>1. rule_bits = Tracked
  BY DEF RulesInv, BitsAreTracked
<1>2. \A m \in Namespaces : \A r \in ToSet(matching_rules_per_ns[m]) : NamespaceOf[r] = m
  BY DEF RulesInv
<1>3. \A r : r \in Tracked <=> \E m \in Namespaces : r \in ToSet(matching_rules_per_ns[m])
  BY DEF Tracked
<1> QED
  BY <1>1, <1>2, <1>3

\* Every step of the evaluation keeps the bits of the rules exact, provided
\* that the condition evaluated is true exactly if T says so.
LEMMA EvaluatedNext ==
  ASSUME NEW T, RulesInv, Reported = {}, Evaluated(T),
         Holds(rule) <=> rule \in T,
         RuleMatch \/ RuleNoMatch \/ GlobalNoMatch
  PROVE  /\ rule_bits' = Matching(T, rule')
         /\ pc' \in {"eval", "search"} => Alive(T, NamespaceOf[rule'], rule')
<1>1. pc = "eval" /\ rule \in Rules /\ NamespaceOf[rule] \in Namespaces
  BY DEF RuleMatch, RuleNoMatch, GlobalNoMatch, Evaluable, Namespaces
<1>2. rule_bits = Matching(T, rule) /\ Alive(T, NamespaceOf[rule], rule)
  BY <1>1 DEF Evaluated
<1>3. CASE RuleMatch
  <2>1. rule \in T /\ rule_bits' = rule_bits \cup {rule} /\ ContinueWith(rule + 1)
    BY <1>3 DEF RuleMatch
  <2>2. Matching(T, rule + 1) = Matching(T, rule) \cup {rule} /\ Alive(T, NamespaceOf[rule], rule + 1)
    BY <1>1, <1>2, <2>1, MatchingTrue
  <2>3. rule' = rule + 1
    BY <2>1 DEF ContinueWith
  <2> QED
    BY <1>1, <1>2, <2>1, <2>2, <2>3, ContinueNext
<1>4. CASE RuleNoMatch
  <2>1. rule \notin T /\ rule_bits' = rule_bits /\ ContinueWith(rule + 1) /\ rule \notin GlobalRules
    BY <1>4 DEF RuleNoMatch
  <2>2. Matching(T, rule + 1) = Matching(T, rule) /\ Alive(T, NamespaceOf[rule], rule + 1)
    BY <1>1, <1>2, <2>1, MatchingFalse
  <2>3. rule' = rule + 1
    BY <2>1 DEF ContinueWith
  <2> QED
    BY <1>1, <1>2, <2>1, <2>2, <2>3, ContinueNext
<1>5. CASE GlobalNoMatch
  <2>1. /\ rule \notin T /\ rule \in GlobalRules /\ ContinueWith(AfterNamespace(rule))
        /\ rule_bits' = rule_bits \ ToSet(matching_rules_per_ns[NamespaceOf[rule]])
    BY <1>5 DEF GlobalNoMatch
  <2>2. Matching(T, AfterNamespace(rule)) =
          {q \in Matching(T, rule) : NamespaceOf[q] # NamespaceOf[rule]}
    BY <1>1, <2>1, MatchingGlobal
  <2>3. ToSet(matching_rules_per_ns[NamespaceOf[rule]])
          = {r \in rule_bits : NamespaceOf[r] = NamespaceOf[rule]}
    BY <1>1, VectorIs
  <2>4. rule' = AfterNamespace(rule)
    BY <2>1 DEF ContinueWith
  <2>5. rule_bits' = Matching(T, rule')
    BY <1>2, <2>1, <2>2, <2>3, <2>4
  <2>6. pc' = "enter"
    BY <1>1, <2>1, SkipNext
  <2> QED
    BY <2>5, <2>6
<1> QED
  BY <1>3, <1>4, <1>5

\* The same steps, and the entry into a namespace, go from namespace to
\* namespace.
LEMMA AtNamespaceNext ==
  ASSUME AtNamespace, EnterNamespace \/ RuleMatch \/ RuleNoMatch \/ GlobalNoMatch
  PROVE  AtNamespace'
<1>1. CASE EnterNamespace
  BY <1>1 DEF EnterNamespace, AtNamespace
<1>2. CASE RuleMatch \/ RuleNoMatch
  <2>1. rule \in Rules /\ ContinueWith(rule + 1)
    BY <1>2 DEF RuleMatch, RuleNoMatch, Evaluable
  <2>2. Alive(Rules, NamespaceOf[rule], rule + 1)
    BY ScanContextAssumption DEF Alive
  <2> QED
    BY <2>1, <2>2, ContinueNext
<1>3. CASE GlobalNoMatch
  BY <1>3, SkipNext DEF GlobalNoMatch, Evaluable
<1> QED
  BY <1>1, <1>2, <1>3

\* A namespace is entered with none of its rules evaluated.
LEMMA EnterAlive ==
  ASSUME NEW T, AtNamespace, EnterNamespace
  PROVE  Alive(T, NamespaceOf[rule], rule)
<1>1. rule \in Rules /\ pc = "enter"
  BY DEF EnterNamespace
<1>2. GlobalRules \subseteq Rules /\ NamespaceOf \in [Rules -> Nat]
  BY ScanContextAssumption
<1>3. \A q \in Rules : q < rule => NamespaceOf[q] < NamespaceOf[rule]
  BY <1>1 DEF AtNamespace
<1>4. \A g \in GlobalRules : g < rule => NamespaceOf[g] # NamespaceOf[rule]
  BY <1>1, <1>2, <1>3
<1> QED
  BY <1>4 DEF Alive

\* After the last rule the bits are those of all rules that T and the global
\* rules of their namespace make true.
LEMMA MatchingAll ==
  ASSUME NEW T
  PROVE  Matching(T, NumRules + 1) =
           {r \in Rules : r \in T /\ \A g \in GlobalRules : NamespaceOf[g] = NamespaceOf[r] => g \in T}
<1>1. NumRules \in Nat /\ GlobalRules \subseteq Rules
  BY ScanContextAssumption
<1>2. \A r \in Rules : r < NumRules + 1
  BY <1>1 DEF Rules
<1> QED
  BY <1>1, <1>2 DEF Matching, Alive

-----------------------------------------------------------------------------
(* What the rules say of the data                                          *)

\* A non-empty set of numbers has a least element.
LEMMA LeastOf ==
  ASSUME NEW T, T \subseteq Nat, T # {}
  PROVE  \E i \in T : \A k \in T : ~(k < i)
<1> DEFINE R == {ss \in Nat \X Nat : ss[1] < ss[2]}
<1>1. IsWellFoundedOn(R, Nat)
  BY NatLessThanWellFounded, Zenon DEF OpToRel
<1> HIDE DEF R
<1>2. PICK i \in T : \A k \in T : ~(<<k, i>> \in R)
  BY <1>1, WFMin, Zenon
<1> QED
  BY <1>2 DEF R

\* Whether rule r is true, if B[q] says so of the rules of kind "rule" and
\* base[q] of the others.
Refers(base, B, r) ==
  IF Condition[r].kind = "rule" THEN \A q \in Condition[r].arg : B[q] ELSE base[r]

\* Because a rule refers to earlier rules only, their truth is well defined.
LEMMA TruthExists ==
  ASSUME NEW base
  PROVE  \E B : B = [r \in Rules |-> Refers(base, B, r)]
<1> DEFINE Good(n) == \E B : B = [r \in 1..n |-> Refers(base, B, r)]
           Bad == {n \in 0..NumRules : ~Good(n)}
<1>1. NumRules \in Nat
  BY ScanContextAssumption
<1>2. ASSUME NEW r \in Rules, Condition[r].kind = "rule"
      PROVE  \A q \in Condition[r].arg : q \in Rules /\ q < r
  BY <1>2, ConditionAssumption
<1>3. Good(0)
  <2> DEFINE E == [r \in 1..0 |-> TRUE]
  <2>1. E = [r \in 1..0 |-> Refers(base, E, r)]
    OBVIOUS
  <2> QED
    BY <2>1
<1>4. ASSUME NEW n \in Nat, n + 1 \in Rules, Good(n) PROVE Good(n + 1)
  <2>1. PICK B : B = [r \in 1..n |-> Refers(base, B, r)]
    BY <1>4
  <2> DEFINE C == [r \in 1..(n + 1) |-> IF r \in 1..n THEN B[r] ELSE Refers(base, B, n + 1)]
  <2>2. \A r \in 1..n : C[r] = B[r]
    OBVIOUS
  <2>3. C[n + 1] = Refers(base, B, n + 1)
    OBVIOUS
  <2>4. DOMAIN C = 1..(n + 1) /\ C = [r \in 1..(n + 1) |-> C[r]]
    OBVIOUS
  <2> HIDE DEF C
  <2>5. ASSUME NEW r \in 1..(n + 1) PROVE Refers(base, C, r) = Refers(base, B, r)
    <3>1. r \in Rules
      BY <1>1, <1>4 DEF Rules
    <3>2. CASE Condition[r].kind = "rule"
      <4>1. \A q \in Condition[r].arg : q \in 1..n
        BY <1>1, <1>2, <1>4, <3>1, <3>2 DEF Rules
      <4> QED
        BY <2>2, <4>1 DEF Refers
    <3>3. CASE Condition[r].kind # "rule"
      BY <3>3 DEF Refers
    <3> QED
      BY <3>2, <3>3
  <2>6. ASSUME NEW r \in 1..(n + 1) PROVE C[r] = Refers(base, C, r)
    <3>1. r \in 1..n \/ r = n + 1
      BY <1>4
    <3>2. \A s \in 1..n : B[s] = Refers(base, B, s)
      BY <2>1
    <3> QED
      BY <2>2, <2>3, <2>5, <3>1, <3>2
  <2>7. C = [r \in 1..(n + 1) |-> Refers(base, C, r)]
    BY <2>4, <2>6
  <2> QED
    BY <2>7
<1> HIDE DEF Good
<1>5. Bad = {}
  <2> SUFFICES ASSUME Bad # {} PROVE FALSE
    OBVIOUS
  <2>1. Bad \subseteq Nat
    BY <1>1
  <2>2. PICK n \in Bad : \A k \in Bad : ~(k < n)
    BY <2>1, LeastOf
  <2>3. n \in 0..NumRules /\ ~Good(n)
    OBVIOUS
  <2>4. n # 0
    BY <1>3, <2>3
  <2>5. n - 1 \in 0..NumRules /\ n - 1 \in Nat /\ (n - 1) + 1 = n /\ n \in Rules /\ n - 1 < n
    BY <1>1, <2>3, <2>4 DEF Rules
  <2>6. Good(n - 1)
    BY <2>2, <2>5
  <2>7. Good((n - 1) + 1)
    <3> DEFINE k == n - 1
    <3>1. k \in Nat /\ k + 1 \in Rules /\ Good(k)
      BY <2>5, <2>6
    <3> HIDE DEF k
    <3>2. Good(k + 1)
      BY <1>4, <3>1
    <3> QED
      BY <3>2 DEF k
  <2> QED
    BY <2>3, <2>5, <2>7
<1>6. Good(NumRules)
  BY <1>1, <1>5
<1> QED
  BY <1>6 DEF Good, Rules

\* The definition of Raw is a definition.
LEMMA RawIs ==
  \A r \in Rules :
    Raw[r] = IF Condition[r].kind = "rule" THEN \A q \in Condition[r].arg : Raw[q] ELSE OnData[r]
<1> DEFINE Body(f, r) ==
      IF Condition[r].kind = "rule" THEN \A q \in Condition[r].arg : f[q] ELSE OnData[r]
<1>1. Raw = CHOOSE f : f = [r \in Rules |-> Body(f, r)]
  BY Zenon DEF Raw
<1>2. ASSUME NEW f, NEW r \in Rules PROVE Body(f, r) = Refers(OnData, f, r)
  BY DEF Refers
<1> HIDE DEF Body
<1>3. PICK B : B = [r \in Rules |-> Refers(OnData, B, r)]
  BY TruthExists
<1>4. B = [r \in Rules |-> Body(B, r)]
  BY <1>2, <1>3
<1>5. Raw = [r \in Rules |-> Body(Raw, r)]
  BY <1>1, <1>4, Zenon
<1> QED
  BY <1>5 DEF Body

TrueRules == {r \in Rules : Raw[r]}

\* It depends on the data and the outputs given alone.
LEMMA RawUnchanged ==
  ASSUME UNCHANGED <<input, given>>
  PROVE  Raw' = Raw /\ TrueRules' = TrueRules
<1>1. OnData' = OnData
  BY DEF OnData, Present, Answer
<1>2. Raw' = Raw
  BY <1>1, Zenon DEF Raw
<1> QED
  BY <1>2 DEF TrueRules

\* The condition of a rule is evaluated to what it says of the data, if the
\* bits of the patterns, the outputs of the modules, and the bits of the rules
\* before it are right.
LEMMA HoldsIsTrue ==
  ASSUME Evaluable, Evaluated(TrueRules),
         UsesPatterns(rule) => pattern_bits = Present,
         \A m \in Modules : root_struct[m] = Answer(m),
         filesize # Undefined
  PROVE  Holds(rule) <=> rule \in TrueRules
<1> DEFINE c == Condition[rule]
<1>1. rule \in Rules /\ pc = "eval" /\ c.kind # "loop"
  BY DEF Evaluable
<1>2. rule \in TrueRules <=> Raw[rule]
  BY <1>1 DEF TrueRules
<1>3. CASE c.kind = "rule"
  <2>1. rule_bits = Matching(TrueRules, rule) /\ Alive(TrueRules, NamespaceOf[rule], rule)
    BY <1>1 DEF Evaluated
  <2>2. c.arg \subseteq {q \in Rules : q < rule /\ NamespaceOf[q] = NamespaceOf[rule]}
    BY <1>1, <1>3, ConditionAssumption
  <2>3. \A q \in c.arg : q \in rule_bits <=> q \in TrueRules
    BY <2>1, <2>2 DEF Matching
  <2>4. Raw[rule] <=> \A q \in c.arg : Raw[q]
    BY <1>1, <1>3, RawIs
  <2>5. \A q \in c.arg : q \in TrueRules <=> Raw[q]
    BY <2>2 DEF TrueRules
  <2>6. Holds(rule) <=> c.arg \subseteq rule_bits
    BY <1>3 DEF Holds
  <2> QED
    BY <1>2, <2>3, <2>4, <2>5, <2>6
<1>4. CASE c.kind # "rule"
  <2>1. Raw[rule] = OnData[rule]
    BY <1>1, <1>4, RawIs
  <2>2. c.kind = "module" => c.arg \subseteq Modules
    BY <1>1, ConditionAssumption
  <2>3. c.kind = "true" \/ c.kind = "false" \/ c.kind = "any" \/ c.kind = "none"
        \/ c.kind = "module" \/ c.kind = "filesize"
    BY <1>1, <1>4, ConditionAssumption
  <2>4. UsesPatterns(rule) <=> c.kind = "any" \/ c.kind = "none"
    BY DEF UsesPatterns
  <2>5. Holds(rule) <=> OnData[rule]
    <3>1. CASE c.kind = "true"
      BY <1>1, <3>1 DEF Holds, OnData
    <3>2. CASE c.kind = "false"
      BY <1>1, <3>2 DEF Holds, OnData
    <3>3. CASE c.kind = "any"
      BY <1>1, <2>4, <3>3 DEF Holds, OnData
    <3>4. CASE c.kind = "none"
      BY <1>1, <2>4, <3>4 DEF Holds, OnData
    <3>5. CASE c.kind = "module"
      BY <1>1, <2>2, <3>5 DEF Holds, OnData
    <3>6. CASE c.kind = "filesize"
      BY <1>1, <3>6 DEF Holds, OnData
    <3> QED
      BY <2>3, <3>1, <3>2, <3>3, <3>4, <3>5, <3>6
  <2> QED
    BY <1>2, <2>1, <2>5
<1> QED
  BY <1>3, <1>4

-----------------------------------------------------------------------------
(* The order of the results                                                *)

\* Vectors are in the order of the rules, and no namespace has two of them.
Ordered ==
  /\ \A n \in Namespaces : \A k, l \in 1..Len(matching_rules_per_ns[n]) :
       k < l => matching_rules_per_ns[n][k] < matching_rules_per_ns[n][l]
  /\ \A i, j \in 1..Len(ns_order) : ns_order[i] = ns_order[j] => i = j

\* What is pushed at the end of a vector is larger than what is in it.
LEMMA AppendOrdered ==
  ASSUME NEW s \in Seq(Nat), NEW e \in Nat, \A x \in ToSet(s) : x < e,
         \A k, l \in 1..Len(s) : k < l => s[k] < s[l]
  PROVE  \A k, l \in 1..Len(Append(s, e)) : k < l => Append(s, e)[k] < Append(s, e)[l]
<1>1. Len(s) \in Nat /\ Len(Append(s, e)) = Len(s) + 1 /\ DOMAIN s = 1..Len(s)
  OBVIOUS
<1>2. \A i \in 1..Len(s) : Append(s, e)[i] = s[i] /\ s[i] \in ToSet(s)
  BY <1>1 DEF ToSet
<1>3. Append(s, e)[Len(s) + 1] = e
  OBVIOUS
<1> QED
  BY <1>1, <1>2, <1>3, SMTT(30)

\* The keys of the map stay distinct when a new one is inserted at the end.
LEMMA KeysStayDistinct ==
  ASSUME NEW S, NEW s \in Seq(S), NEW e \in S, e \notin ToSet(s),
         \A i, j \in 1..Len(s) : s[i] = s[j] => i = j
  PROVE  \A i, j \in 1..Len(Append(s, e)) : Append(s, e)[i] = Append(s, e)[j] => i = j
<1>1. Len(s) \in Nat /\ Len(Append(s, e)) = Len(s) + 1 /\ DOMAIN s = 1..Len(s)
  OBVIOUS
<1>2. \A i \in 1..Len(s) : Append(s, e)[i] = s[i]
  OBVIOUS
<1>3. \A i \in 1..Len(s) : s[i] # e
  BY <1>1 DEF ToSet
<1>4. Append(s, e)[Len(s) + 1] = e
  OBVIOUS
<1> DEFINE u == Append(s, e)
<1>5. Len(u) = Len(s) + 1 /\ (\A i \in 1..Len(s) : u[i] = s[i]) /\ u[Len(s) + 1] = e
  BY <1>1, <1>2, <1>4
<1> HIDE DEF u
<1>6. \A i, j \in 1..Len(u) : u[i] = u[j] => i = j
  BY <1>1, <1>3, <1>5
<1> QED
  BY <1>6 DEF u

LEMMA OrderedRuleMatch ==
  ASSUME IInv, CountInv, Ordered, RuleMatch
  PROVE  Ordered'
<1> DEFINE n == NamespaceOf[rule]
           v == matching_rules_per_ns[n]
<1>1. rule \in Rules /\ n \in Namespaces /\ pc = "eval"
  BY DEF RuleMatch, Evaluable, Namespaces
<1>2. /\ matching_rules_per_ns' = [matching_rules_per_ns EXCEPT ![n] = Append(@, rule)]
      /\ ns_order' = IF n \in ToSet(ns_order) THEN ns_order ELSE Append(ns_order, n)
  BY DEF RuleMatch
<1>3. matching_rules_per_ns \in [Namespaces -> Seq(Rules)] /\ ns_order \in Seq(Namespaces)
  BY DEF IInv, RulesInv, RulesTyped
<1>4. v \in Seq(Rules) /\ v \in Seq(Nat) /\ rule \in Nat
  <2>1. Rules \subseteq Nat
    BY ScanContextAssumption DEF Rules
  <2>2. v \in Seq(Rules)
    BY <1>1, <1>3
  <2> HIDE DEF v
  <2>3. v \in Seq(Nat)
    BY <2>1, <2>2, SeqMonotonic
  <2> QED
    BY <1>1, <2>1, <2>2, <2>3, Zenon
<1>5. \A r \in ToSet(v) : r < rule
  <2>1. \A r \in ToSet(v) : r \in Tracked
    BY <1>1 DEF Tracked
  <2> QED
    BY <1>1, <2>1 DEF CountInv
<1>6. \A k, l \in 1..Len(v) : k < l => v[k] < v[l]
  BY <1>1 DEF Ordered
<1>7. \A k, l \in 1..Len(Append(v, rule)) : k < l => Append(v, rule)[k] < Append(v, rule)[l]
  BY <1>4, <1>5, <1>6, AppendOrdered
<1>8. /\ matching_rules_per_ns'[n] = Append(v, rule)
      /\ \A m \in Namespaces \ {n} : matching_rules_per_ns'[m] = matching_rules_per_ns[m]
  BY <1>1, <1>2, <1>3
<1>9. \A m \in Namespaces : \A k, l \in 1..Len(matching_rules_per_ns'[m]) :
        k < l => matching_rules_per_ns'[m][k] < matching_rules_per_ns'[m][l]
  <2> SUFFICES ASSUME NEW m \in Namespaces
               PROVE  \A k, l \in 1..Len(matching_rules_per_ns'[m]) :
                        k < l => matching_rules_per_ns'[m][k] < matching_rules_per_ns'[m][l]
    OBVIOUS
  <2>1. CASE m = n
    BY <1>7, <1>8, <2>1
  <2>2. CASE m # n
    <3>1. matching_rules_per_ns'[m] = matching_rules_per_ns[m]
      BY <1>8, <2>2
    <3> QED
      BY <3>1 DEF Ordered
  <2> QED
    BY <2>1, <2>2
<1> HIDE DEF n, v
<1>10. \A i, j \in 1..Len(ns_order') : ns_order'[i] = ns_order'[j] => i = j
  <2>1. CASE n \in ToSet(ns_order)
    BY <1>2, <2>1 DEF Ordered
  <2>2. CASE n \notin ToSet(ns_order)
    <3>1. ns_order' = Append(ns_order, n)
      BY <1>2, <2>2
    <3>2. \A i, j \in 1..Len(ns_order) : ns_order[i] = ns_order[j] => i = j
      BY DEF Ordered
    <3>3. ns_order \in Seq(Namespaces) /\ n \in Namespaces
      BY <1>1, <1>3 DEF n
    <3>4. \A i, j \in 1..Len(Append(ns_order, n)) : Append(ns_order, n)[i] = Append(ns_order, n)[j] => i = j
      BY <2>2, <3>2, <3>3, KeysStayDistinct
    <3> QED
      BY <3>1, <3>4
  <2> QED
    BY <2>1, <2>2
<1> QED
  BY <1>9, <1>10 DEF Ordered

LEMMA OrderedGlobalNoMatch ==
  ASSUME IInv, Ordered, GlobalNoMatch
  PROVE  Ordered'
<1> DEFINE n == NamespaceOf[rule]
<1>1. n \in Namespaces
  BY DEF GlobalNoMatch, Evaluable, Namespaces
<1>2. matching_rules_per_ns' = [matching_rules_per_ns EXCEPT ![n] = <<>>] /\ ns_order' = ns_order
  BY DEF GlobalNoMatch
<1>3. matching_rules_per_ns \in [Namespaces -> Seq(Rules)]
  BY DEF IInv, RulesInv, RulesTyped
<1> HIDE DEF n
<1>4. /\ matching_rules_per_ns'[n] = <<>>
      /\ \A m \in Namespaces \ {n} : matching_rules_per_ns'[m] = matching_rules_per_ns[m]
  BY <1>1, <1>2, <1>3
<1>5. Len(matching_rules_per_ns'[n]) = 0
  BY <1>4
<1> QED
  BY <1>2, <1>4, <1>5 DEF Ordered

LEMMA OrderedEmpty ==
  ASSUME Ordered, ns_order' = ns_order, matching_rules_per_ns' = [n \in Namespaces |-> <<>>]
  PROVE  Ordered'
<1>1. \A n \in Namespaces : Len(matching_rules_per_ns'[n]) = 0
  OBVIOUS
<1> QED
  BY <1>1 DEF Ordered

\* eval_conditions moves one vector per namespace, behind runs left empty.
LEMMA MovedRuns ==
  ASSUME IInv, Reported = {}, matching_rules' = Moved
  PROVE  /\ matching_rules' \in Seq(Seq(Rules))
         /\ \A i \in 1..Len(matching_rules') :
              \/ matching_rules'[i] = <<>>
              \/ \E j \in 1..Len(ns_order) :
                   /\ i = Len(matching_rules) + j
                   /\ matching_rules'[i] = matching_rules_per_ns[ns_order[j]]
<1> DEFINE q == [i \in 1..Len(ns_order) |-> matching_rules_per_ns[ns_order[i]]]
           u == matching_rules \o q
<1>1. /\ matching_rules_per_ns \in [Namespaces -> Seq(Rules)]
      /\ ns_order \in Seq(Namespaces) /\ matching_rules \in Seq(Seq(Rules))
  BY DEF IInv, RulesInv, RulesTyped
<1>2. \A i \in 1..Len(matching_rules) : matching_rules[i] = <<>>
  <2> SUFFICES ASSUME NEW i \in 1..Len(matching_rules) PROVE matching_rules[i] = <<>>
    OBVIOUS
  <2>1. matching_rules[i] \in Seq(Rules)
    BY <1>1
  <2>2. ToSet(matching_rules[i]) = {}
    BY DEF Reported
  <2> QED
    BY <2>1, <2>2, ToSetEmpty
<1>3. q \in Seq(Seq(Rules)) /\ Len(q) = Len(ns_order)
      /\ \A j \in 1..Len(ns_order) : q[j] = matching_rules_per_ns[ns_order[j]]
  <2>1. Len(ns_order) \in Nat /\ \A i \in 1..Len(ns_order) : ns_order[i] \in Namespaces
    BY <1>1
  <2>2. \A i \in 1..Len(ns_order) : matching_rules_per_ns[ns_order[i]] \in Seq(Rules)
    BY <1>1, <2>1
  <2> QED
    BY <2>1, <2>2
<1>4. matching_rules' = matching_rules \/ matching_rules' = u
  BY DEF Moved
<1> HIDE DEF q
<1>5. /\ Len(matching_rules) \in Nat /\ Len(q) \in Nat /\ u \in Seq(Seq(Rules))
      /\ Len(u) = Len(matching_rules) + Len(q)
      /\ \A i \in 1..Len(matching_rules) : u[i] = matching_rules[i]
      /\ \A j \in 1..Len(q) : u[Len(matching_rules) + j] = q[j]
  <2>1. matching_rules \in Seq(Seq(Rules)) /\ q \in Seq(Seq(Rules))
    BY <1>1, <1>3
  <2>2. /\ Len(matching_rules) \in Nat /\ Len(q) \in Nat
        /\ matching_rules \o q \in Seq(Seq(Rules))
        /\ Len(matching_rules \o q) = Len(matching_rules) + Len(q)
    BY <2>1
  <2>3. \A i \in 1..Len(matching_rules) : (matching_rules \o q)[i] = matching_rules[i]
    BY <2>1
  <2>4. \A j \in 1..Len(q) : (matching_rules \o q)[Len(matching_rules) + j] = q[j]
    BY <2>1
  <2> QED
    BY <2>2, <2>3, <2>4, Zenon
<1> HIDE DEF u
<1>6. ASSUME NEW i \in 1..Len(u)
      PROVE  \/ u[i] = <<>>
             \/ \E j \in 1..Len(ns_order) :
                  i = Len(matching_rules) + j /\ u[i] = matching_rules_per_ns[ns_order[j]]
  <2>1. CASE i <= Len(matching_rules)
    <3>1. i \in 1..Len(matching_rules)
      BY <1>5, <2>1
    <3> QED
      BY <1>2, <1>5, <3>1
  <2>2. CASE i > Len(matching_rules)
    <3> DEFINE j == i - Len(matching_rules)
    <3>1. j \in 1..Len(ns_order) /\ i = Len(matching_rules) + j
      BY <1>3, <1>5, <2>2
    <3>2. u[i] = q[j]
      BY <1>3, <1>5, <3>1
    <3> QED
      BY <1>3, <3>1, <3>2
  <2> QED
    BY <1>5, <2>1, <2>2
<1>7. CASE matching_rules' = matching_rules
  BY <1>1, <1>2, <1>7
<1>8. CASE matching_rules' = u
  <2>1. matching_rules' \in Seq(Seq(Rules))
    BY <1>5, <1>8
  <2> QED
    BY <1>6, <1>8, <2>1
<1> QED
  BY <1>4, <1>7, <1>8

\* The keys of the map are those it had when the scan began and, after them,
\* the namespaces a rule matched in for the first time, in the order in which
\* conditions are evaluated.
KeysInv ==
  /\ Len(inherited) <= Len(ns_order)
  /\ \A i \in 1..Len(inherited) : ns_order[i] = inherited[i]
  /\ \A i, j \in 1..Len(ns_order) : Len(inherited) < i /\ i < j => ns_order[i] < ns_order[j]
  /\ pc \in {"deadline", "modules"} => Len(ns_order) = Len(inherited)
  /\ pc \in EvalPoints /\ rule \in Rules =>
       \A i \in 1..Len(ns_order) : Len(inherited) < i => ns_order[i] <= NamespaceOf[rule]

\* Conditions are evaluated in the order of the namespaces.
LEMMA NamespacesGrow ==
  ASSUME rule \in Rules, rule' \in Rules, RuleMatch \/ RuleNoMatch \/ GlobalNoMatch
  PROVE  NamespaceOf[rule] <= NamespaceOf[rule']
<1>1. rule < rule'
  <2>1. CASE RuleMatch \/ RuleNoMatch
    BY <2>1, ScanContextAssumption DEF RuleMatch, RuleNoMatch, ContinueWith, Rules
  <2>2. CASE GlobalNoMatch
    BY <2>2, AfterNamespaceLater DEF GlobalNoMatch, ContinueWith
  <2> QED
    BY <2>1, <2>2
<1> QED
  BY <1>1, ScanContextAssumption

LEMMA KeysRuleMatch ==
  ASSUME IInv, TypeInv, KeysInv, RuleMatch, UNCHANGED inherited
  PROVE  KeysInv'
<1> DEFINE n == NamespaceOf[rule]
           h == Len(inherited)
           b == Len(ns_order)
<1>1. rule \in Rules /\ pc = "eval" /\ pc' \in {"eval", "enter"} /\ n \in Namespaces
  BY DEF RuleMatch, Evaluable, ContinueWith, Namespaces
<1>2. ns_order' = IF n \in ToSet(ns_order) THEN ns_order ELSE Append(ns_order, n)
  BY DEF RuleMatch
<1>3. /\ ns_order \in Seq(Namespaces) /\ inherited \in Seq(Namespaces) /\ h \in Nat /\ b \in Nat
      /\ DOMAIN ns_order = 1..b
  BY DEF IInv, RulesInv, RulesTyped, TypeInv, InheritedTyped
<1>4. \A m \in Namespaces : m \in Nat
  BY ScanContextAssumption DEF Namespaces
<1>5. /\ h <= b /\ (\A i \in 1..h : ns_order[i] = inherited[i])
      /\ \A i, j \in 1..b : h < i /\ i < j => ns_order[i] < ns_order[j]
      /\ \A i \in 1..b : h < i => ns_order[i] <= n
  BY <1>1 DEF KeysInv, EvalPoints
<1>6. \A i \in 1..b : ns_order[i] \in Nat /\ ns_order[i] \in Namespaces
  BY <1>3, <1>4
<1>7. rule' \in Rules => n <= NamespaceOf[rule'] /\ NamespaceOf[rule'] \in Nat
  BY <1>1, NamespacesGrow, ScanContextAssumption
<1>8. n \in Nat
  BY <1>1, <1>4
<1> HIDE DEF n
<1>9. CASE n \in ToSet(ns_order)
  <2>1. ns_order' = ns_order
    BY <1>2, <1>9
  <2>2. rule' \in Rules => \A i \in 1..b : h < i => ns_order[i] <= NamespaceOf[rule']
    BY <1>5, <1>6, <1>7, <1>8
  <2> QED
    BY <1>1, <1>5, <2>1, <2>2 DEF KeysInv, EvalPoints
<1>10. CASE n \notin ToSet(ns_order)
  <2> DEFINE u == Append(ns_order, n)
  <2>1. Len(u) = b + 1 /\ (\A i \in 1..b : u[i] = ns_order[i]) /\ u[b + 1] = n
    BY <1>3
  <2>2. \A i \in 1..b : ns_order[i] # n
    BY <1>3, <1>10 DEF ToSet
  <2>3. ns_order' = u
    BY <1>2, <1>10
  <2> HIDE DEF u, h, b
  <2>4. h <= b + 1 /\ \A i \in 1..h : u[i] = inherited[i]
    BY <1>3, <1>5, <2>1
  <2>5. ASSUME NEW i \in 1..(b + 1), NEW j \in 1..(b + 1), h < i, i < j
        PROVE  u[i] < u[j]
    <3>1. i \in 1..b
      BY <1>3, <2>5
    <3>2. CASE j = b + 1
      BY <1>5, <1>6, <1>8, <2>1, <2>2, <2>5, <3>1, <3>2
    <3>3. CASE j # b + 1
      <4>1. j \in 1..b
        BY <1>3, <3>3
      <4> QED
        BY <1>5, <2>1, <2>5, <3>1, <4>1
    <3> QED
      BY <3>2, <3>3
  <2>6. ASSUME rule' \in Rules, NEW i \in 1..(b + 1), h < i
        PROVE  u[i] <= NamespaceOf[rule']
    <3>1. CASE i = b + 1
      BY <1>7, <2>1, <2>6, <3>1
    <3>2. CASE i # b + 1
      <4>1. i \in 1..b
        BY <1>3, <3>2
      <4>2. u[i] <= n /\ u[i] \in Nat
        BY <1>5, <1>6, <2>1, <2>6, <4>1
      <4> QED
        BY <1>7, <1>8, <2>6, <4>2
    <3> QED
      BY <3>1, <3>2
  <2>7. Len(inherited) = h /\ Len(inherited') = h /\ Len(ns_order') = b + 1
    BY <2>1, <2>3 DEF h
  <2> QED
    BY <1>1, <2>3, <2>4, <2>5, <2>6, <2>7 DEF KeysInv, EvalPoints
<1> QED
  BY <1>9, <1>10

\* Any other step of a scan leaves the map's keys alone.
LEMMA KeysUnchanged ==
  ASSUME IInv, TypeInv, KeysInv, UNCHANGED <<ns_order, inherited>>,
         \/ pc' \in {"ready", "panicked"}
         \/ pc' \in {"deadline", "modules"} /\ pc \in {"deadline", "modules"}
         \/ pc' \in EvalPoints /\ pc \in {"deadline", "modules"}
         \/ pc' \in EvalPoints /\ pc \in EvalPoints /\ rule' = rule
         \/ pc \in EvalPoints /\ rule \in Rules /\ (RuleNoMatch \/ GlobalNoMatch)
         \/ pc' = pc /\ rule' = rule
  PROVE  KeysInv'
<1>1. /\ ns_order \in Seq(Namespaces) /\ inherited \in Seq(Namespaces)
      /\ Len(inherited) \in Nat /\ Len(ns_order) \in Nat
  BY DEF IInv, RulesInv, RulesTyped, TypeInv, InheritedTyped
<1>2. \A i \in 1..Len(ns_order) : ns_order[i] \in Nat
  BY <1>1, ScanContextAssumption DEF Namespaces
<1>3. CASE pc' \in {"ready", "panicked"}
  BY <1>3 DEF KeysInv, EvalPoints
<1>4. CASE pc' \in {"deadline", "modules"} /\ pc \in {"deadline", "modules"}
  BY <1>4 DEF KeysInv, EvalPoints
<1>5. CASE pc' \in EvalPoints /\ pc \in {"deadline", "modules"}
  <2>1. \A i \in 1..Len(ns_order) : ~(Len(inherited) < i)
    BY <1>1, <1>5 DEF KeysInv
  <2> QED
    BY <1>5, <2>1 DEF KeysInv, EvalPoints
<1>6. CASE (pc' \in EvalPoints /\ pc \in EvalPoints /\ rule' = rule) \/ (pc' = pc /\ rule' = rule)
  BY <1>6 DEF KeysInv, EvalPoints
<1>7. CASE pc \in EvalPoints /\ rule \in Rules /\ (RuleNoMatch \/ GlobalNoMatch)
  <2>1. pc' \in EvalPoints
    BY <1>7 DEF RuleNoMatch, GlobalNoMatch, ContinueWith, EvalPoints
  <2>2. rule' \in Rules => NamespaceOf[rule] <= NamespaceOf[rule']
                            /\ NamespaceOf[rule'] \in Nat /\ NamespaceOf[rule] \in Nat
    BY <1>7, NamespacesGrow, ScanContextAssumption
  <2>3. \A i \in 1..Len(ns_order) : Len(inherited) < i => ns_order[i] <= NamespaceOf[rule]
    BY <1>7 DEF KeysInv
  <2>4. rule' \in Rules =>
          \A i \in 1..Len(ns_order) : Len(inherited) < i => ns_order[i] <= NamespaceOf[rule']
    BY <1>2, <2>2, <2>3
  <2> QED
    BY <2>1, <2>4 DEF KeysInv, EvalPoints
<1> QED
  BY <1>3, <1>4, <1>5, <1>6, <1>7

\* The order of two keys.
LEMMA KeysPrecede ==
  ASSUME IInv, TypeInv, Ordered, KeysInv,
         NEW a \in 1..Len(ns_order), NEW b \in 1..Len(ns_order), a < b
  PROVE  Precedes(ns_order[a], ns_order[b])
<1> DEFINE h == Len(inherited)
<1>1. h \in Nat /\ Len(ns_order) \in Nat /\ DOMAIN inherited = 1..h
  BY DEF IInv, RulesInv, RulesTyped, TypeInv, InheritedTyped
<1>2. /\ h <= Len(ns_order) /\ (\A i \in 1..h : ns_order[i] = inherited[i])
      /\ \A i, j \in 1..Len(ns_order) : h < i /\ i < j => ns_order[i] < ns_order[j]
  BY DEF KeysInv
<1>3. \A i, j \in 1..Len(ns_order) : ns_order[i] = ns_order[j] => i = j
  BY DEF Ordered
<1>4. CASE b <= h
  <2>1. a \in 1..h /\ b \in 1..h
    BY <1>1, <1>4
  <2>2. inherited[a] = ns_order[a] /\ inherited[b] = ns_order[b]
    BY <1>2, <2>1
  <2> QED
    BY <2>1, <2>2 DEF Precedes
<1>5. CASE b > h
  <2>1. ns_order[b] \notin ToSet(inherited)
    <3> SUFFICES ASSUME ns_order[b] \in ToSet(inherited) PROVE FALSE
      OBVIOUS
    <3>1. PICK i \in 1..h : inherited[i] = ns_order[b]
      BY <1>1 DEF ToSet
    <3>2. i \in 1..Len(ns_order) /\ ns_order[i] = ns_order[b]
      BY <1>1, <1>2, <3>1
    <3>3. i = b
      BY <1>3, <3>2
    <3> QED
      BY <1>1, <1>5, <3>3
  <2>2. CASE a <= h
    <3>1. a \in 1..h /\ inherited[a] = ns_order[a]
      BY <1>1, <1>2, <2>2
    <3>2. ns_order[a] \in ToSet(inherited)
      BY <1>1, <3>1 DEF ToSet
    <3> QED
      BY <2>1, <3>2 DEF Precedes
  <2>3. CASE a > h
    <3>1. ns_order[a] < ns_order[b]
      BY <1>2, <2>3
    <3> QED
      BY <2>1, <3>1 DEF Precedes
  <2> QED
    BY <1>1, <2>2, <2>3
<1> QED
  BY <1>1, <1>4, <1>5

\* What is moved is grouped by namespace and in order.
LEMMA MovedOrdered ==
  ASSUME IInv, TypeInv, Ordered, KeysInv, Reported = {}, matching_rules' = Moved,
         UNCHANGED inherited
  PROVE  ResultsAreOrdered'
<1>1. \A i \in 1..Len(matching_rules') :
        \/ matching_rules'[i] = <<>>
        \/ \E j \in 1..Len(ns_order) :
             /\ i = Len(matching_rules) + j
             /\ matching_rules'[i] = matching_rules_per_ns[ns_order[j]]
  BY MovedRuns
<1>2. ns_order \in Seq(Namespaces) /\ matching_rules_per_ns \in [Namespaces -> Seq(Rules)]
  BY DEF IInv, RulesInv, RulesTyped
<1>3. \A j \in 1..Len(ns_order) : ns_order[j] \in Namespaces
  BY <1>2
<1>4. \A n \in Namespaces : \A r \in ToSet(matching_rules_per_ns[n]) : NamespaceOf[r] = n
  BY DEF IInv, RulesInv
<1>5. \A n \in Namespaces : \A k \in 1..Len(matching_rules_per_ns[n]) :
        matching_rules_per_ns[n][k] \in ToSet(matching_rules_per_ns[n])
  <2>1. \A n \in Namespaces : DOMAIN matching_rules_per_ns[n] = 1..Len(matching_rules_per_ns[n])
    BY <1>2
  <2> QED
    BY <2>1 DEF ToSet
<1>6. Len(<<>>) = 0 /\ ToSet(<<>>) = {}
  BY DEF ToSet
<1>7. ASSUME NEW i \in 1..Len(matching_rules'),
             NEW k \in 1..Len(matching_rules'[i]), NEW l \in 1..Len(matching_rules'[i]), k < l
      PROVE  /\ matching_rules'[i][k] < matching_rules'[i][l]
             /\ NamespaceOf[matching_rules'[i][k]] = NamespaceOf[matching_rules'[i][l]]
  <2>1. matching_rules'[i] # <<>>
    BY <1>6, <1>7
  <2>2. PICK j \in 1..Len(ns_order) : matching_rules'[i] = matching_rules_per_ns[ns_order[j]]
    BY <1>1, <2>1
  <2>3. ns_order[j] \in Namespaces
    BY <1>3
  <2> QED
    BY <1>4, <1>5, <1>7, <2>2, <2>3 DEF Ordered
<1>8. ASSUME NEW i \in 1..Len(matching_rules'), NEW j \in 1..Len(matching_rules'), i < j,
             NEW q \in ToSet(matching_rules'[i]), NEW r \in ToSet(matching_rules'[j])
      PROVE  NamespaceOf[q] # NamespaceOf[r] /\ Precedes(NamespaceOf[q], NamespaceOf[r])
  <2>1. matching_rules'[i] # <<>> /\ matching_rules'[j] # <<>>
    BY <1>6
  <2>2. PICK a \in 1..Len(ns_order) :
          i = Len(matching_rules) + a /\ matching_rules'[i] = matching_rules_per_ns[ns_order[a]]
    BY <1>1, <2>1
  <2>3. PICK b \in 1..Len(ns_order) :
          j = Len(matching_rules) + b /\ matching_rules'[j] = matching_rules_per_ns[ns_order[b]]
    BY <1>1, <2>1
  <2>4. a < b
    <3>1. Len(matching_rules) \in Nat
      BY DEF IInv, RulesInv, RulesTyped
    <3> QED
      BY <1>8, <2>2, <2>3, <3>1
  <2>5. ns_order[a] # ns_order[b]
    BY <2>4 DEF Ordered
  <2>6. NamespaceOf[q] = ns_order[a] /\ NamespaceOf[r] = ns_order[b]
    BY <1>3, <1>4, <2>2, <2>3
  <2>7. Precedes(ns_order[a], ns_order[b])
    BY <2>4, KeysPrecede
  <2> QED
    BY <2>5, <2>6, <2>7
<1>9. \A m, n : Precedes(m, n)' = Precedes(m, n)
  BY DEF Precedes
<1> QED
  BY <1>7, <1>8, <1>9 DEF ResultsAreOrdered

-----------------------------------------------------------------------------
(* The patterns                                                            *)

RuledOut == input.size_out \cup input.header_out

\* What the search has come across before atom k.
Seen(k) == input.anchored \cup {input.atoms[i] : i \in {j \in 1..Len(input.atoms) : j < k}}

\* During the search a pattern without its bit set is disabled only because it
\* is ruled out; after it the bits are those of the patterns in the data.
SearchInv ==
  /\ pc # "ready" => input.base = 0
  /\ pc \in {"enter", "eval"} /\ ~pattern_search_done =>
       pattern_bits = {} /\ disabled_patterns = {}
  /\ pc \in {"enter", "eval"} /\ pattern_search_done /\ scan_state # "Timeout" =>
       pattern_bits = Present
  /\ pc = "search" =>
       /\ scan_state = "Idle"
       /\ pattern_bits = Seen(atom) \ RuledOut
       /\ RuledOut \subseteq disabled_patterns
       /\ disabled_patterns \subseteq RuledOut \cup pattern_bits

\* The start of the search: anchored patterns.
LEMMA SearchInvBegins ==
  ASSUME IInv, SearchInv, EvalSearches
  PROVE  SearchInv'
<1>1. pc = "eval" /\ ~pattern_search_done /\ scan_state = "ScanningData"
  BY DEF EvalSearches, IInv, ControlInv
<1>2. SearchBegins("eval")
  BY <1>1 DEF EvalSearches, SearchPanics
<1>3. pattern_bits = {} /\ disabled_patterns = {} /\ input.base = 0
  BY <1>1 DEF SearchInv
<1>4. input' = input /\ pc' = "search" /\ atom' = 1 /\ scan_state' = "Idle"
  BY <1>2 DEF SearchBegins, settingVars
<1>5. TrackMatch(input.anchored \ RuledOut, RuledOut)
  <2>1. disabled_patterns
           \cup (IF scan_state = "ScanningData" THEN input.size_out ELSE {})
           \cup (IF input.base = 0 THEN input.header_out ELSE {}) = RuledOut
    BY <1>1, <1>3 DEF RuledOut
  <2> QED
    BY <1>2, <2>1, Zenon DEF SearchBegins
<1>6. pattern_bits' = input.anchored \ RuledOut
  BY <1>3, <1>5 DEF TrackMatch
<1>7. RuledOut \subseteq disabled_patterns' /\ disabled_patterns' \subseteq RuledOut \cup pattern_bits'
  BY <1>5, <1>6 DEF TrackMatch
<1>8. Seen(1) = input.anchored
  BY DEF Seen
<1>9. RuledOut' = RuledOut /\ Seen(atom)' = Seen(1) /\ input.base' = 0
  BY <1>3, <1>4 DEF RuledOut, Seen
<1> QED
  BY <1>4, <1>6, <1>7, <1>8, <1>9 DEF SearchInv

\* One more atom match.
LEMMA SearchInvAtom ==
  ASSUME IInv, SearchInv, SearchAtom
  PROVE  SearchInv'
<1> DEFINE p == input.atoms[atom]
<1>1. pc = "search" /\ pc' = "search" /\ input' = input /\ atom' = atom + 1 /\ atom <= Len(input.atoms)
      /\ scan_state' = scan_state
  BY DEF SearchAtom, settingVars
<1>2. atom \in Nat \ {0} /\ input \in Inputs
  BY <1>1 DEF IInv, ControlInv, PatternsInv
<1>3. Len(input.atoms) \in Nat
  BY <1>2 DEF Inputs
<1>4. Seen(atom + 1) = Seen(atom) \cup {p}
  <2>1. {j \in 1..Len(input.atoms) : j < atom + 1} = {j \in 1..Len(input.atoms) : j < atom} \cup {atom}
    BY <1>1, <1>2, <1>3
  <2> QED
    BY <2>1 DEF Seen
<1>5. /\ pattern_bits = Seen(atom) \ RuledOut
      /\ RuledOut \subseteq disabled_patterns
      /\ disabled_patterns \subseteq RuledOut \cup pattern_bits
      /\ input.base = 0 /\ scan_state = "Idle"
  BY <1>1 DEF SearchInv
<1>6. RuledOut' = RuledOut /\ Seen(atom)' = Seen(atom + 1) /\ input.base' = 0
  BY <1>1, <1>5 DEF RuledOut, Seen
<1> HIDE DEF p
<1>7. CASE p \in disabled_patterns
  <2>1. pattern_bits' = pattern_bits /\ disabled_patterns' = disabled_patterns
    BY <1>7 DEF SearchAtom, matchVars, p
  <2>2. pattern_bits = Seen(atom + 1) \ RuledOut
    BY <1>4, <1>5, <1>7
  <2> QED
    BY <1>1, <1>5, <1>6, <2>1, <2>2 DEF SearchInv
<1>8. CASE p \notin disabled_patterns
  <2>1. TrackMatch({p}, disabled_patterns)
    BY <1>8 DEF SearchAtom, p
  <2>2. pattern_bits' = pattern_bits \cup {p}
    BY <2>1 DEF TrackMatch
  <2>3. disabled_patterns \subseteq disabled_patterns' /\ disabled_patterns' \subseteq disabled_patterns \cup {p}
    BY <2>1 DEF TrackMatch
  <2>4. pattern_bits' = Seen(atom + 1) \ RuledOut
    BY <1>4, <1>5, <1>8, <2>2
  <2>5. RuledOut \subseteq disabled_patterns' /\ disabled_patterns' \subseteq RuledOut \cup pattern_bits'
    BY <1>5, <2>2, <2>3
  <2> QED
    BY <1>1, <1>5, <1>6, <2>4, <2>5 DEF SearchInv
<1> QED
  BY <1>7, <1>8

\* All atom matches have been seen, or the clock was faster.
LEMMA SearchInvEnds ==
  ASSUME IInv, SearchInv, SearchEnds \/ SearchTimesOut
  PROVE  SearchInv'
<1>1. pc = "search" /\ caller = "eval" /\ atom \in Nat /\ input \in Inputs
  BY DEF SearchEnds, SearchTimesOut, IInv, ControlInv, PatternsInv
<1>2. input' = input /\ pc' = "eval" /\ pattern_search_done' = TRUE /\ pattern_bits' = pattern_bits
  BY <1>1 DEF SearchEnds, SearchTimesOut, settingVars, matchVars
<1>3. CASE SearchEnds
  <2>1. atom > Len(input.atoms) /\ Len(input.atoms) \in Nat /\ DOMAIN input.atoms = 1..Len(input.atoms)
    BY <1>1, <1>3 DEF SearchEnds, Inputs
  <2>2. {j \in 1..Len(input.atoms) : j < atom} = DOMAIN input.atoms
    BY <1>1, <2>1
  <2>3. Seen(atom) = ToSet(input.atoms) \cup input.anchored
    BY <2>2 DEF Seen, ToSet
  <2>4. pattern_bits = Present
    BY <1>1, <2>3 DEF SearchInv, Present, RuledOut
  <2>5. Present' = Present /\ input.base' = input.base
    BY <1>2 DEF Present
  <2> QED
    BY <1>1, <1>2, <2>4, <2>5 DEF SearchInv
<1>4. CASE SearchTimesOut
  <2>1. scan_state' = "Timeout"
    BY <1>4 DEF SearchTimesOut
  <2> QED
    BY <1>1, <1>2, <2>1 DEF SearchInv
<1> QED
  BY <1>3, <1>4

\* Steps that leave the patterns and the data alone.
LEMMA SearchUnchanged ==
  ASSUME SearchInv, UNCHANGED <<matchVars, input, atom, pattern_search_done>>,
         scan_state' = scan_state,
         pc' = pc \/ (pc \in {"enter", "eval"} /\ pc' \in {"enter", "eval"})
  PROVE  SearchInv'
<1>1. Present' = Present /\ RuledOut' = RuledOut /\ Seen(atom)' = Seen(atom) /\ input.base' = input.base
  BY DEF Present, RuledOut, Seen
<1>2. pattern_bits' = pattern_bits /\ disabled_patterns' = disabled_patterns
  BY DEF matchVars
<1>3. CASE pc' = pc
  BY <1>1, <1>2, <1>3 DEF SearchInv
<1>4. CASE pc \in {"enter", "eval"} /\ pc' \in {"enter", "eval"}
  BY <1>1, <1>2, <1>4 DEF SearchInv
<1> QED
  BY <1>3, <1>4

LEMMA SearchInvNext ==
  ASSUME IInv, SearchInv, [Next]_vars
  PROVE  SearchInv'
<1>1. CASE \/ \E t \in Timeouts : SetTimeout(t)
           \/ \E m \in Modules, v \in {"yes", "no"} : SetModuleOutput(m, v)
           \/ ModuleFails
           \/ \E trapped \in BOOLEAN : ScanReturns(trapped)
  <2>1. pc' = "ready" \/ pc' = "panicked"
    BY <1>1 DEF SetTimeout, SetModuleOutput, ModuleFails, ScanReturns, controlVars
  <2>2. pc' # "panicked"
    BY IInvNext DEF IInv, ControlInv, scanning
  <2> QED
    BY <2>1, <2>2 DEF SearchInv
<1>2. CASE \E d \in Data : Scan(d)
  <2>1. PICK d \in Data : Scan(d)
    BY <1>2
  <2>2. input' = d /\ pc' = "deadline"
    BY <2>1 DEF Scan, Reset
  <2>3. input'.base = 0
    BY <2>2, WholeDataAssumption
  <2> QED
    BY <2>2, <2>3 DEF SearchInv
<1>3. CASE BeginModules \/ RunModule
  <2>1. pc # "ready" /\ pc' = "modules" /\ input' = input
    BY <1>3 DEF BeginModules, RunModule, controlVars
  <2> QED
    BY <2>1 DEF SearchInv
<1>4. CASE BeginEval
  <2>1. pc = "modules" /\ pc' = "enter" /\ pattern_search_done' = FALSE
        /\ input' = input /\ UNCHANGED matchVars
    BY <1>4 DEF BeginEval, settingVars
  <2>2. pattern_bits = {} /\ disabled_patterns = {}
    BY <2>1 DEF IInv, PatternsInv
  <2>3. pattern_bits' = {} /\ disabled_patterns' = {}
    BY <2>1, <2>2 DEF matchVars
  <2> QED
    BY <2>1, <2>3 DEF SearchInv
<1>5. CASE EvalSearches
  BY <1>5, SearchInvBegins
<1>6. CASE SearchAtom
  BY <1>6, SearchInvAtom
<1>7. CASE SearchEnds \/ SearchTimesOut
  BY <1>7, SearchInvEnds
<1>8. CASE EnterNamespace \/ RuleMatch \/ RuleNoMatch \/ GlobalNoMatch
  <2>1. UNCHANGED <<matchVars, input, atom, pattern_search_done>> /\ scan_state' = scan_state
    BY <1>8 DEF EnterNamespace, RuleMatch, RuleNoMatch, GlobalNoMatch, evalUnchanged, settingVars
  <2>2. pc \in {"enter", "eval"} /\ pc' \in {"enter", "eval"}
    BY <1>8 DEF EnterNamespace, RuleMatch, RuleNoMatch, GlobalNoMatch, Evaluable, ContinueWith
  <2> QED
    BY <2>1, <2>2, SearchUnchanged
<1>9. CASE TickEpoch \/ TickCounter \/ UNCHANGED vars
  <2>1. UNCHANGED <<matchVars, input, atom, pattern_search_done>> /\ scan_state' = scan_state /\ pc' = pc
    BY <1>9 DEF TickEpoch, TickCounter, vars, ctxVars, settingVars, controlVars
  <2> QED
    BY <2>1, SearchUnchanged
<1> QED
  BY <1>1, <1>2, <1>3, <1>4, <1>5, <1>6, <1>7, <1>8, <1>9 DEF Next, ScanStep

-----------------------------------------------------------------------------
(* The modules                                                             *)

\* The modules that have run.
Ran(k) == {Imports[i] : i \in {j \in 1..Len(Imports) : j < k}}

\* A module that has run has used the output provided for it, if any, and the
\* outputs provided for the others wait; between two scans those wait that
\* the caller provided since the last one.
OutputsInv ==
  /\ pc = "ready" => user_outputs = Provided
  /\ pc # "ready" => result = "None" /\ input \in Data
  /\ pc = "deadline" => user_outputs = given /\ mod = 1
  /\ pc = "modules" =>
       /\ filesize = input.size
       /\ \A m \in Ran(mod) : user_outputs[m] = "none" /\ root_struct[m] = Answer(m)
       /\ \A m \in Modules \ Ran(mod) : user_outputs[m] = given[m]
  /\ pc \in EvalPoints =>
       /\ filesize = input.size
       /\ user_outputs = NoOutputs
       /\ \A m \in Modules : root_struct[m] = Answer(m)

LEMMA OutputsRunModule ==
  ASSUME TypeInv, OutputsInv, RunModule
  PROVE  OutputsInv'
<1> DEFINE m == Imports[mod]
<1>1. /\ pc = "modules" /\ pc' = "modules" /\ mod <= Len(Imports) /\ mod' = mod + 1
      /\ UNCHANGED <<input, filesize, given, result>>
  BY DEF RunModule, controlVars
<1>2. /\ user_outputs' = [user_outputs EXCEPT ![m] = "none"]
      /\ root_struct' = [root_struct EXCEPT ![m] =
                           IF user_outputs[m] # "none" THEN user_outputs[m] = "yes"
                           ELSE m \notin NoMain /\ m \in input.holds]
  BY DEF RunModule
<1>3. /\ mod \in Nat \ {0} /\ root_struct \in [Modules -> BOOLEAN]
      /\ user_outputs \in [Modules -> Answers] /\ given \in [Modules -> Answers]
  BY DEF TypeInv, ModulesTyped
<1>4. Imports \in Seq(Modules) /\ \A i, j \in 1..Len(Imports) : Imports[i] = Imports[j] => i = j
  BY ScannerAssumption, WholeDataAssumption
<1>5. Len(Imports) \in Nat /\ mod \in 1..Len(Imports) /\ m \in Modules
  BY <1>1, <1>3, <1>4
<1>6. /\ filesize = input.size
      /\ \A n \in Ran(mod) : user_outputs[n] = "none" /\ root_struct[n] = Answer(n)
      /\ \A n \in Modules \ Ran(mod) : user_outputs[n] = given[n]
      /\ result = "None" /\ input \in Data
  BY <1>1 DEF OutputsInv
<1>7. m \notin Ran(mod)
  <2> SUFFICES ASSUME m \in Ran(mod) PROVE FALSE
    OBVIOUS
  <2>1. PICK i \in 1..Len(Imports) : i < mod /\ Imports[i] = m
    BY DEF Ran
  <2>2. i = mod
    BY <1>4, <1>5, <2>1
  <2> QED
    BY <1>5, <2>1, <2>2
<1>8. Ran(mod + 1) = Ran(mod) \cup {m} /\ Ran(mod + 1) \subseteq Modules
  <2>1. {j \in 1..Len(Imports) : j < mod + 1} = {j \in 1..Len(Imports) : j < mod} \cup {mod}
    BY <1>5
  <2>2. Ran(mod + 1) = Ran(mod) \cup {m}
    BY <2>1 DEF Ran
  <2>3. \A i \in 1..Len(Imports) : Imports[i] \in Modules
    BY <1>4
  <2>4. Ran(mod) \subseteq Modules
    BY <2>3 DEF Ran
  <2> QED
    BY <1>5, <2>2, <2>4
<1>9. user_outputs[m] = given[m] /\ given[m] \in Answers
  BY <1>3, <1>5, <1>6, <1>7
<1> HIDE DEF m
<1>10. user_outputs'[m] = "none" /\ root_struct'[m] = Answer(m)
  <2>1. root_struct'[m] = IF given[m] # "none" THEN given[m] = "yes" ELSE m \notin NoMain /\ m \in input.holds
    BY <1>2, <1>3, <1>5, <1>9
  <2>2. user_outputs'[m] = "none"
    BY <1>2, <1>3, <1>5
  <2> QED
    BY <2>1, <2>2, <1>9 DEF Answer, Answers
<1>11. \A n \in Modules \ {m} : user_outputs'[n] = user_outputs[n] /\ root_struct'[n] = root_struct[n]
  BY <1>2, <1>3
<1>12. \A n : Answer(n)' = Answer(n)
  BY <1>1 DEF Answer
<1>13. \A n \in Ran(mod') : user_outputs'[n] = "none" /\ root_struct'[n] = Answer(n)
  BY <1>1, <1>6, <1>8, <1>10, <1>11
<1>14. \A n \in Modules \ Ran(mod') : user_outputs'[n] = given'[n]
  BY <1>1, <1>6, <1>8, <1>11
<1>15. \A n \in Ran(mod)' : user_outputs'[n] = "none" /\ root_struct'[n] = Answer(n)'
  BY <1>12, <1>13 DEF Ran
<1>16. \A n \in Modules \ Ran(mod)' : user_outputs'[n] = given'[n]
  BY <1>14 DEF Ran
<1> QED
  BY <1>1, <1>6, <1>15, <1>16 DEF OutputsInv, EvalPoints

\* After the last module, no output is left.
LEMMA RanAll ==
  ASSUME TypeInv, mod > Len(Imports)
  PROVE  Ran(mod) = Modules
<1>1. Imports \in Seq(Modules) /\ ToSet(Imports) = Modules
  BY ScannerAssumption
<1>2. Len(Imports) \in Nat /\ DOMAIN Imports = 1..Len(Imports) /\ mod \in Nat
  BY <1>1 DEF TypeInv, ModulesTyped
<1>3. {j \in 1..Len(Imports) : j < mod} = DOMAIN Imports
  BY <1>2
<1> QED
  BY <1>1, <1>3 DEF Ran, ToSet

\* A module fails: the outputs provided for those after it stay.
LEMMA OutputsFail ==
  ASSUME TypeInv, OutputsInv, ModuleFails
  PROVE  OutputsInv'
<1>1. /\ pc = "modules" /\ pc' = "ready" /\ result' = "ModuleError"
      /\ UNCHANGED <<user_outputs, given, mod>>
  BY DEF ModuleFails, moduleVars
<1>2. mod \in Nat \ {0} /\ Len(Imports) \in Nat /\ mod <= Len(Imports)
      /\ user_outputs \in [Modules -> Answers] /\ given \in [Modules -> Answers]
  BY ScannerAssumption DEF TypeInv, ModulesTyped, ModuleFails
<1>3. /\ \A n \in Ran(mod) : user_outputs[n] = "none"
      /\ \A n \in Modules \ Ran(mod) : user_outputs[n] = given[n]
  BY <1>1 DEF OutputsInv
<1>4. \A n : n \in Ran(mod) <=> \E i \in 1..(mod - 1) : Imports[i] = n
  BY <1>2 DEF Ran
<1>5. Provided' = [n \in Modules |-> IF \E i \in 1..(mod - 1) : Imports[i] = n THEN "none" ELSE given[n]]
  BY <1>1 DEF Provided, Left
<1>6. \A n \in Modules : user_outputs[n] = Provided'[n]
  BY <1>3, <1>4, <1>5
<1>7. user_outputs = Provided'
  BY <1>2, <1>5, <1>6
<1> QED
  BY <1>1, <1>7 DEF OutputsInv, EvalPoints

\* Steps of a scan that leave the modules and the data alone.
LEMMA OutputsUnchanged ==
  ASSUME OutputsInv, UNCHANGED <<moduleVars, given, settingVars, result>>,
         pc' = pc \/ (pc \in EvalPoints /\ pc' \in EvalPoints)
  PROVE  OutputsInv'
<1>1. UNCHANGED <<mod, user_outputs, given, result, input, filesize, root_struct>>
  BY DEF moduleVars, settingVars
<1>2. Provided' = Provided /\ Ran(mod)' = Ran(mod) /\ NoOutputs' = NoOutputs
  BY <1>1 DEF Provided, Left, Ran, NoOutputs
<1>3. \A m : Answer(m)' = Answer(m)
  BY <1>1 DEF Answer
<1>4. CASE pc' = pc
  BY <1>1, <1>2, <1>3, <1>4 DEF OutputsInv
<1>5. CASE pc \in EvalPoints /\ pc' \in EvalPoints
  BY <1>1, <1>2, <1>3, <1>5 DEF OutputsInv, EvalPoints
<1> QED
  BY <1>4, <1>5

LEMMA OutputsInvNext ==
  ASSUME IInv, TypeInv, OutputsInv, [Next]_vars
  PROVE  OutputsInv'
<1> USE DEF EvalPoints
<1>1. CASE \E t \in Timeouts : SetTimeout(t)
  <2>1. pc = "ready" /\ pc' = "ready" /\ given' = Provided /\ result' = "None" /\ user_outputs' = user_outputs
    BY <1>1 DEF SetTimeout, controlVars, moduleVars
  <2> QED
    BY <2>1 DEF OutputsInv, Provided
<1>2. CASE \E m \in Modules, v \in {"yes", "no"} : SetModuleOutput(m, v)
  <2>1. PICK m \in Modules, v \in {"yes", "no"} : SetModuleOutput(m, v)
    BY <1>2
  <2>2. /\ pc = "ready" /\ pc' = "ready" /\ given' = [Provided EXCEPT ![m] = v] /\ result' = "None"
        /\ user_outputs' = [user_outputs EXCEPT ![m] = v]
    BY <2>1 DEF SetModuleOutput, controlVars
  <2>3. user_outputs' = given'
    BY <2>2 DEF OutputsInv
  <2>4. Provided' = given'
    BY <2>2 DEF Provided
  <2> QED
    BY <2>2, <2>3, <2>4 DEF OutputsInv
<1>3. CASE \E d \in Data : Scan(d)
  <2>1. PICK d \in Data : Scan(d)
    BY <1>3
  <2>2. /\ pc = "ready" /\ pc' = "deadline" /\ input' = d /\ mod' = 1 /\ result' = "None"
        /\ given' = Provided /\ user_outputs' = user_outputs
    BY <2>1 DEF Scan, Reset
  <2>3. user_outputs' = given'
    BY <2>2 DEF OutputsInv
  <2> QED
    BY <2>2, <2>3 DEF OutputsInv
<1>4. CASE BeginModules
  <2>1. /\ pc = "deadline" /\ pc' = "modules" /\ filesize' = input.size
        /\ UNCHANGED <<input, result, mod, user_outputs, given>>
    BY <1>4 DEF BeginModules, moduleVars
  <2>2. mod = 1 /\ user_outputs = given /\ result = "None" /\ input \in Data
    BY <2>1 DEF OutputsInv
  <2>3. Ran(mod') = {}
    <3>1. {j \in 1..Len(Imports) : j < 1} = {}
      OBVIOUS
    <3> QED
      BY <2>1, <2>2, <3>1 DEF Ran
  <2>4. Ran(mod)' = {}
    BY <2>3 DEF Ran
  <2> QED
    BY <2>1, <2>2, <2>4 DEF OutputsInv
<1>5. CASE RunModule
  BY <1>5, OutputsRunModule
<1>6. CASE ModuleFails
  BY <1>6, OutputsFail
<1>7. CASE BeginEval
  <2>1. /\ pc = "modules" /\ pc' = "enter" /\ mod > Len(Imports) /\ user_outputs' = NoOutputs
        /\ UNCHANGED <<input, filesize, root_struct, result, given>>
    BY <1>7 DEF BeginEval, settingVars
  <2>2. Ran(mod) = Modules
    BY <2>1, RanAll
  <2>3. \A m : Answer(m)' = Answer(m)
    BY <2>1 DEF Answer
  <2>4. NoOutputs' = NoOutputs
    BY DEF NoOutputs
  <2> QED
    BY <2>1, <2>2, <2>3, <2>4 DEF OutputsInv
<1>8. CASE \E trapped \in BOOLEAN : ScanReturns(trapped)
  <2>1. PICK trapped \in BOOLEAN : ScanReturns(trapped)
    BY <1>8
  <2>2. pc \in {"enter", "eval"} /\ user_outputs' = user_outputs
    BY <2>1 DEF ScanReturns, EvalStops, moduleVars
  <2>3. pc' # "panicked"
    BY IInvNext DEF IInv, ControlInv, scanning
  <2>4. pc' = "ready" /\ result' \in {"Timeout", "Ok"}
    BY <2>1, <2>3 DEF ScanReturns
  <2>5. user_outputs = NoOutputs
    BY <2>2 DEF OutputsInv
  <2>6. Provided' = NoOutputs
    BY <2>4 DEF Provided, Left, NoOutputs
  <2> QED
    BY <2>2, <2>4, <2>5, <2>6 DEF OutputsInv
<1>9. CASE /\ EnterNamespace \/ EvalSearches \/ RuleMatch \/ RuleNoMatch \/ GlobalNoMatch
              \/ SearchAtom \/ SearchEnds \/ SearchTimesOut
           /\ UNCHANGED <<moduleVars, given, inherited>>
  <2>1. pc \in EvalPoints /\ (pc = "search" => caller = "eval")
    BY <1>9 DEF EnterNamespace, EvalSearches, RuleMatch, RuleNoMatch, GlobalNoMatch, Evaluable,
                SearchAtom, SearchEnds, SearchTimesOut, IInv, ControlInv
  <2>2. UNCHANGED <<settingVars, result>>
    BY <1>9, <2>1 DEF EnterNamespace, EvalSearches, SearchBegins, SearchPanics, RuleMatch, RuleNoMatch,
                GlobalNoMatch, evalUnchanged, SearchAtom, SearchEnds, SearchTimesOut
  <2>3. pc' # "panicked"
    BY IInvNext DEF IInv, ControlInv, scanning
  <2>4. pc' \in EvalPoints
    BY <1>9, <2>1, <2>3 DEF EnterNamespace, EvalSearches, SearchBegins, SearchPanics, RuleMatch, RuleNoMatch,
                GlobalNoMatch, ContinueWith, SearchAtom, SearchEnds, SearchTimesOut
  <2> QED
    BY <1>9, <2>1, <2>2, <2>4, OutputsUnchanged
<1>10. CASE (TickEpoch \/ TickCounter) /\ UNCHANGED <<moduleVars, given, inherited>>
  <2>1. UNCHANGED <<settingVars, result>> /\ pc' = pc
    BY <1>10 DEF TickEpoch, TickCounter, controlVars
  <2> QED
    BY <1>10, <2>1, OutputsUnchanged
<1>11. CASE UNCHANGED vars
  <2>1. UNCHANGED <<moduleVars, given, settingVars, result>> /\ pc' = pc
    BY <1>11 DEF vars, ctxVars, controlVars
  <2> QED
    BY <2>1, OutputsUnchanged
<1> QED
  BY <1>1, <1>2, <1>3, <1>4, <1>5, <1>6, <1>7, <1>8, <1>9, <1>10, <1>11 DEF Next, ScanStep

-----------------------------------------------------------------------------
(* The rules, and the theorem                                              *)

\* Unless the search timed out, the bits of the rules passed are exact.
EvalInv ==
  /\ AtNamespace
  /\ pc \in EvalPoints /\ scan_state # "Timeout" => Evaluated(TrueRules)

\* A condition is evaluated to what its rule says of the data.
LEMMA ConditionIsTrue ==
  ASSUME IInv, SearchInv, OutputsInv, EvalInv, Evaluable, scan_state # "Timeout"
  PROVE  Evaluated(TrueRules) /\ (Holds(rule) <=> rule \in TrueRules)
<1>1. pc = "eval" /\ rule \in Rules
  BY DEF Evaluable
<1>2. Evaluated(TrueRules)
  BY <1>1 DEF EvalInv, EvalPoints
<1>3. UsesPatterns(rule) => pattern_bits = Present
  BY <1>1 DEF Evaluable, SearchInv
<1>4. (\A m \in Modules : root_struct[m] = Answer(m)) /\ filesize = input.size
  BY <1>1 DEF OutputsInv, EvalPoints
<1>5. filesize # Undefined
  <2>1. input \in Inputs
    BY DEF IInv, PatternsInv
  <2> QED
    BY <1>4, <2>1 DEF Inputs, Undefined
<1> QED
  BY <1>2, <1>3, <1>4, <1>5, HoldsIsTrue

LEMMA EvalInvConditions ==
  ASSUME IInv, SearchInv, OutputsInv, EvalInv, UNCHANGED <<input, given>>,
         RuleMatch \/ RuleNoMatch \/ GlobalNoMatch
  PROVE  EvalInv'
<1>1. pc = "eval" /\ rule \in Rules /\ Evaluable
  BY DEF RuleMatch, RuleNoMatch, GlobalNoMatch, Evaluable
<1>2. AtNamespace'
  BY AtNamespaceNext DEF EvalInv
<1>3. scan_state' = scan_state
  BY DEF RuleMatch, RuleNoMatch, GlobalNoMatch, evalUnchanged
<1>4. CASE scan_state # "Timeout"
  <2>1. Evaluated(TrueRules) /\ (Holds(rule) <=> rule \in TrueRules)
    BY <1>1, <1>4, ConditionIsTrue
  <2>6. RulesInv /\ Reported = {}
    BY <1>1 DEF IInv, RulesInv, scanning
  <2>7. /\ rule_bits' = Matching(TrueRules, rule')
        /\ pc' \in {"eval", "search"} => Alive(TrueRules, NamespaceOf[rule'], rule')
    BY <2>1, <2>6, EvaluatedNext
  <2>8. TrueRules' = TrueRules
    BY RawUnchanged
  <2>9. Evaluated(TrueRules)'
    BY <2>7, <2>8 DEF Evaluated, Matching, Alive
  <2> QED
    BY <1>2, <2>9 DEF EvalInv
<1>5. CASE scan_state = "Timeout"
  BY <1>2, <1>3, <1>5 DEF EvalInv
<1> QED
  BY <1>4, <1>5

\* Steps that leave the rules alone.
LEMMA EvalUnchanged ==
  ASSUME EvalInv, UNCHANGED <<input, given, rule, rule_bits>>,
         \/ pc' = pc /\ scan_state' = scan_state
         \/ pc \in {"eval", "search"} /\ pc' \in {"eval", "search"}
            /\ (scan_state' # "Timeout" => scan_state # "Timeout")
  PROVE  EvalInv'
<1>1. TrueRules' = TrueRules
  BY RawUnchanged
<1>2. CASE pc' = pc /\ scan_state' = scan_state
  BY <1>1, <1>2 DEF EvalInv, AtNamespace, Evaluated, Matching, Alive
<1>3. CASE /\ pc \in {"eval", "search"} /\ pc' \in {"eval", "search"}
           /\ scan_state' # "Timeout" => scan_state # "Timeout"
  <2>1. AtNamespace'
    BY <1>3 DEF EvalInv, AtNamespace
  <2>2. scan_state # "Timeout" =>
          rule_bits = Matching(TrueRules, rule) /\ Alive(TrueRules, NamespaceOf[rule], rule)
    BY <1>3 DEF EvalInv, EvalPoints, Evaluated
  <2>3. scan_state' # "Timeout" => Evaluated(TrueRules)'
    BY <1>1, <1>3, <2>2 DEF Evaluated, Matching, Alive
  <2> QED
    BY <2>1, <2>3 DEF EvalInv
<1> QED
  BY <1>2, <1>3

LEMMA EvalInvNext ==
  ASSUME IInv, SearchInv, OutputsInv, EvalInv, [Next]_vars
  PROVE  EvalInv'
<1>0. IInv'
  BY IInvNext
<1>1. CASE \/ \E t \in Timeouts : SetTimeout(t)
           \/ \E m \in Modules, v \in {"yes", "no"} : SetModuleOutput(m, v)
           \/ \E d \in Data : Scan(d)
           \/ BeginModules \/ RunModule \/ ModuleFails
           \/ \E trapped \in BOOLEAN : ScanReturns(trapped)
  <2>1. pc' \in {"ready", "deadline", "modules", "panicked"}
    BY <1>1 DEF SetTimeout, SetModuleOutput, Scan, Reset, BeginModules, RunModule, ModuleFails,
                ScanReturns, controlVars
  <2> QED
    BY <2>1 DEF EvalInv, AtNamespace, EvalPoints
<1>2. CASE BeginEval
  <2>1. pc = "modules" /\ pc' = "enter" /\ rule' = 1 /\ rule_bits' = rule_bits
    BY <1>2 DEF BeginEval, ruleVars
  <2>2. rule_bits = {}
    BY <2>1 DEF IInv, PatternsInv
  <2>3. \A q \in Rules : ~(q < 1)
    BY ScanContextAssumption DEF Rules
  <2>4. Evaluated(TrueRules)'
    BY <2>1, <2>2, <2>3 DEF Evaluated, Matching
  <2> QED
    BY <2>1, <2>3, <2>4 DEF EvalInv, AtNamespace
<1>3. CASE EnterNamespace /\ UNCHANGED given
  <2>1. /\ pc = "enter" /\ pc' = "eval" /\ rule \in Rules
        /\ UNCHANGED <<rule, rule_bits, scan_state, input>>
    BY <1>3 DEF EnterNamespace, ruleVars, settingVars
  <2>2. AtNamespace'
    BY <1>3, AtNamespaceNext DEF EvalInv
  <2>3. TrueRules' = TrueRules
    BY <1>3, <2>1, RawUnchanged
  <2>4. Alive(TrueRules, NamespaceOf[rule], rule)
    BY <1>3, EnterAlive DEF EvalInv
  <2>5. scan_state # "Timeout" => Evaluated(TrueRules)'
    BY <2>1, <2>3, <2>4 DEF EvalInv, EvalPoints, Evaluated, Matching, Alive
  <2> QED
    BY <2>1, <2>2, <2>5 DEF EvalInv
<1>4. CASE (RuleMatch \/ RuleNoMatch \/ GlobalNoMatch) /\ UNCHANGED given
  <2>1. input' = input
    BY <1>4 DEF RuleMatch, RuleNoMatch, GlobalNoMatch, evalUnchanged, settingVars
  <2> QED
    BY <1>4, <2>1, EvalInvConditions
<1>5. CASE (EvalSearches \/ SearchAtom \/ SearchEnds \/ SearchTimesOut) /\ UNCHANGED given
  <2>1. pc \in {"eval", "search"} /\ (pc = "search" => caller = "eval" /\ taken = "ScanningData")
    BY <1>5 DEF EvalSearches, SearchAtom, SearchEnds, SearchTimesOut, IInv, ControlInv
  <2>2. UNCHANGED <<input, rule, rule_bits>>
    BY <1>5 DEF EvalSearches, SearchBegins, SearchPanics, SearchAtom, SearchEnds, SearchTimesOut,
                settingVars, ruleVars
  <2>3. pc' # "panicked"
    BY <1>0 DEF IInv, ControlInv, scanning
  <2>4. pc' \in {"eval", "search"}
    BY <1>5, <2>1, <2>3 DEF EvalSearches, SearchBegins, SearchPanics, SearchAtom, SearchEnds, SearchTimesOut
  <2>5. scan_state' # "Timeout" => scan_state # "Timeout"
    <3>1. CASE EvalSearches
      BY <2>3, <3>1 DEF EvalSearches, SearchBegins, SearchPanics
    <3>2. CASE SearchAtom
      BY <3>2 DEF SearchAtom
    <3>3. CASE SearchTimesOut
      BY <3>3 DEF SearchTimesOut
    <3>4. CASE SearchEnds
      BY <3>4 DEF SearchEnds, SearchInv
    <3> QED
      BY <1>5, <3>1, <3>2, <3>3, <3>4
  <2> QED
    BY <1>5, <2>1, <2>2, <2>4, <2>5, EvalUnchanged
<1>6. CASE (TickEpoch \/ TickCounter) /\ UNCHANGED given
  <2>1. UNCHANGED <<input, rule, rule_bits, pc, scan_state>>
    BY <1>6 DEF TickEpoch, TickCounter, controlVars, settingVars, ruleVars
  <2> QED
    BY <1>6, <2>1, EvalUnchanged
<1>7. CASE UNCHANGED vars
  <2>1. UNCHANGED <<input, given, rule, rule_bits, pc, scan_state>>
    BY <1>7 DEF vars, ctxVars, controlVars, settingVars, ruleVars
  <2> QED
    BY <2>1, EvalUnchanged
<1> QED
  BY <1>1, <1>2, <1>3, <1>4, <1>5, <1>6, <1>7 DEF Next, ScanStep

-----------------------------------------------------------------------------
(* Private rules that did not match                                        *)

\* The private rules that are counted if they do not match.
Counts(T) ==
  {q \in PrivateRules : Alive(T, NamespaceOf[q], q) /\ (q \in T \/ q \in GlobalRules \/ Profiling)}

\* Those of them that evaluation has passed and that have no bit.
PassedBy(T, k, bits) == {q \in Counts(T) : q < k /\ q \notin bits}

NonMatchingInv ==
  /\ pc \in {"deadline", "modules"} => num_non_matching_private_rules = 0
  /\ pc \in EvalPoints /\ scan_state # "Timeout" =>
       num_non_matching_private_rules = Cardinality(PassedBy(TrueRules, rule, rule_bits))

LEMMA PassedByFinite ==
  ASSUME NEW T, NEW k, NEW bits
  PROVE  /\ IsFiniteSet(PassedBy(T, k, bits)) /\ Cardinality(PassedBy(T, k, bits)) \in Nat
<1>1. PassedBy(T, k, bits) \in SUBSET Rules
  BY ScanContextAssumption DEF PassedBy, Counts
<1> QED
  BY <1>1, RulesFinite, FS_Subset, FS_CardinalityType

\* The number of members of two sets without a common one.
LEMMA DisjointCount ==
  ASSUME NEW A, NEW X, IsFiniteSet(A), IsFiniteSet(X), A \cap X = {}
  PROVE  IsFiniteSet(A \cup X) /\ Cardinality(A \cup X) = Cardinality(A) + Cardinality(X)
<1>1. IsFiniteSet(A \cup X) /\ Cardinality(A \cup X) = Cardinality(A) + Cardinality(X) - Cardinality(A \cap X)
  BY FS_Union
<1>2. Cardinality(A \cap X) = 0
  BY FS_EmptySet
<1>3. Cardinality(A) \in Nat /\ Cardinality(X) \in Nat
  BY FS_CardinalityType
<1> QED
  BY <1>1, <1>2, <1>3

\* A rule, if P holds of it, counts for one.
LEMMA OneOrNone ==
  ASSUME NEW r, NEW P \in BOOLEAN, NEW X, X = IF P THEN {r} ELSE {}
  PROVE  IsFiniteSet(X) /\ Cardinality(X) = IF P THEN 1 ELSE 0
<1>1. CASE P
  BY <1>1, FS_Singleton
<1>2. CASE ~P
  BY <1>2, FS_EmptySet
<1> QED
  BY <1>1, <1>2

LEMMA NonMatchingNoMatch ==
  ASSUME IInv, CountInv, SearchInv, OutputsInv, EvalInv, NonMatchingInv, RuleNoMatch, UNCHANGED given
  PROVE  NonMatchingInv'
<1> DEFINE T == TrueRules
           X == IF Profiling /\ rule \in PrivateRules THEN {rule} ELSE {}
           A == PassedBy(T, rule, rule_bits)
           B == PassedBy(T, rule + 1, rule_bits)
<1>1. rule \in Rules /\ pc = "eval" /\ rule \in Nat /\ Evaluable /\ rule \notin GlobalRules
  BY ScanContextAssumption DEF RuleNoMatch, Evaluable, Rules
<1>2. /\ rule' = rule + 1 /\ rule_bits' = rule_bits /\ pc' \in {"eval", "enter"}
      /\ num_non_matching_private_rules' =
           num_non_matching_private_rules + (IF Profiling /\ rule \in PrivateRules THEN 1 ELSE 0)
      /\ UNCHANGED <<scan_state, input>>
  BY DEF RuleNoMatch, ContinueWith, evalUnchanged, settingVars
<1>3. CASE scan_state # "Timeout"
  <2>1. Evaluated(T) /\ rule \notin T
    BY <1>1, <1>3, ConditionIsTrue DEF RuleNoMatch
  <2>2. rule_bits = Matching(T, rule) /\ Alive(T, NamespaceOf[rule], rule)
    BY <1>1, <2>1 DEF Evaluated
  <2>3. num_non_matching_private_rules = Cardinality(A)
    BY <1>1, <1>3 DEF NonMatchingInv, EvalPoints
  <2>4. \A q \in PrivateRules : q \in Nat /\ (q < rule + 1 <=> q < rule \/ q = rule)
    BY <1>1, ScanContextAssumption DEF Rules
  <2>5. rule \notin rule_bits /\ ~(rule < rule)
    BY <1>1, <2>2 DEF Matching
  <2>6. TrueRules' = T
    BY <1>2, RawUnchanged
  <2> HIDE DEF T
  <2>7. rule \in Counts(T) <=> Profiling /\ rule \in PrivateRules
    BY <1>1, <2>1, <2>2 DEF Counts
  <2>8. \A q \in Counts(T) : q \in PrivateRules
    BY DEF Counts
  <2>9. B = A \cup X /\ A \cap X = {}
    BY <2>4, <2>5, <2>7, <2>8 DEF PassedBy
  <2>10. IsFiniteSet(X) /\ Cardinality(X) = IF Profiling /\ rule \in PrivateRules THEN 1 ELSE 0
    BY OneOrNone, ScanContextAssumption
  <2>11. IsFiniteSet(A)
    BY PassedByFinite
  <2> HIDE DEF A, B, X
  <2>12. Cardinality(B) = Cardinality(A) + Cardinality(X)
    BY <2>9, <2>10, <2>11, DisjointCount
  <2>13. num_non_matching_private_rules' = Cardinality(B)
    BY <1>2, <2>3, <2>10, <2>12
  <2>14. B = PassedBy(TrueRules', rule', rule_bits')
    BY <1>2, <2>6 DEF B
  <2>15. PassedBy(TrueRules, rule, rule_bits)' = PassedBy(TrueRules', rule', rule_bits')
    BY DEF PassedBy, Counts, Alive
  <2> QED
    BY <1>2, <2>13, <2>14, <2>15 DEF NonMatchingInv, EvalPoints
<1>4. CASE scan_state = "Timeout"
  BY <1>2, <1>4 DEF NonMatchingInv
<1> QED
  BY <1>3, <1>4

LEMMA NonMatchingMatch ==
  ASSUME NonMatchingInv, RuleMatch, UNCHANGED given
  PROVE  NonMatchingInv'
<1>1. rule \in Rules /\ pc = "eval" /\ rule \in Nat
  BY ScanContextAssumption DEF RuleMatch, Evaluable, Rules
<1>2. /\ rule' = rule + 1 /\ rule_bits' = rule_bits \cup {rule} /\ pc' \in {"eval", "enter"}
      /\ num_non_matching_private_rules' = num_non_matching_private_rules
      /\ UNCHANGED <<scan_state, input>>
  BY DEF RuleMatch, ContinueWith, evalUnchanged, settingVars
<1>3. \A q \in PrivateRules : q < rule + 1 <=> q < rule \/ q = rule
  BY <1>1, ScanContextAssumption DEF Rules
<1>4. TrueRules' = TrueRules /\ ~(rule < rule)
  BY <1>1, <1>2, RawUnchanged
<1>5. PassedBy(TrueRules, rule, rule_bits)' = PassedBy(TrueRules, rule, rule_bits)
  BY <1>2, <1>3, <1>4 DEF PassedBy, Counts, Alive
<1> QED
  BY <1>1, <1>2, <1>5 DEF NonMatchingInv, EvalPoints

\* A failed global rule turns the private rules of its namespace that had
\* matched into ones that did not, and is one itself if it is private; those
\* after it are not counted.
LEMMA PassedByGlobal ==
  ASSUME NEW T, NEW r \in GlobalRules, r \notin T, Alive(T, NamespaceOf[r], r),
         NEW R, R = {q \in Matching(T, r) : NamespaceOf[q] = NamespaceOf[r]}
  PROVE  PassedBy(T, AfterNamespace(r), Matching(T, r) \ R) =
           PassedBy(T, r, Matching(T, r)) \cup ((R \cap PrivateRules) \cup {q \in PrivateRules : q = r})
<1> DEFINE k == AfterNamespace(r)
           bits == Matching(T, r)
<1>1. /\ r \in Rules /\ PrivateRules \subseteq Rules /\ GlobalRules \subseteq Rules
      /\ \A q \in Rules : q \in Nat /\ NamespaceOf[q] \in Nat
  BY ScanContextAssumption DEF Rules
<1>2. \A q \in Rules : q < k <=> NamespaceOf[q] <= NamespaceOf[r]
  BY <1>1, AfterNamespaceIs
<1>3. \A p, q \in Rules : p < q => NamespaceOf[p] <= NamespaceOf[q]
  BY ScanContextAssumption
<1>4. \A q \in bits : q \in Rules /\ q < r /\ q \in T
  BY DEF Matching
<1> HIDE DEF k, bits
<1>5. ASSUME NEW q \in PassedBy(T, k, bits \ R)
      PROVE  q \in PassedBy(T, r, bits) \cup ((R \cap PrivateRules) \cup {p \in PrivateRules : p = r})
  <2>1. q \in Counts(T) /\ q \in PrivateRules /\ q \in Rules /\ q < k /\ q \notin bits \ R
    BY <1>1, <1>5 DEF PassedBy, Counts
  <2>2. CASE q < r
    BY <2>1, <2>2 DEF PassedBy
  <2>3. CASE r < q
    <3>1. NamespaceOf[q] = NamespaceOf[r]
      BY <1>1, <1>2, <1>3, <2>1, <2>3
    <3>2. ~Alive(T, NamespaceOf[q], q)
      BY <2>3, <3>1 DEF Alive
    <3> QED
      BY <2>1, <3>2 DEF Counts
  <2>4. CASE q = r
    BY <2>1, <2>4
  <2> QED
    BY <1>1, <2>1, <2>2, <2>3, <2>4
<1>6. ASSUME NEW q \in PassedBy(T, r, bits) PROVE q \in PassedBy(T, k, bits \ R)
  <2>1. q \in Counts(T) /\ q \in Rules /\ q < r /\ q \notin bits
    BY <1>1, <1>6 DEF PassedBy, Counts
  <2>2. q < k
    BY <1>1, <1>2, <1>3, <2>1
  <2> QED
    BY <2>1, <2>2 DEF PassedBy
<1>7. ASSUME NEW q \in R \cap PrivateRules PROVE q \in PassedBy(T, k, bits \ R)
  <2>1. q \in bits /\ q \in Rules /\ q < r /\ q \in T /\ NamespaceOf[q] = NamespaceOf[r]
    BY <1>4, <1>7 DEF bits
  <2>2. Alive(T, NamespaceOf[q], q)
    <3>1. \A g \in GlobalRules : g < q => g < r
      BY <1>1, <2>1
    <3> QED
      BY <2>1, <3>1 DEF Alive
  <2>3. q < k
    BY <1>1, <1>2, <2>1
  <2> QED
    BY <1>7, <2>1, <2>2, <2>3 DEF PassedBy, Counts
<1>8. ASSUME r \in PrivateRules PROVE r \in PassedBy(T, k, bits \ R)
  <2>1. r < k
    BY <1>1, <1>2
  <2>2. r \notin bits
    BY <1>1, <1>4
  <2> QED
    BY <1>8, <2>1, <2>2 DEF PassedBy, Counts
<1>9. PassedBy(T, k, bits \ R) =
        PassedBy(T, r, bits) \cup ((R \cap PrivateRules) \cup {p \in PrivateRules : p = r})
  BY <1>5, <1>6, <1>7, <1>8
<1> QED
  BY <1>9 DEF k, bits

LEMMA NonMatchingGlobal ==
  ASSUME IInv, CountInv, SearchInv, OutputsInv, EvalInv, NonMatchingInv, GlobalNoMatch, UNCHANGED given
  PROVE  NonMatchingInv'
<1> DEFINE T == TrueRules
           R == ToSet(matching_rules_per_ns[NamespaceOf[rule]])
           Y == {q \in PrivateRules : q = rule}
           Z == R \cap PrivateRules
           k == AfterNamespace(rule)
           A == PassedBy(T, rule, rule_bits)
           B == PassedBy(T, k, rule_bits \ R)
<1>1. /\ rule \in Rules /\ pc = "eval" /\ rule \in Nat /\ NamespaceOf[rule] \in Namespaces
      /\ Evaluable /\ rule \in GlobalRules
  BY ScanContextAssumption DEF GlobalNoMatch, Evaluable, Rules, Namespaces
<1>2. /\ rule' = k /\ rule_bits' = rule_bits \ R /\ pc' \in {"eval", "enter"}
      /\ num_non_matching_private_rules' =
           num_non_matching_private_rules + Cardinality(Z) + (IF rule \in PrivateRules THEN 1 ELSE 0)
      /\ UNCHANGED <<scan_state, input>>
  BY DEF GlobalNoMatch, ContinueWith, evalUnchanged, settingVars
<1>3. CASE scan_state # "Timeout"
  <2>1. Evaluated(T) /\ rule \notin T
    BY <1>1, <1>3, ConditionIsTrue DEF GlobalNoMatch
  <2>2. rule_bits = Matching(T, rule) /\ Alive(T, NamespaceOf[rule], rule)
    BY <1>1, <2>1 DEF Evaluated
  <2>3. num_non_matching_private_rules = Cardinality(A)
    BY <1>1, <1>3 DEF NonMatchingInv, EvalPoints
  <2>4. Reported = {} /\ RulesInv
    BY <1>1 DEF IInv, RulesInv, scanning
  <2>5. R = {q \in rule_bits : NamespaceOf[q] = NamespaceOf[rule]}
    BY <1>1, <2>4, VectorIs
  <2>6. TrueRules' = T
    BY <1>2, RawUnchanged
  <2>7. \A q \in rule_bits : q < rule
    BY <2>2 DEF Matching
  <2>8. ~(rule < rule)
    BY <1>1
  <2> HIDE DEF T, R, k
  <2>9. B = A \cup (Z \cup Y)
    <3>1. R = {q \in Matching(T, rule) : NamespaceOf[q] = NamespaceOf[rule]}
      BY <2>2, <2>5
    <3>2. PassedBy(T, AfterNamespace(rule), Matching(T, rule) \ R) =
            PassedBy(T, rule, Matching(T, rule)) \cup ((R \cap PrivateRules) \cup {q \in PrivateRules : q = rule})
      BY <1>1, <2>1, <2>2, <3>1, PassedByGlobal
    <3> QED
      BY <2>2, <3>2 DEF k
  <2>10. Z \cap Y = {} /\ A \cap (Z \cup Y) = {}
    BY <2>5, <2>7, <2>8 DEF PassedBy
  <2>11. IsFiniteSet(Y) /\ Cardinality(Y) = IF rule \in PrivateRules THEN 1 ELSE 0
    <3>1. Y = IF rule \in PrivateRules THEN {rule} ELSE {}
      OBVIOUS
    <3>2. (rule \in PrivateRules) \in BOOLEAN
      OBVIOUS
    <3> HIDE DEF Y
    <3> QED
      BY <3>1, <3>2, OneOrNone
  <2>12. IsFiniteSet(Z) /\ Cardinality(Z) \in Nat
    BY RulesFinite
  <2>13. IsFiniteSet(A) /\ Cardinality(A) \in Nat
    BY PassedByFinite
  <2> HIDE DEF A, B, Y, Z
  <2>14. IsFiniteSet(Z \cup Y) /\ Cardinality(Z \cup Y) = Cardinality(Z) + Cardinality(Y)
    BY <2>10, <2>11, <2>12, DisjointCount
  <2>15. Cardinality(B) = Cardinality(A) + Cardinality(Z \cup Y)
    BY <2>9, <2>10, <2>13, <2>14, DisjointCount
  <2>16. num_non_matching_private_rules' = Cardinality(B)
    BY <1>2, <2>3, <2>11, <2>12, <2>13, <2>14, <2>15
  <2>17. B = PassedBy(TrueRules', rule', rule_bits')
    BY <1>2, <2>6 DEF B
  <2>18. PassedBy(TrueRules, rule, rule_bits)' = PassedBy(TrueRules', rule', rule_bits')
    BY DEF PassedBy, Counts, Alive
  <2> QED
    BY <1>2, <2>16, <2>17, <2>18 DEF NonMatchingInv, EvalPoints
<1>4. CASE scan_state = "Timeout"
  BY <1>2, <1>4 DEF NonMatchingInv
<1> QED
  BY <1>3, <1>4

\* Steps of a scan that leave the rules and their count alone.
LEMMA NonMatchingUnchanged ==
  ASSUME NonMatchingInv, UNCHANGED <<input, given, rule, ruleVars>>,
         \/ pc' = pc /\ scan_state' = scan_state
         \/ pc \in EvalPoints /\ pc' \in EvalPoints
            /\ (scan_state' # "Timeout" => scan_state # "Timeout")
  PROVE  NonMatchingInv'
<1>1. UNCHANGED <<num_non_matching_private_rules, rule_bits>>
  BY DEF ruleVars
<1>2. TrueRules' = TrueRules
  BY RawUnchanged
<1>3. PassedBy(TrueRules, rule, rule_bits)' = PassedBy(TrueRules, rule, rule_bits)
  BY <1>1, <1>2 DEF PassedBy, Counts, Alive
<1> QED
  BY <1>1, <1>3 DEF NonMatchingInv, EvalPoints

-----------------------------------------------------------------------------
(* The results                                                             *)

ResultInv ==
  /\ Ordered /\ KeysInv /\ NonMatchingInv /\ SearchInv /\ OutputsInv /\ EvalInv
  /\ ResultIsExact
  /\ result = "Ok" => pc = "ready"

\* The end of a scan that did not time out: all rules have been evaluated, and
\* their bits are those of the rules that are moved to the results.
LEMMA ReturnsExact ==
  ASSUME IInv, CountInv, TypeInv, Ordered, KeysInv, NonMatchingInv, EvalInv,
         NEW trapped \in BOOLEAN, ScanReturns(trapped), pc' # "panicked"
  PROVE  ResultIsExact' /\ pc' = "ready"
<1>1. /\ EvalStops(trapped) /\ MoveMatchingRules /\ pc' = "ready"
      /\ result' = IF TimedOut(trapped) THEN "Timeout" ELSE "Ok"
      /\ UNCHANGED <<input, given, inherited>>
  BY DEF ScanReturns, settingVars
<1>2. pc \in {"enter", "eval"} /\ Reported = {} /\ RulesInv
  BY <1>1 DEF EvalStops, IInv, RulesInv, scanning
<1>3. matching_rules' = Moved /\ rule_bits' = rule_bits
      /\ num_non_matching_private_rules' = num_non_matching_private_rules
  BY <1>1 DEF MoveMatchingRules
<1>4. ResultsAreOrdered'
  BY <1>1, <1>2, <1>3, MovedOrdered
<1>5. CASE TimedOut(trapped)
  BY <1>1, <1>4, <1>5 DEF ResultIsExact
<1>6. CASE ~TimedOut(trapped)
  <2>1. ~trapped /\ scan_state # "Timeout" /\ rule \notin Rules
    BY <1>1, <1>6 DEF TimedOut, EvalStops
  <2>2. rule = NumRules + 1
    BY <2>1, ScanContextAssumption DEF CountInv, Rules
  <2>3. rule_bits = Matching(TrueRules, NumRules + 1)
    BY <1>2, <2>1, <2>2 DEF EvalInv, EvalPoints, Evaluated
  <2>4. \A r \in Rules : r \in TrueRules <=> Raw[r]
    BY DEF TrueRules
  <2>5. rule_bits = {r \in Rules : r \in TrueRules
                      /\ \A g \in GlobalRules : NamespaceOf[g] = NamespaceOf[r] => g \in TrueRules}
    BY <2>3, MatchingAll
  <2>6. GlobalRules \subseteq Rules /\ PrivateRules \subseteq Rules
    BY ScanContextAssumption
  <2>7. rule_bits = Expected
    BY <2>4, <2>5, <2>6 DEF Expected
  <2>8. Raw' = Raw
    BY <1>1, RawUnchanged
  <2>9. Expected' = Expected
    BY <2>8 DEF Expected
  <2>10. Reported' = rule_bits
    <3>1. AllRuns(Moved) = Tracked
      BY <1>2, MovedRules
    <3>2. Reported' = AllRuns(Moved)
      BY <1>3 DEF Reported, AllRuns
    <3>3. rule_bits = Tracked
      BY <1>2 DEF RulesInv, BitsAreTracked
    <3> QED
      BY <3>1, <3>2, <3>3
  <2>11. PassedBy(TrueRules, rule, rule_bits) = Counted
    <3>1. \A q \in Rules : q < NumRules + 1
      BY ScanContextAssumption DEF Rules
    <3>2. \A q \in PrivateRules :
            Alive(TrueRules, NamespaceOf[q], q)
              <=> \A g \in GlobalRules : NamespaceOf[g] = NamespaceOf[q] /\ g < q => Raw[g]
      BY <2>4, <2>6 DEF Alive
    <3>3. \A q \in PrivateRules : q \in TrueRules <=> Raw[q]
      BY <2>4, <2>6
    <3> QED
      BY <2>2, <2>6, <2>7, <3>1, <3>2, <3>3 DEF PassedBy, Counts, Counted
  <2>12. num_non_matching_private_rules = Cardinality(Counted)
    BY <1>2, <2>1, <2>11 DEF NonMatchingInv, EvalPoints
  <2>13. Counted' = Counted
    BY <2>8, <2>9 DEF Counted
  <2>14. num_non_matching_private_rules' = Cardinality(Counted')
    BY <1>3, <2>12, <2>13
  <2>15. Reported' = Expected' /\ rule_bits' = Expected'
    BY <1>3, <2>7, <2>9, <2>10
  <2> QED
    BY <1>1, <1>4, <2>14, <2>15 DEF ResultIsExact
<1> QED
  BY <1>1, <1>5, <1>6

\* Between two scans the results of the last one stay as they are.
LEMMA ResultUnchanged ==
  ASSUME ResultIsExact, UNCHANGED <<ruleVars, input, given, inherited, result>>
  PROVE  ResultIsExact'
<1>1. UNCHANGED <<matching_rules, rule_bits, num_non_matching_private_rules>>
  BY DEF ruleVars
<1>2. Raw' = Raw
  BY RawUnchanged
<1>3. Expected' = Expected /\ Reported' = Reported
  BY <1>1, <1>2 DEF Expected, Reported
<1>4. Counted' = Counted
  BY <1>2, <1>3 DEF Counted
<1>5. \A m, n : Precedes(m, n)' = Precedes(m, n)
  BY DEF Precedes
<1>6. ResultsAreOrdered'
  BY <1>1, <1>5 DEF ResultIsExact, ResultsAreOrdered
<1>7. result' = "Ok" => /\ Reported' = Expected' /\ rule_bits' = Expected'
                        /\ num_non_matching_private_rules' = Cardinality(Counted')
  BY <1>1, <1>3, <1>4 DEF ResultIsExact
<1> QED
  BY <1>6, <1>7 DEF ResultIsExact

LEMMA ResultInvInit == Init => ResultInv
<1> SUFFICES ASSUME Init PROVE ResultInv
  OBVIOUS
<1> USE DEF Init, InitContext
<1>1. Ordered
  <2>1. \A n \in Namespaces : Len(matching_rules_per_ns[n]) = 0
    OBVIOUS
  <2> QED
    BY <2>1 DEF Ordered
<1>2. NonMatchingInv /\ SearchInv /\ EvalInv
  BY DEF NonMatchingInv, SearchInv, EvalInv, AtNamespace, EvalPoints
<1>3. OutputsInv
  BY DEF OutputsInv, EvalPoints, Provided
<1>4. ResultIsExact
  BY DEF ResultIsExact, ResultsAreOrdered
<1>5. KeysInv
  BY DEF KeysInv, EvalPoints
<1> QED
  BY <1>1, <1>2, <1>3, <1>4, <1>5 DEF ResultInv

\* The parts that only the evaluation of conditions can disturb.
LEMMA RulesPartNext ==
  ASSUME IInv, CountInv, TypeInv, ResultInv, [Next]_vars
  PROVE  /\ Ordered' /\ KeysInv' /\ NonMatchingInv' /\ ResultIsExact'
         /\ (result' = "Ok" => pc' = "ready")
<1> USE DEF ResultInv
<1>0. IInv' /\ pc' # "panicked"
  BY IInvNext DEF IInv, ControlInv, scanning
<1>1. CASE \E d \in Data : Scan(d)
  <2>1. PICK d \in Data : Scan(d)
    BY <1>1
  <2>2. /\ pc' = "deadline" /\ result' = "None" /\ num_non_matching_private_rules' = 0
        /\ ns_order' = ns_order /\ matching_rules_per_ns' = [n \in Namespaces |-> <<>>]
        /\ inherited' = ns_order
    BY <2>1 DEF Scan, Reset
  <2>3. KeysInv'
    <3>1. Len(ns_order) \in Nat
      BY DEF IInv, RulesInv, RulesTyped
    <3>2. \A i \in 1..Len(ns_order) : ~(Len(ns_order) < i)
      BY <3>1
    <3> QED
      BY <2>2, <3>1, <3>2 DEF KeysInv, EvalPoints
  <2> QED
    BY <2>2, <2>3, OrderedEmpty DEF NonMatchingInv, EvalPoints, ResultIsExact, ResultsAreOrdered
<1>2. CASE \E trapped \in BOOLEAN : ScanReturns(trapped)
  <2>1. PICK trapped \in BOOLEAN : ScanReturns(trapped)
    BY <1>2
  <2>2. ResultIsExact' /\ pc' = "ready"
    BY <1>0, <2>1, ReturnsExact
  <2>3. Ordered'
    BY <1>0, <2>1, OrderedEmpty DEF ScanReturns, MoveMatchingRules
  <2>4. KeysInv'
    BY <1>0, <2>1, <2>2, KeysUnchanged DEF ScanReturns, MoveMatchingRules
  <2> QED
    BY <2>2, <2>3, <2>4 DEF NonMatchingInv, EvalPoints
<1>3. ASSUME result' # "Ok" PROVE ResultIsExact'
  BY <1>3 DEF ResultIsExact, ResultsAreOrdered
<1>4. CASE RuleMatch /\ UNCHANGED <<moduleVars, given, inherited>>
  <2>1. pc = "eval" /\ result' = result
    BY <1>4 DEF RuleMatch, Evaluable, evalUnchanged
  <2>2. Ordered' /\ KeysInv' /\ NonMatchingInv'
    BY <1>4, OrderedRuleMatch, KeysRuleMatch, NonMatchingMatch
  <2> QED
    BY <1>3, <2>1, <2>2
<1>5. CASE RuleNoMatch /\ UNCHANGED <<moduleVars, given, inherited>>
  <2>1. /\ pc = "eval" /\ rule \in Rules /\ result' = result
        /\ matching_rules_per_ns' = matching_rules_per_ns /\ ns_order' = ns_order
    BY <1>5 DEF RuleNoMatch, Evaluable, evalUnchanged
  <2>2. Ordered'
    BY <2>1 DEF Ordered
  <2>3. KeysInv'
    BY <1>5, <2>1, KeysUnchanged DEF EvalPoints
  <2>4. NonMatchingInv'
    BY <1>5, NonMatchingNoMatch
  <2> QED
    BY <1>3, <2>1, <2>2, <2>3, <2>4
<1>6. CASE GlobalNoMatch /\ UNCHANGED <<moduleVars, given, inherited>>
  <2>1. pc = "eval" /\ rule \in Rules /\ result' = result /\ ns_order' = ns_order
    BY <1>6 DEF GlobalNoMatch, Evaluable, evalUnchanged
  <2>2. Ordered' /\ NonMatchingInv'
    BY <1>6, OrderedGlobalNoMatch, NonMatchingGlobal
  <2>3. KeysInv'
    BY <1>6, <2>1, KeysUnchanged DEF EvalPoints
  <2> QED
    BY <1>3, <2>1, <2>2, <2>3
<1>7. ASSUME UNCHANGED ruleVars PROVE Ordered' /\ ns_order' = ns_order
  BY <1>7 DEF ruleVars, Ordered
<1>8. CASE \/ \E t \in Timeouts : SetTimeout(t)
           \/ \E m \in Modules, v \in {"yes", "no"} : SetModuleOutput(m, v)
           \/ ModuleFails
  <2>1. UNCHANGED <<ruleVars, inherited>> /\ pc' = "ready" /\ result' # "Ok"
    BY <1>8 DEF SetTimeout, SetModuleOutput, ModuleFails, controlVars
  <2>2. KeysInv'
    BY <1>7, <2>1, KeysUnchanged
  <2> QED
    BY <1>3, <1>7, <2>1, <2>2 DEF NonMatchingInv, EvalPoints
<1>9. CASE BeginModules \/ RunModule
  <2>1. /\ UNCHANGED <<ruleVars, inherited>> /\ pc \in {"deadline", "modules"} /\ pc' = "modules"
        /\ result' = result
    BY <1>9 DEF BeginModules, RunModule, controlVars
  <2>2. num_non_matching_private_rules' = num_non_matching_private_rules
    BY <2>1 DEF ruleVars
  <2>3. KeysInv'
    BY <1>7, <2>1, KeysUnchanged
  <2> QED
    BY <1>3, <1>7, <2>1, <2>2, <2>3 DEF NonMatchingInv, EvalPoints
<1>10. CASE BeginEval
  <2>1. /\ UNCHANGED <<ruleVars, inherited>> /\ pc = "modules" /\ pc' = "enter" /\ result' = result
        /\ rule' = 1
    BY <1>10 DEF BeginEval
  <2>2. num_non_matching_private_rules' = 0
    BY <2>1 DEF ruleVars, NonMatchingInv
  <2>3. KeysInv'
    BY <1>7, <2>1, KeysUnchanged DEF EvalPoints
  <2>4. PassedBy(TrueRules, rule, rule_bits)' = {}
    <3>1. \A q \in PrivateRules : ~(q < 1)
      BY ScanContextAssumption DEF Rules
    <3> QED
      BY <2>1, <3>1 DEF PassedBy, Counts
  <2>5. Cardinality({}) = 0
    BY FS_EmptySet
  <2>6. NonMatchingInv'
    BY <2>1, <2>2, <2>4, <2>5 DEF NonMatchingInv
  <2> QED
    BY <1>3, <1>7, <2>1, <2>3, <2>6
<1>11. CASE (EnterNamespace \/ EvalSearches \/ SearchAtom \/ SearchEnds \/ SearchTimesOut)
            /\ UNCHANGED <<moduleVars, given, inherited>>
  <2>1. pc \in EvalPoints /\ (pc = "search" => caller = "eval")
    BY <1>11 DEF EnterNamespace, EvalSearches, SearchAtom, SearchEnds, SearchTimesOut,
                 IInv, ControlInv, EvalPoints
  <2>2. UNCHANGED <<rule, ruleVars, result>> /\ pc' \in EvalPoints
    BY <1>0, <1>11, <2>1 DEF EnterNamespace, EvalSearches, SearchBegins, SearchPanics, SearchAtom,
                       SearchEnds, SearchTimesOut, EvalPoints
  <2>3. input' = input
    BY <1>11 DEF EnterNamespace, EvalSearches, SearchBegins, SearchPanics, SearchAtom,
                 SearchEnds, SearchTimesOut, settingVars
  <2>4. scan_state' # "Timeout" => scan_state # "Timeout"
    <3>1. CASE EnterNamespace
      BY <3>1 DEF EnterNamespace
    <3>2. CASE EvalSearches
      BY <1>0, <3>2 DEF EvalSearches, SearchBegins, SearchPanics
    <3>3. CASE SearchAtom
      BY <3>3 DEF SearchAtom
    <3>4. CASE SearchTimesOut
      BY <3>4 DEF SearchTimesOut
    <3>5. CASE SearchEnds
      BY <3>5 DEF SearchEnds, SearchInv
    <3> QED
      BY <1>11, <3>1, <3>2, <3>3, <3>4, <3>5
  <2>5. NonMatchingInv'
    BY <1>11, <2>1, <2>2, <2>3, <2>4, NonMatchingUnchanged
  <2>6. KeysInv'
    BY <1>7, <1>11, <2>1, <2>2, KeysUnchanged
  <2>7. result' # "Ok"
    BY <2>1, <2>2 DEF EvalPoints
  <2> QED
    BY <1>3, <1>7, <2>2, <2>5, <2>6, <2>7
<1>12. CASE ((TickEpoch \/ TickCounter) /\ UNCHANGED <<moduleVars, given, inherited>>) \/ UNCHANGED vars
  <2>1. UNCHANGED <<pc, rule, scan_state, input, given, inherited, ruleVars, result>>
    BY <1>12 DEF TickEpoch, TickCounter, vars, ctxVars, controlVars, settingVars
  <2>2. KeysInv'
    BY <1>7, <2>1, KeysUnchanged
  <2>3. NonMatchingInv'
    BY <2>1, NonMatchingUnchanged
  <2> QED
    BY <1>7, <2>1, <2>2, <2>3, ResultUnchanged
<1> QED
  BY <1>1, <1>2, <1>4, <1>5, <1>6, <1>8, <1>9, <1>10, <1>11, <1>12 DEF Next, ScanStep

LEMMA ResultInvNext ==
  IInv /\ CountInv /\ TypeInv /\ ResultInv /\ [Next]_vars => ResultInv'
<1> SUFFICES ASSUME IInv, CountInv, TypeInv, ResultInv, [Next]_vars PROVE ResultInv'
  OBVIOUS
<1>1. SearchInv' /\ OutputsInv' /\ EvalInv'
  BY SearchInvNext, OutputsInvNext, EvalInvNext DEF ResultInv
<1>2. Ordered' /\ KeysInv' /\ NonMatchingInv' /\ ResultIsExact' /\ (result' = "Ok" => pc' = "ready")
  BY RulesPartNext
<1> QED
  BY <1>1, <1>2 DEF ResultInv

\* A scan that returns Ok reports exactly the rules that are true of its data
\* and of the outputs provided for its modules and not consumed before, in the
\* order of the map's keys, and counts exactly the private rules of Counted,
\* however many scans, timeouts, settings and failures of any module the
\* context went through before (scan_impl, eval_conditions,
\* search_for_patterns, track_rule_match and track_rule_no_match).
THEOREM ResultIsAlwaysExact == Spec => []ResultIsExact
<1>1. ResultInv => ResultIsExact
  BY DEF ResultInv
<1>2. IInv /\ CountInv /\ TypeInv /\ ResultInv /\ [Next]_vars => ResultInv'
  BY ResultInvNext
<1> QED
  BY <1>1, <1>2, IInvInit, CountInvInit, TypeInvInit, ResultInvInit, IInvNext, CountInvNext, TypeInvNext,
     PTL DEF Spec

-----------------------------------------------------------------------------
(* The inductive invariant                                                 *)

\* A scan is under way: some block was scanned, or finish is running.
InScan == ~needs_reset \/ pc # "ready"

searching == {"begin_search", "search", "block"}

BlockTyped ==
  /\ scan_state \in {"Idle", "ScanningData", "ScanningBlock", "Timeout", "Finished"}
  /\ taken \in {"Idle", "ScanningData", "ScanningBlock"} /\ caller \in {"eval", "block"}
  /\ result \in {"None", "Scanned", "Ok", "Timeout", "ModuleError"}
  /\ mode \in {"whole", "blocks"} /\ needs_reset \in BOOLEAN
  /\ found \subseteq Patterns /\ searched \in BOOLEAN /\ interrupted \in BOOLEAN
  /\ num_non_matching_private_rules \in Nat

\* What the state of the scan is at each point.  Conditions are evaluated
\* after a search, unless no block has ever been scanned.
BlockControl ==
  mode = "blocks" =>
    /\ pc \in {"ready", "enter", "eval", "search", "panicked", "block_deadline", "search_block",
               "begin_search", "block", "finish_deadline"}
    /\ pc \in {"block_deadline", "search_block", "begin_search", "search", "block"} => ~needs_reset
    /\ pc \in {"enter", "eval", "finish_deadline"} => needs_reset
    /\ InScan /\ pc \notin searching => scan_state \in {"Idle", "Timeout"}
    /\ pc \in {"begin_search", "block"} => scan_state = "ScanningBlock"
    /\ pc = "search" =>
         scan_state = "Idle" /\ taken = "ScanningBlock" /\ caller = "block" /\ atom \in Nat \ {0}
    /\ searched /\ pc \notin {"begin_search", "search"} => pattern_search_done
    /\ pc = "panicked" => ~searched

\* No rule is tracked before finish, and none reported until it returns.
BlockRules ==
  mode = "blocks" =>
    /\ InScan => Reported = {}
    /\ InScan /\ pc \notin {"enter", "eval", "panicked"} => rule_bits = {}

\* Bits and matches are those of patterns in the blocks of this scan.
BlockPatterns ==
  mode = "blocks" /\ InScan =>
    /\ pattern_bits \subseteq found
    /\ \A p \in Patterns : matches[p] > 0 => p \in found
    /\ pc \in {"begin_search", "search"} => ToSet(input.atoms) \cup input.anchored \subseteq found

SharedInv == RulesInv /\ CountInv /\ PatternsInv

BlockInv ==
  /\ SharedInv
  /\ mode = "whole" => ControlInv /\ TypeInv /\ ~searched
  /\ BlockTyped /\ BlockControl /\ BlockRules /\ BlockPatterns

LEMMA BlockInvInit == BlockInit => BlockInv
<1> SUFFICES ASSUME BlockInit PROVE BlockInv
  OBVIOUS
<1>1. IInv /\ CountInv /\ TypeInv
  BY IInvInit, CountInvInit, TypeInvInit DEF BlockInit
<1>2. BlockTyped
  BY DEF BlockInit, Init, InitContext, BlockTyped
<1> QED
  BY <1>1, <1>2 DEF BlockInv, SharedInv, IInv, BlockInit, BlockControl, BlockRules, BlockPatterns

\* A call of a Scanner, or one of its steps.
LEMMA BlockInvWhole ==
  ASSUME BlockInv, WholeStep
  PROVE  BlockInv'
<1>1. mode = "whole" /\ mode' = "whole" /\ Next /\ UNCHANGED blockVars
  BY DEF WholeStep, blockVars
<1>2. IInv /\ CountInv /\ TypeInv
  BY <1>1 DEF BlockInv, SharedInv, IInv
<1>3. IInv' /\ CountInv' /\ TypeInv'
  BY <1>1, <1>2, IInvNext, CountInvNext, TypeInvNext
<1>4. BlockTyped'
  BY <1>1, <1>3 DEF BlockInv, BlockTyped, TypeInv, CallTyped, OthersTyped, blockVars
<1> QED
  BY <1>1, <1>3, <1>4 DEF BlockInv, SharedInv, IInv, BlockControl, BlockRules, BlockPatterns, blockVars

\* Steps that leave rules and patterns alone.
LEMMA SharedFrame ==
  ASSUME SharedInv, UNCHANGED <<ruleVars, matchVars>>, input' \in Inputs,
         rule' \in 1..(NumRules + 1), pc' \notin {"deadline", "modules"},
         pc' \in scanning => Reported = {},
         pc' \in {"enter", "eval", "search"} =>
           Tracked = {} \/ (pc \in {"enter", "eval", "search"} /\ rule' = rule)
  PROVE  /\ SharedInv' /\ Reported' = Reported /\ rule_bits' = rule_bits
         /\ pattern_bits' = pattern_bits /\ matches' = matches
         /\ num_non_matching_private_rules' = num_non_matching_private_rules
<1>1. UNCHANGED <<matching_rules_per_ns, ns_order, matching_rules, rule_bits,
                  num_matching_private_rules, num_non_matching_private_rules>>
  BY DEF ruleVars
<1>2. UNCHANGED <<occupied, matches, pattern_bits, disabled_patterns>>
  BY DEF matchVars
<1>3. Tracked' = Tracked /\ Reported' = Reported
  BY <1>1 DEF Tracked, Reported
<1>4. RulesInv'
  BY <1>1, <1>3 DEF SharedInv, RulesInv, RulesTyped, BitsAreTracked
<1>5. CountInv'
  BY <1>1, <1>3 DEF SharedInv, CountInv, PrivateCountIsExact
<1>6. PatternsInv'
  BY <1>2 DEF SharedInv, PatternsInv
<1> QED
  BY <1>1, <1>2, <1>3, <1>4, <1>5, <1>6 DEF SharedInv

\* reset, by the first block or by a finish without blocks.
LEMMA SharedReset ==
  ASSUME SharedInv, NEW next, Reset(next), rule' = rule, input' \in Inputs,
         next \notin {"enter", "eval", "search"}
  PROVE  /\ SharedInv' /\ Reported' = {} /\ rule_bits' = {}
         /\ pattern_bits' = {} /\ disabled_patterns' = {} /\ \A p \in Patterns : matches'[p] = 0
<1>1. RulesInv' /\ rule_bits' = {}
  BY ResetRules DEF SharedInv
<1>2. CountInv'
  BY CountReset DEF SharedInv
<1>3. PatternsInv' /\ pattern_bits' = {} /\ disabled_patterns' = {} /\ matches' = [p \in Patterns |-> 0]
  BY ResetPatterns DEF SharedInv
<1>4. Reported' = {}
  BY <1>1 DEF RulesInv, BitsAreTracked
<1> QED
  BY <1>1, <1>2, <1>3, <1>4 DEF SharedInv

-----------------------------------------------------------------------------
(* Calls and steps of the block scanner                                    *)

LEMMA BlockInvCalls ==
  ASSUME BlockInv, FromScanner \/ \E t \in Timeouts : BlockSetTimeout(t)
  PROVE  BlockInv'
<1>1. /\ pc = "ready" /\ pc' = "ready" /\ UNCHANGED <<ruleVars, matchVars, rule, input>>
      /\ UNCHANGED <<scan_state, taken, caller, atom, pattern_search_done, searched, found, interrupted>>
      /\ mode' = "blocks" /\ result' = "None"
      /\ needs_reset' = TRUE \/ (mode = "blocks" /\ needs_reset' = needs_reset)
  BY DEF FromScanner, BlockSetTimeout, SetTimeout, controlVars, settingVars, historyVars, blockVars
<1>2. input \in Inputs /\ rule \in 1..(NumRules + 1) /\ SharedInv
  BY DEF BlockInv, SharedInv, PatternsInv, CountInv
<1>3. /\ SharedInv' /\ Reported' = Reported /\ rule_bits' = rule_bits
      /\ pattern_bits' = pattern_bits /\ matches' = matches
      /\ num_non_matching_private_rules' = num_non_matching_private_rules
  BY <1>1, <1>2, SharedFrame DEF scanning
<1>4. BlockTyped'
  BY <1>1, <1>3 DEF BlockInv, BlockTyped
<1>5. CASE needs_reset' = TRUE
  <2>1. ~InScan' /\ (searched => pattern_search_done)
    BY <1>1, <1>5 DEF BlockInv, BlockControl, BlockTyped, InScan
  <2>2. BlockControl'
    BY <1>1, <2>1 DEF BlockControl
  <2> QED
    BY <1>1, <1>3, <1>4, <2>1, <2>2 DEF BlockInv, BlockRules, BlockPatterns
<1>6. CASE mode = "blocks" /\ needs_reset' = needs_reset
  BY <1>1, <1>3, <1>4, <1>6 DEF BlockInv, BlockControl, BlockRules, BlockPatterns, InScan, searching
<1> QED
  BY <1>1, <1>5, <1>6

\* The first block of a scan, or a finish without any: reset.
LEMMA BlockInvReset ==
  ASSUME BlockInv, (\E b \in Blocks : ScanFirstBlock(b)) \/ FinishEmpty
  PROVE  BlockInv'
<1>1. PICK next \in {"block_deadline", "finish_deadline"} :
        /\ mode = "blocks" /\ pc = "ready" /\ needs_reset /\ Reset(next) /\ pc' = next
        /\ next = "block_deadline" => ~needs_reset'
        /\ next = "finish_deadline" => needs_reset'
        /\ UNCHANGED <<rule, taken, caller, atom, pattern_search_done, mode, searched>>
        /\ found' = {} /\ interrupted' = FALSE /\ result' = "None" /\ input' \in Inputs
        /\ needs_reset' \in BOOLEAN
  <2>1. CASE FinishEmpty
    <3>1. input' = input /\ input \in Inputs /\ needs_reset \in BOOLEAN
      BY <2>1 DEF FinishEmpty, settingVars, BlockInv, SharedInv, PatternsInv, BlockTyped
    <3> QED
      BY <2>1, <3>1 DEF FinishEmpty, Reset
  <2>2. CASE \E b \in Blocks : ScanFirstBlock(b)
    <3>1. PICK b \in Blocks : ScanFirstBlock(b)
      BY <2>2
    <3>2. input' = b /\ b \in Inputs
      BY <3>1, BlockScannerAssumption DEF ScanFirstBlock
    <3> QED
      BY <3>1, <3>2 DEF ScanFirstBlock, Reset
  <2> QED
    BY <2>1, <2>2
<1>2. /\ SharedInv' /\ Reported' = {} /\ rule_bits' = {}
      /\ pattern_bits' = {} /\ \A p \in Patterns : matches'[p] = 0
  BY <1>1, SharedReset DEF BlockInv
<1>3. scan_state' = "Idle" /\ num_non_matching_private_rules' = 0
  BY <1>1 DEF Reset
<1>4. BlockTyped'
  BY <1>1, <1>3 DEF BlockInv, BlockTyped
<1>5. BlockControl'
  BY <1>1, <1>3 DEF BlockInv, BlockControl, searching
<1> QED
  BY <1>1, <1>2, <1>4, <1>5 DEF BlockInv, BlockRules, BlockPatterns

\* What a step of the block scanner leaves alone when it only moves on.
BlockFrame ==
  /\ mode = "blocks" /\ mode' = "blocks"
  /\ UNCHANGED <<ruleVars, matchVars, taken, caller, atom, interrupted>>
  /\ rule' \in {rule, 1}
  /\ pc' \notin {"deadline", "modules"}
  /\ pc' \in scanning => InScan
  /\ pc' \in {"enter", "eval", "search"} =>
       pc \notin {"enter", "eval", "panicked"} \/ (pc \in {"enter", "eval"} /\ rule' = rule)

LEMMA FrameShared ==
  ASSUME BlockInv, BlockFrame, input' \in Inputs, InScan \/ pc' \notin scanning
  PROVE  /\ SharedInv' /\ Reported' = Reported /\ rule_bits' = rule_bits
         /\ pattern_bits' = pattern_bits /\ matches' = matches
         /\ num_non_matching_private_rules' = num_non_matching_private_rules
<1>1. SharedInv /\ rule \in 1..(NumRules + 1) /\ mode = "blocks"
  BY DEF BlockInv, SharedInv, CountInv, BlockFrame
<1>2. 1 \in 1..(NumRules + 1)
  BY ScanContextAssumption
<1>3. InScan => Reported = {}
  BY <1>1 DEF BlockInv, BlockRules
<1>4. InScan /\ pc \notin {"enter", "eval", "panicked"} => Tracked = {}
  BY <1>1 DEF BlockInv, BlockRules, SharedInv, RulesInv, BitsAreTracked
<1> QED
  BY <1>1, <1>2, <1>3, <1>4, SharedFrame DEF BlockFrame, scanning

\* The steps between the calls that search and evaluate.
LEMMA BlockInvMoves ==
  ASSUME BlockInv,
         \/ BlockDeadline \/ (\E b \in Blocks : ScanNextBlock(b)) \/ SearchBlock
         \/ BlockReturns \/ Finish \/ FinishDeadline
  PROVE  BlockInv'
<1>0. mode \in {"whole", "blocks"} /\ (mode = "whole" => pc \in {"ready"} \cup scanning)
  BY DEF BlockInv, BlockTyped, ControlInv
<1>1. mode = "blocks"
  BY <1>0 DEF BlockDeadline, ScanNextBlock, SearchBlock, BlockReturns, Finish, FinishDeadline, scanning
<1>2. input \in Inputs /\ input' \in Inputs
  <2>1. input \in Inputs
    BY DEF BlockInv, SharedInv, PatternsInv
  <2>2. CASE \E b \in Blocks : ScanNextBlock(b)
    BY <2>1, <2>2, BlockScannerAssumption DEF ScanNextBlock
  <2>3. CASE BlockDeadline \/ SearchBlock \/ BlockReturns \/ Finish \/ FinishDeadline
    BY <2>1, <2>3 DEF BlockDeadline, SearchBlock, BlockReturns, Finish, FinishDeadline, settingVars
  <2> QED
    BY <2>1, <2>2, <2>3
<1>3. BlockFrame /\ InScan
  <2>1. InScan
    BY DEF BlockDeadline, ScanNextBlock, SearchBlock, BlockReturns, Finish, FinishDeadline, InScan
  <2> QED
    BY <1>1, <2>1 DEF BlockFrame, BlockDeadline, ScanNextBlock, SearchBlock, BlockReturns, Finish,
            FinishDeadline, blockVars, historyVars, scanning
<1>4. /\ SharedInv' /\ Reported' = Reported /\ rule_bits' = rule_bits
      /\ pattern_bits' = pattern_bits /\ matches' = matches
      /\ num_non_matching_private_rules' = num_non_matching_private_rules
  BY <1>2, <1>3, FrameShared
<1>5. Reported = {} /\ pattern_bits \subseteq found /\ \A p \in Patterns : matches[p] > 0 => p \in found
  BY <1>1, <1>3 DEF BlockInv, BlockRules, BlockPatterns
<1>6. mode' = "blocks" /\ UNCHANGED <<taken, caller, atom, interrupted>>
  BY <1>3 DEF BlockFrame
<1>7. CASE BlockDeadline
  <2>1. /\ pc = "block_deadline" /\ pc' = "search_block" /\ UNCHANGED <<scan_state, result, found>>
        /\ UNCHANGED <<needs_reset, searched, pattern_search_done>>
    BY <1>7 DEF BlockDeadline, blockVars
  <2>2. BlockTyped'
    BY <1>4, <1>6, <2>1 DEF BlockInv, BlockTyped
  <2>3. BlockControl'
    BY <1>1, <1>6, <2>1 DEF BlockInv, BlockControl, InScan, searching
  <2> QED
    BY <1>1, <1>4, <1>5, <1>6, <2>1, <2>2, <2>3 DEF BlockInv, BlockRules, BlockPatterns, InScan
<1>8. CASE \E b \in Blocks : ScanNextBlock(b)
  <2>1. /\ pc = "ready" /\ pc' = "search_block" /\ ~needs_reset /\ result' = "None"
        /\ UNCHANGED <<scan_state, found, needs_reset, searched, pattern_search_done>>
    BY <1>8 DEF ScanNextBlock, blockVars
  <2>2. BlockTyped'
    BY <1>4, <1>6, <2>1 DEF BlockInv, BlockTyped
  <2>3. BlockControl'
    BY <1>1, <1>6, <2>1 DEF BlockInv, BlockControl, InScan, searching
  <2> QED
    BY <1>1, <1>4, <1>5, <1>6, <2>1, <2>2, <2>3 DEF BlockInv, BlockRules, BlockPatterns, InScan
<1>9. CASE SearchBlock
  <2>1. /\ pc = "search_block" /\ pc' = "begin_search" /\ scan_state' = "ScanningBlock"
        /\ found' = found \cup ToSet(input.atoms) \cup input.anchored /\ searched' = TRUE
        /\ UNCHANGED <<input, result, needs_reset>>
    BY <1>9 DEF SearchBlock, settingVars
  <2>2. ToSet(input.atoms) \subseteq Patterns /\ input.anchored \subseteq Patterns
    <3>1. input.atoms \in Seq(Patterns) /\ input.anchored \subseteq Patterns
      BY <1>2 DEF Inputs
    <3> QED
      BY <3>1, ToSetEmpty
  <2>3. BlockTyped'
    BY <1>4, <1>6, <2>1, <2>2 DEF BlockInv, BlockTyped
  <2>4. BlockControl'
    BY <1>1, <1>6, <2>1 DEF BlockInv, BlockControl, InScan, searching
  <2>5. BlockPatterns'
    BY <1>4, <1>5, <2>1 DEF BlockPatterns
  <2>6. BlockRules'
    BY <1>1, <1>4, <1>5, <2>1 DEF BlockInv, BlockRules, InScan
  <2> QED
    BY <1>4, <1>6, <2>3, <2>4, <2>5, <2>6 DEF BlockInv
<1>10. CASE BlockReturns
  <2>1. /\ pc = "block" /\ pc' = "ready" /\ scan_state' = "Idle" /\ result' = "Scanned"
        /\ UNCHANGED <<found, needs_reset, searched, pattern_search_done>>
    BY <1>10 DEF BlockReturns, blockVars
  <2>2. BlockTyped'
    BY <1>4, <1>6, <2>1 DEF BlockInv, BlockTyped
  <2>3. BlockControl'
    BY <1>1, <1>6, <2>1 DEF BlockInv, BlockControl, InScan, searching
  <2> QED
    BY <1>1, <1>4, <1>5, <1>6, <2>1, <2>2, <2>3 DEF BlockInv, BlockRules, BlockPatterns, InScan
<1>11. CASE Finish
  <2>1. /\ pc = "ready" /\ pc' = "enter" /\ ~needs_reset /\ needs_reset' = TRUE /\ result' = "None"
        /\ UNCHANGED <<scan_state, found, searched, pattern_search_done>>
    BY <1>11 DEF Finish, historyVars
  <2>2. BlockTyped'
    BY <1>4, <1>6, <2>1 DEF BlockInv, BlockTyped
  <2>3. BlockControl'
    BY <1>1, <1>6, <2>1 DEF BlockInv, BlockControl, InScan, searching
  <2> QED
    BY <1>1, <1>4, <1>5, <1>6, <2>1, <2>2, <2>3 DEF BlockInv, BlockRules, BlockPatterns, InScan
<1>12. CASE FinishDeadline
  <2>1. /\ pc = "finish_deadline" /\ pc' = "enter"
        /\ UNCHANGED <<scan_state, found, needs_reset, searched, result, pattern_search_done>>
    BY <1>12 DEF FinishDeadline, blockVars
  <2>2. BlockTyped'
    BY <1>4, <1>6, <2>1 DEF BlockInv, BlockTyped
  <2>3. BlockControl'
    BY <1>1, <1>6, <2>1 DEF BlockInv, BlockControl, InScan, searching
  <2> QED
    BY <1>1, <1>4, <1>5, <1>6, <2>1, <2>2, <2>3 DEF BlockInv, BlockRules, BlockPatterns, InScan
<1> QED
  BY <1>7, <1>8, <1>9, <1>10, <1>11, <1>12

\* The search of a block: it finds what the block contains and nothing else.
LEMMA BlockInvSearch ==
  ASSUME BlockInv, BlockSearchStep
  PROVE  BlockInv'
<1>1. /\ mode = "blocks" /\ mode' = "blocks" /\ UNCHANGED <<needs_reset, searched, found>>
      /\ pc \in {"begin_search", "search"} /\ SharedInv
      /\ interrupted' = (interrupted \/ scan_state' = "Timeout")
  BY DEF BlockSearchStep, SearchAtom, SearchEnds, SearchTimesOut, BlockInv
<1>2. /\ ~needs_reset /\ InScan /\ Reported = {} /\ rule_bits = {}
      /\ pattern_bits \subseteq found /\ \A p \in Patterns : matches[p] > 0 => p \in found
      /\ ToSet(input.atoms) \cup input.anchored \subseteq found
  BY <1>1 DEF BlockInv, BlockControl, BlockRules, BlockPatterns, InScan
<1>3. Tracked = {}
  BY <1>1, <1>2 DEF SharedInv, RulesInv, BitsAreTracked
<1>4. input.atoms \in Seq(Patterns) /\ input.anchored \subseteq Patterns
  BY <1>1 DEF SharedInv, PatternsInv, Inputs
<1>5. pc = "search" =>
        scan_state = "Idle" /\ taken = "ScanningBlock" /\ caller = "block" /\ atom \in Nat \ {0}
  BY <1>1 DEF BlockInv, BlockControl
<1>6. BlockTyped /\ scan_state \in {"Idle", "ScanningData", "ScanningBlock", "Timeout", "Finished"}
  BY DEF BlockInv, BlockTyped
<1>7. interrupted' \in BOOLEAN
  BY <1>1, <1>6 DEF BlockTyped
<1>8. UNCHANGED <<ruleVars, input, rule>>
  BY DEF BlockSearchStep, SearchBegins, SearchAtom, SearchEnds, SearchTimesOut, settingVars
<1>9. /\ Reported' = {} /\ rule_bits' = {}
      /\ num_non_matching_private_rules' = num_non_matching_private_rules
      /\ rule' = rule /\ input' = input
  <2>1. UNCHANGED <<matching_rules, rule_bits, num_non_matching_private_rules>>
    BY <1>8 DEF ruleVars
  <2>2. Reported' = Reported
    BY <2>1 DEF Reported
  <2> QED
    BY <1>2, <1>8, <2>1, <2>2
<1>10. RulesInv' /\ CountInv'
  <2>1. UNCHANGED <<matching_rules_per_ns, ns_order, matching_rules, rule_bits,
                    num_matching_private_rules>>
    BY <1>8 DEF ruleVars
  <2>2. Tracked' = Tracked /\ Reported' = Reported
    BY <2>1 DEF Tracked, Reported
  <2>3. RulesInv'
    BY <1>1, <1>2, <2>1, <2>2 DEF SharedInv, RulesInv, RulesTyped, BitsAreTracked
  <2>4. CountInv'
    BY <1>1, <1>3, <1>9, <2>1, <2>2 DEF SharedInv, CountInv, PrivateCountIsExact
  <2> QED
    BY <2>3, <2>4
<1>11. BlockRules'
  BY <1>9 DEF BlockRules
<1>12. CASE pc = "begin_search" /\ SearchBegins("block")
  <2>1. PICK disabled : TrackMatch(input.anchored \ disabled, disabled)
    BY <1>12 DEF SearchBegins
  <2>2. input.anchored \ disabled \subseteq Patterns /\ input.anchored \ disabled \subseteq found
    BY <1>2, <1>4
  <2>3. /\ pc' = "search" /\ caller' = "block" /\ atom' = 1 /\ scan_state' = "Idle"
        /\ taken' = "ScanningBlock" /\ UNCHANGED <<pattern_search_done, result>>
    <3>1. scan_state = "ScanningBlock"
      BY <1>1, <1>12 DEF BlockInv, BlockControl
    <3> QED
      BY <1>12, <3>1 DEF SearchBegins
  <2>4. PatternsInv'
    BY <1>1, <1>9, <2>1, <2>2, <2>3, TrackMatchPatterns DEF SharedInv
  <2>5. pattern_bits' \subseteq found /\ \A p \in Patterns : matches'[p] > 0 => p \in found
    BY <1>2, <2>1, <2>2 DEF TrackMatch
  <2>6. BlockPatterns'
    BY <1>1, <1>2, <1>9, <2>5 DEF BlockPatterns
  <2>7. BlockTyped'
    BY <1>1, <1>6, <1>7, <1>9, <2>3 DEF BlockTyped
  <2>8. BlockControl'
    BY <1>1, <1>2, <2>3 DEF BlockControl, InScan, searching
  <2> QED
    BY <1>1, <1>10, <1>11, <2>4, <2>6, <2>7, <2>8 DEF BlockInv, SharedInv
<1>13. CASE SearchAtom
  <2>1. /\ pc = "search" /\ pc' = "search" /\ atom' = atom + 1 /\ atom <= Len(input.atoms)
        /\ UNCHANGED <<taken, caller, scan_state, pattern_search_done, result>>
    BY <1>13 DEF SearchAtom
  <2>2. input.atoms[atom] \in Patterns /\ input.atoms[atom] \in found
    <3>1. atom \in 1..Len(input.atoms)
      BY <1>5, <2>1, <1>4
    <3>2. input.atoms[atom] \in ToSet(input.atoms)
      BY <1>4, <3>1 DEF ToSet
    <3> QED
      BY <1>2, <1>4, <3>1, <3>2
  <2>3. /\ PatternsInv' /\ pattern_bits' \subseteq found
        /\ \A p \in Patterns : matches'[p] > 0 => p \in found
    <3>1. CASE input.atoms[atom] \in disabled_patterns
      <4>1. UNCHANGED matchVars
        BY <1>13, <3>1 DEF SearchAtom
      <4>2. UNCHANGED <<pattern_bits, matches>>
        BY <4>1 DEF matchVars
      <4>3. PatternsInv'
        BY <1>1, <1>9, <2>1, <4>1, PatternsUnchanged DEF SharedInv
      <4> QED
        BY <1>2, <4>2, <4>3
    <3>2. CASE input.atoms[atom] \notin disabled_patterns
      <4>1. TrackMatch({input.atoms[atom]}, disabled_patterns)
        BY <1>13, <3>2 DEF SearchAtom
      <4>2. PatternsInv'
        BY <1>1, <1>9, <2>1, <2>2, <4>1, TrackMatchPatterns DEF SharedInv
      <4>3. pattern_bits' \subseteq found /\ \A p \in Patterns : matches'[p] > 0 => p \in found
        BY <1>2, <2>2, <4>1 DEF TrackMatch
      <4> QED
        BY <4>2, <4>3
    <3> QED
      BY <3>1, <3>2
  <2>4. BlockPatterns'
    BY <1>1, <1>2, <1>9, <2>3 DEF BlockPatterns
  <2>5. BlockTyped'
    BY <1>1, <1>6, <1>7, <1>9, <2>1 DEF BlockTyped
  <2>6. BlockControl'
    BY <1>1, <1>2, <1>5, <2>1 DEF BlockControl, InScan, searching
  <2> QED
    BY <1>1, <1>10, <1>11, <2>3, <2>4, <2>5, <2>6 DEF BlockInv, SharedInv
<1>14. CASE SearchEnds \/ SearchTimesOut
  <2>1. /\ UNCHANGED <<taken, caller, atom, matchVars>> /\ pattern_search_done' = TRUE
        /\ \/ pc' = "block" /\ scan_state' = "ScanningBlock" /\ result' = result
           \/ pc' = "ready" /\ scan_state' = "Timeout" /\ result' = "Timeout"
    BY <1>5, <1>14 DEF SearchEnds, SearchTimesOut
  <2>2. PatternsInv'
    BY <1>1, <1>9, <2>1, PatternsUnchanged DEF SharedInv
  <2>3. UNCHANGED <<pattern_bits, matches>>
    BY <2>1 DEF matchVars
  <2>4. BlockPatterns'
    BY <1>1, <1>2, <2>1, <2>3 DEF BlockPatterns
  <2>5. BlockTyped'
    BY <1>1, <1>6, <1>7, <1>9, <2>1 DEF BlockTyped
  <2>6. BlockControl'
    BY <1>1, <1>2, <2>1 DEF BlockControl, InScan, searching
  <2> QED
    BY <1>1, <1>10, <1>11, <2>2, <2>4, <2>5, <2>6 DEF BlockInv, SharedInv
<1> QED
  BY <1>12, <1>13, <1>14 DEF BlockSearchStep

\* The conditions, evaluated by finish.  They never begin a search: it would
\* panic, but after a search of a block the search counts as done.
LEMMA EvalStepFrame ==
  ASSUME BlockInv, EvalStep
  PROVE  /\ mode = "blocks" /\ pc \in {"enter", "eval"} /\ SharedInv /\ needs_reset
         /\ scan_state \in {"Idle", "Timeout"} /\ (searched => pattern_search_done)
         /\ UNCHANGED <<mode, needs_reset, searched, found, interrupted>>
         /\ pc' \in {"enter", "eval", "panicked"} /\ (pc' = "panicked" => ~searched)
         /\ UNCHANGED <<atom, taken, caller, scan_state, settingVars, matchVars,
                        pattern_search_done, result, input, pattern_bits, matches, disabled_patterns>>
<1>1. /\ mode = "blocks" /\ pc \in {"enter", "eval"} /\ UNCHANGED blockVars /\ SharedInv
      /\ needs_reset /\ scan_state \in {"Idle", "Timeout"} /\ (searched => pattern_search_done)
  <2>1. mode = "blocks" /\ pc \in {"enter", "eval"} /\ UNCHANGED blockVars
    BY DEF EvalStep, EnterNamespace, EvalSearches, RuleMatch, RuleNoMatch, GlobalNoMatch, Evaluable
  <2> QED
    BY <2>1 DEF BlockInv, BlockControl, InScan, searching
<1>2. UNCHANGED <<mode, needs_reset, searched, found, interrupted>>
  BY <1>1 DEF blockVars
<1>3. pc' \in {"enter", "eval", "panicked"} /\ (pc' = "panicked" => ~searched)
  <2>1. CASE EvalSearches
    BY <1>1, <2>1 DEF EvalSearches, SearchBegins, SearchPanics
  <2>2. CASE EnterNamespace \/ RuleMatch \/ RuleNoMatch \/ GlobalNoMatch
    BY <2>2 DEF EnterNamespace, RuleMatch, RuleNoMatch, GlobalNoMatch, ContinueWith
  <2> QED
    BY <2>1, <2>2 DEF EvalStep
<1>4. UNCHANGED <<atom, taken, caller, scan_state, settingVars, matchVars, pattern_search_done, result>>
  <2>1. CASE EvalSearches
    BY <1>1, <2>1 DEF EvalSearches, SearchBegins, SearchPanics
  <2>2. CASE EnterNamespace \/ RuleMatch \/ RuleNoMatch \/ GlobalNoMatch
    BY <2>2 DEF EnterNamespace, RuleMatch, RuleNoMatch, GlobalNoMatch, evalUnchanged
  <2> QED
    BY <2>1, <2>2 DEF EvalStep
<1>5. UNCHANGED <<input, pattern_bits, matches, disabled_patterns>>
  BY <1>4 DEF settingVars, matchVars
<1> QED
  BY <1>1, <1>2, <1>3, <1>4, <1>5

LEMMA BlockInvEval ==
  ASSUME BlockInv, EvalStep
  PROVE  BlockInv'
<1>1. /\ mode = "blocks" /\ pc \in {"enter", "eval"} /\ SharedInv /\ needs_reset
      /\ scan_state \in {"Idle", "Timeout"} /\ (searched => pattern_search_done)
  BY EvalStepFrame
<1>2. UNCHANGED <<mode, needs_reset, searched, found, interrupted>>
  BY EvalStepFrame
<1>3. pc' \in {"enter", "eval", "panicked"} /\ (pc' = "panicked" => ~searched)
  BY EvalStepFrame
<1>4. UNCHANGED <<atom, taken, caller, scan_state, settingVars, matchVars, pattern_search_done, result>>
  BY EvalStepFrame
<1>5. UNCHANGED <<input, pattern_bits, matches>>
  BY EvalStepFrame
<1>6. PatternsInv'
  BY <1>1, <1>3, <1>4, <1>5, PatternsUnchanged DEF SharedInv
<1>7. Reported = {}
  BY <1>1 DEF SharedInv, RulesInv, scanning
<1>8. RulesInv' /\ CountInv' /\ num_non_matching_private_rules' \in Nat /\ Reported' = {}
  <2>0. RulesInv /\ CountInv /\ num_non_matching_private_rules \in Nat
    BY <1>1 DEF SharedInv, BlockInv, BlockTyped
  <2>1. CASE EvalSearches \/ EnterNamespace
    <3>1. UNCHANGED ruleVars /\ rule' = rule
      BY <1>1, <2>1 DEF EvalSearches, SearchBegins, SearchPanics, EnterNamespace
    <3>2. UNCHANGED <<matching_rules, num_non_matching_private_rules>>
      BY <3>1 DEF ruleVars
    <3>3. Reported' = Reported
      BY <3>2 DEF Reported
    <3>4. RulesInv'
      BY <1>1, <2>0, <3>1, RulesUnchanged DEF scanning
    <3>5. CountInv'
      BY <1>1, <2>0, <3>1, CountUnchanged
    <3> QED
      BY <1>7, <2>0, <3>2, <3>3, <3>4, <3>5
  <2>2. CASE RuleMatch
    <3>1. matching_rules' = matching_rules
          /\ num_non_matching_private_rules' = num_non_matching_private_rules
      BY <2>2 DEF RuleMatch
    <3>2. Reported' = Reported
      BY <3>1 DEF Reported
    <3> QED
      BY <1>7, <2>0, <2>2, <3>1, <3>2, RuleMatchRules, CountRuleMatch
  <2>3. CASE RuleNoMatch
    <3>1. UNCHANGED <<matching_rules_per_ns, ns_order, matching_rules, rule_bits>>
      BY <2>3 DEF RuleNoMatch
    <3>2. Tracked' = Tracked /\ Reported' = Reported
      BY <3>1 DEF Tracked, Reported
    <3>3. RulesInv'
      BY <1>7, <2>0, <3>1, <3>2 DEF RulesInv, RulesTyped, BitsAreTracked
    <3>4. CountInv'
      BY <2>0, <2>3, CountRuleNoMatch
    <3>5. num_non_matching_private_rules' \in Nat
      BY <2>0, <2>3 DEF RuleNoMatch
    <3> QED
      BY <1>7, <3>2, <3>3, <3>4, <3>5
  <2>4. CASE GlobalNoMatch
    <3>1. matching_rules' = matching_rules
      BY <2>4 DEF GlobalNoMatch
    <3>2. Reported' = Reported
      BY <3>1 DEF Reported
    <3>3. \A X : Cardinality(X \cap PrivateRules) \in Nat
      BY RulesFinite
    <3>4. num_non_matching_private_rules' \in Nat
      <4>1. num_non_matching_private_rules \in Nat
        BY <2>0
      <4>2. PICK n \in Nat : num_non_matching_private_rules' =
              num_non_matching_private_rules + n + (IF rule \in PrivateRules THEN 1 ELSE 0)
        BY <2>4, <3>3 DEF GlobalNoMatch
      <4> QED
        BY <4>1, <4>2
    <3> QED
      BY <1>7, <2>0, <2>4, <3>2, <3>4, GlobalNoMatchRules, CountGlobalNoMatch
  <2> QED
    BY <2>1, <2>2, <2>3, <2>4 DEF EvalStep
<1>9. BlockTyped'
  BY <1>2, <1>4, <1>8 DEF BlockInv, BlockTyped
<1>10. BlockControl'
  BY <1>1, <1>2, <1>3, <1>4 DEF BlockControl, InScan, searching
<1>11. BlockRules'
  BY <1>3, <1>8 DEF BlockRules
<1>12. BlockPatterns'
  BY <1>1, <1>2, <1>3, <1>5 DEF BlockInv, BlockPatterns, InScan
<1> QED
  BY <1>1, <1>2, <1>6, <1>8, <1>9, <1>10, <1>11, <1>12 DEF BlockInv, SharedInv

\* The end of finish: matching_rules is empty, so the assertion holds.
LEMMA BlockInvReturns ==
  ASSUME BlockInv, NEW trapped \in BOOLEAN, FinishReturns(trapped)
  PROVE  BlockInv'
<1>1. mode = "blocks" /\ pc \in {"enter", "eval"} /\ SharedInv
  BY DEF FinishReturns, EvalStops, BlockInv
<1>2. Reported = {} /\ needs_reset /\ (searched => pattern_search_done)
  BY <1>1 DEF SharedInv, RulesInv, scanning, BlockInv, BlockControl
<1>3. /\ MoveMatchingRules /\ pc' = "ready" /\ result' \in {"Timeout", "Ok"}
      /\ scan_state' \in {scan_state, "Finished"}
      /\ UNCHANGED <<rule, taken, caller, settingVars, matchVars, pattern_search_done, blockVars>>
  BY <1>2 DEF FinishReturns
<1>4. UNCHANGED <<mode, needs_reset, searched, found, interrupted, input>>
  BY <1>3 DEF blockVars, settingVars
<1>5. num_non_matching_private_rules' = num_non_matching_private_rules
  BY <1>3 DEF MoveMatchingRules
<1>6. RulesInv'
  BY <1>1, <1>2, <1>3, MoveMatchingRulesRules DEF SharedInv
<1>7. CountInv'
  BY <1>1, <1>2, <1>3, CountMoves DEF SharedInv
<1>8. PatternsInv'
  BY <1>1, <1>3, <1>4, PatternsUnchanged DEF SharedInv
<1>9. BlockTyped'
  BY <1>3, <1>4, <1>5 DEF BlockInv, BlockTyped
<1>10. ~InScan'
  BY <1>2, <1>3, <1>4 DEF InScan
<1>11. BlockControl'
  BY <1>2, <1>3, <1>4, <1>10 DEF BlockControl
<1> QED
  BY <1>1, <1>4, <1>6, <1>7, <1>8, <1>9, <1>10, <1>11 DEF BlockInv, SharedInv, BlockRules, BlockPatterns

\* The heartbeat thread, and steps that change nothing.
LEMMA BlockInvIdle ==
  ASSUME BlockInv, BlockTick \/ UNCHANGED allVars
  PROVE  BlockInv'
<1>1. UNCHANGED <<controlVars, scan_state, settingVars, matchVars, ruleVars, pattern_search_done,
                  result, moduleVars, given, blockVars>>
  BY DEF BlockTick, TickEpoch, TickCounter, allVars, vars, ctxVars
<1>2. UNCHANGED <<pc, rule, atom, taken, caller, input, mode, needs_reset, searched, found, interrupted>>
  BY <1>1 DEF controlVars, settingVars, blockVars
<1>3. UNCHANGED <<matching_rules_per_ns, ns_order, matching_rules, rule_bits,
                  num_matching_private_rules, num_non_matching_private_rules,
                  occupied, matches, pattern_bits, disabled_patterns>>
  BY <1>1 DEF matchVars, ruleVars
<1>4. RulesInv' /\ CountInv' /\ PatternsInv'
  BY <1>1, <1>2, RulesUnchanged, CountUnchanged, PatternsUnchanged DEF BlockInv, SharedInv, ruleVars
<1>5. Reported' = Reported
  BY <1>3 DEF Reported
<1>6. BlockTyped' /\ BlockControl' /\ BlockRules' /\ BlockPatterns'
  <2>1. BlockTyped'
    BY <1>1, <1>2, <1>3 DEF BlockInv, BlockTyped
  <2>2. BlockControl'
    BY <1>1, <1>2 DEF BlockInv, BlockControl, InScan
  <2>3. BlockRules'
    BY <1>2, <1>3, <1>5 DEF BlockInv, BlockRules, InScan
  <2>4. BlockPatterns'
    BY <1>2, <1>3 DEF BlockInv, BlockPatterns, InScan
  <2> QED
    BY <2>1, <2>2, <2>3, <2>4
<1>7. CASE mode = "blocks"
  BY <1>2, <1>4, <1>6, <1>7 DEF BlockInv, SharedInv
<1>8. CASE mode = "whole"
  <2>1. UNCHANGED vars
    BY <1>8 DEF BlockTick, allVars
  <2>2. IInv /\ CountInv /\ TypeInv
    BY <1>8 DEF BlockInv, SharedInv, IInv
  <2>3. IInv' /\ CountInv' /\ TypeInv'
    BY <2>1, <2>2, IInvNext, CountInvNext, TypeInvNext
  <2> QED
    BY <1>2, <1>6, <1>8, <2>3 DEF BlockInv, SharedInv, IInv
<1> QED
  BY <1>7, <1>8 DEF BlockInv, BlockTyped

LEMMA BlockInvNext == BlockInv /\ [BlockNext]_allVars => BlockInv'
BY BlockInvWhole, BlockInvCalls, BlockInvReset, BlockInvMoves, BlockInvSearch, BlockInvEval,
   BlockInvReturns, BlockInvIdle DEF BlockNext

-----------------------------------------------------------------------------

\* For any rules and blocks: the bits and matches of patterns are those of the
\* blocks of this scan, whatever a Scanner left in the context or an earlier
\* scan that was never finished; and every variable keeps its type.
THEOREM BlockPatternsAlwaysCurrent == BlockSpec => []BlockPatternsAreCurrent
<1>1. BlockInv => BlockPatternsAreCurrent
  <2> SUFFICES ASSUME BlockInv PROVE BlockPatternsAreCurrent
    OBVIOUS
  <2>1. num_matching_private_rules \in Nat
    BY RulesFinite DEF BlockInv, SharedInv, CountInv, PrivateCountIsExact
  <2>2. pc \in {"ready", "deadline", "modules", "enter", "eval", "search", "panicked",
                "block_deadline", "search_block", "begin_search", "block", "finish_deadline"}
    BY DEF BlockInv, BlockTyped, BlockControl, ControlInv, scanning
  <2>3. BlockTypeOK
    BY <2>1, <2>2 DEF BlockInv, BlockTyped, BlockTypeOK
  <2>4. mode = "blocks" /\ pc # "ready" =>
          pattern_bits \subseteq found /\ \A p \in Patterns : matches[p] > 0 => p \in found
    BY DEF BlockInv, BlockPatterns, InScan
  <2> QED
    BY <2>3, <2>4 DEF BlockPatternsAreCurrent
<1> QED
  BY <1>1, BlockInvInit, BlockInvNext, PTL DEF BlockSpec

\* Neither panic is reached once a block has been scanned: the search counts
\* as done from then on, and matching_rules is empty when finish asserts it.
THEOREM PanicsAreOnlyWithoutBlocks == BlockSpec => []PanicsOnlyWithoutBlocks
<1>1. BlockInv => PanicsOnlyWithoutBlocks
  BY DEF BlockInv, BlockControl, PanicsOnlyWithoutBlocks
<1> QED
  BY <1>1, BlockInvInit, BlockInvNext, PTL DEF BlockSpec

-----------------------------------------------------------------------------
(* What the search of the blocks finds                                     *)

\* The atom matches still to come.
Rest(k) == {input.atoms[i] : i \in {j \in 1..Len(input.atoms) : j >= k}}

\* A pattern is disabled only once it has its bit.  Unless a search timed out,
\* the bits and what is still to come are all that the blocks contain.
BlockSearch ==
  mode = "blocks" /\ InScan =>
    /\ disabled_patterns \subseteq pattern_bits
    /\ pc \in {"block_deadline", "search_block", "begin_search", "search"} => input \in Blocks
    /\ ~interrupted =>
         /\ pc \notin searching => scan_state # "Timeout"
         /\ pc = "begin_search" => found = pattern_bits \cup ToSet(input.atoms) \cup input.anchored
         /\ pc = "search" => found = pattern_bits \cup Rest(atom)
         /\ pc \notin {"begin_search", "search"} => found = pattern_bits

LEMMA BlockSearchSearches ==
  ASSUME OnlyPatternsDecide, BlockInv, BlockSearch, BlockSearchStep
  PROVE  BlockSearch'
<1>1. /\ mode = "blocks" /\ pc \in {"begin_search", "search"} /\ input' = input
      /\ UNCHANGED <<found, needs_reset>> /\ interrupted' = (interrupted \/ scan_state' = "Timeout")
  BY DEF BlockSearchStep, SearchBegins, SearchAtom, SearchEnds, SearchTimesOut, settingVars
<1>2. /\ disabled_patterns \subseteq pattern_bits /\ input \in Blocks
      /\ pc = "begin_search" /\ ~interrupted =>
           found = pattern_bits \cup ToSet(input.atoms) \cup input.anchored
      /\ pc = "search" /\ ~interrupted => found = pattern_bits \cup Rest(atom)
  BY <1>1 DEF BlockSearch, InScan
<1>3. /\ pc = "begin_search" => scan_state = "ScanningBlock"
      /\ pc = "search" =>
           scan_state = "Idle" /\ taken = "ScanningBlock" /\ caller = "block" /\ atom \in Nat \ {0}
  BY <1>1 DEF BlockInv, BlockControl
<1>4. input.atoms \in Seq(Patterns) /\ input.header_out = {}
  <2>1. input \in Inputs
    BY DEF BlockInv, SharedInv, PatternsInv
  <2> QED
    BY <1>2, <2>1 DEF Inputs, OnlyPatternsDecide
<1>5. Len(input.atoms) \in Nat /\ DOMAIN input.atoms = 1..Len(input.atoms)
  BY <1>4
<1>6. CASE pc = "begin_search" /\ SearchBegins("block")
  <2>1. pc' = "search" /\ atom' = 1 /\ scan_state' = "Idle"
    BY <1>6 DEF SearchBegins
  <2>2. disabled_patterns
           \cup (IF scan_state = "ScanningData" THEN input.size_out ELSE {})
           \cup (IF input.base = 0 THEN input.header_out ELSE {}) = disabled_patterns
    BY <1>3, <1>4, <1>6
  <2>3. TrackMatch(input.anchored \ disabled_patterns, disabled_patterns)
    BY <1>6, <2>2, Zenon DEF SearchBegins
  <2>4. pattern_bits' = pattern_bits \cup input.anchored
    BY <1>2, <2>3 DEF TrackMatch
  <2>5. disabled_patterns' \subseteq pattern_bits'
    BY <1>2, <2>3 DEF TrackMatch
  <2>6. Rest(1) = ToSet(input.atoms)
    BY <1>5 DEF Rest, ToSet
  <2>7. Rest(atom)' = Rest(1)
    BY <1>1, <2>1 DEF Rest
  <2>8. ~interrupted' => found' = pattern_bits' \cup Rest(atom)'
    BY <1>1, <1>2, <1>6, <2>4, <2>6, <2>7
  <2> QED
    BY <1>1, <1>2, <2>1, <2>5, <2>8 DEF BlockSearch, searching
<1>7. CASE SearchAtom
  <2> DEFINE p == input.atoms[atom]
  <2>1. /\ pc = "search" /\ pc' = "search" /\ atom' = atom + 1 /\ atom <= Len(input.atoms)
        /\ scan_state' = scan_state
    BY <1>7 DEF SearchAtom
  <2>2. Rest(atom) = Rest(atom + 1) \cup {p}
    <3>1. {j \in 1..Len(input.atoms) : j >= atom} = {j \in 1..Len(input.atoms) : j >= atom + 1} \cup {atom}
      <4>1. atom \in Nat \ {0} /\ Len(input.atoms) \in Nat
        BY <1>3, <1>5, <2>1
      <4> QED
        BY <2>1, <4>1
    <3> QED
      BY <3>1 DEF Rest
  <2>3. Rest(atom)' = Rest(atom + 1)
    BY <1>1, <2>1 DEF Rest
  <2>4. /\ disabled_patterns' \subseteq pattern_bits' /\ pattern_bits' = pattern_bits \cup {p}
    <3> HIDE DEF p
    <3>1. CASE p \in disabled_patterns
      <4>1. pattern_bits' = pattern_bits /\ disabled_patterns' = disabled_patterns
        BY <1>7, <3>1 DEF SearchAtom, matchVars, p
      <4> QED
        BY <1>2, <3>1, <4>1
    <3>2. CASE p \notin disabled_patterns
      <4>1. TrackMatch({p}, disabled_patterns)
        BY <1>7, <3>2 DEF SearchAtom, p
      <4> QED
        BY <1>2, <4>1 DEF TrackMatch
    <3> QED
      BY <3>1, <3>2
  <2>5. ~interrupted' => found' = pattern_bits' \cup Rest(atom)'
    BY <1>1, <1>2, <2>1, <2>2, <2>3, <2>4
  <2> QED
    BY <1>1, <1>2, <2>1, <2>4, <2>5 DEF BlockSearch, searching
<1>8. CASE SearchEnds
  <2>1. /\ pc = "search" /\ pc' = "block" /\ atom > Len(input.atoms)
        /\ UNCHANGED <<pattern_bits, disabled_patterns>>
    BY <1>3, <1>8 DEF SearchEnds, matchVars
  <2>2. Rest(atom) = {}
    <3>1. atom \in Nat /\ Len(input.atoms) \in Nat
      BY <1>3, <1>5, <2>1
    <3> QED
      BY <2>1, <3>1 DEF Rest
  <2>3. ~interrupted' => found' = pattern_bits'
    BY <1>1, <1>2, <2>1, <2>2
  <2> QED
    BY <1>2, <2>1, <2>3 DEF BlockSearch, searching
<1>9. CASE SearchTimesOut
  <2>1. /\ pc' = "ready" /\ interrupted' /\ UNCHANGED <<pattern_bits, disabled_patterns>>
    BY <1>1, <1>3, <1>9 DEF SearchTimesOut, matchVars
  <2> QED
    BY <1>2, <2>1 DEF BlockSearch
<1> QED
  BY <1>6, <1>7, <1>8, <1>9 DEF BlockSearchStep

LEMMA BlockSearchNext ==
  ASSUME OnlyPatternsDecide, BlockInv, BlockSearch, [BlockNext]_allVars
  PROVE  BlockSearch'
<1>1. CASE WholeStep
  <2>1. mode' = "whole"
    BY <1>1 DEF WholeStep, blockVars
  <2> QED
    BY <2>1 DEF BlockSearch
<1>2. CASE FromScanner \/ \E trapped \in BOOLEAN : FinishReturns(trapped)
  <2>1. CASE FromScanner
    <3>1. ~InScan'
      BY <2>1 DEF FromScanner, controlVars, InScan
    <3> QED
      BY <3>1 DEF BlockSearch
  <2>2. CASE \E trapped \in BOOLEAN : FinishReturns(trapped)
    <3>1. mode = "blocks" /\ pc \in {"enter", "eval"} /\ UNCHANGED blockVars
      BY <2>2 DEF FinishReturns, EvalStops
    <3>2. Reported = {} /\ needs_reset
      BY <3>1 DEF BlockInv, BlockRules, BlockControl, InScan
    <3>3. pc' = "ready" /\ needs_reset'
      BY <2>2, <3>1, <3>2 DEF FinishReturns, blockVars
    <3> QED
      BY <3>3 DEF BlockSearch, InScan
  <2> QED
    BY <1>2, <2>1, <2>2
<1>3. CASE (\E b \in Blocks : ScanFirstBlock(b)) \/ FinishEmpty
  <2>1. PICK next \in {"block_deadline", "finish_deadline"} :
          /\ Reset(next) /\ pc' = next /\ found' = {} /\ interrupted' = FALSE /\ rule' = rule
          /\ next = "block_deadline" => input' \in Blocks
          /\ input' \in Inputs
    <3>1. CASE FinishEmpty
      <4>1. input' = input /\ input \in Inputs
        BY <3>1 DEF FinishEmpty, settingVars, BlockInv, SharedInv, PatternsInv
      <4> QED
        BY <3>1, <4>1 DEF FinishEmpty, Reset
    <3>2. CASE \E b \in Blocks : ScanFirstBlock(b)
      <4>1. PICK b \in Blocks : ScanFirstBlock(b)
        BY <3>2
      <4>2. input' = b /\ b \in Inputs
        BY <4>1, BlockScannerAssumption DEF ScanFirstBlock
      <4> QED
        BY <4>1, <4>2 DEF ScanFirstBlock, Reset
    <3> QED
      BY <1>3, <3>1, <3>2
  <2>2. pattern_bits' = {} /\ disabled_patterns' = {}
    BY <2>1, SharedReset DEF BlockInv
  <2>3. scan_state' = "Idle"
    BY <2>1 DEF Reset
  <2> QED
    BY <2>1, <2>2, <2>3 DEF BlockSearch
<1>4. CASE \/ (\E t \in Timeouts : BlockSetTimeout(t)) \/ BlockDeadline
           \/ (\E b \in Blocks : ScanNextBlock(b)) \/ BlockReturns \/ Finish \/ FinishDeadline
  <2>1. CASE mode = "whole"
    <3>1. pc \in {"ready"} \cup scanning
      BY <2>1 DEF BlockInv, ControlInv
    <3> QED
      BY <1>4, <2>1, <3>1 DEF BlockSetTimeout, BlockDeadline, ScanNextBlock, BlockReturns, Finish,
         FinishDeadline, scanning
  <2>2. CASE mode = "blocks"
    <3>1. /\ UNCHANGED <<matchVars, found, interrupted>>
          /\ pc \notin {"begin_search", "search"} /\ pc' \notin {"begin_search", "search", "block"}
          /\ scan_state' = scan_state \/ scan_state' = "Idle"
          /\ pc = "block" => scan_state' = "Idle"
      BY <1>4 DEF BlockSetTimeout, SetTimeout, BlockDeadline, ScanNextBlock, BlockReturns, Finish,
         FinishDeadline, blockVars, historyVars, controlVars
    <3>2. UNCHANGED <<pattern_bits, disabled_patterns>>
      BY <3>1 DEF matchVars
    <3>3. InScan' => InScan
      BY <1>4 DEF BlockSetTimeout, SetTimeout, BlockDeadline, ScanNextBlock, BlockReturns, Finish,
         FinishDeadline, blockVars, controlVars, InScan
    <3>4. pc' \in {"block_deadline", "search_block"} => input' \in Blocks
      <4>1. CASE BlockDeadline
        <5>1. input' = input /\ pc = "block_deadline"
          BY <4>1 DEF BlockDeadline, settingVars
        <5> QED
          BY <2>2, <5>1 DEF BlockSearch, InScan
      <4>2. CASE \E b \in Blocks : ScanNextBlock(b)
        BY <4>2 DEF ScanNextBlock
      <4>3. CASE (\E t \in Timeouts : BlockSetTimeout(t)) \/ BlockReturns \/ Finish \/ FinishDeadline
        BY <4>3 DEF BlockSetTimeout, SetTimeout, BlockReturns, Finish, FinishDeadline, controlVars
      <4> QED
        BY <1>4, <4>1, <4>2, <4>3
    <3>5. CASE InScan
      BY <2>2, <3>1, <3>2, <3>4, <3>5 DEF BlockSearch, searching
    <3> QED
      BY <3>3, <3>5 DEF BlockSearch
  <2> QED
    BY <2>1, <2>2 DEF BlockInv, BlockTyped
<1>5. CASE SearchBlock
  <2>1. /\ pc = "search_block" /\ pc' = "begin_search" /\ input' = input /\ UNCHANGED matchVars
        /\ found' = found \cup ToSet(input.atoms) \cup input.anchored
        /\ UNCHANGED <<interrupted, mode>>
    BY <1>5 DEF SearchBlock, settingVars
  <2>2. UNCHANGED <<pattern_bits, disabled_patterns>>
    BY <2>1 DEF matchVars
  <2> QED
    BY <2>1, <2>2 DEF BlockSearch, InScan, searching
<1>6. CASE BlockSearchStep
  BY <1>6, BlockSearchSearches
<1>7. CASE EvalStep
  <2>1. /\ mode = "blocks" /\ pc \in {"enter", "eval"} /\ pc' \in {"enter", "eval", "panicked"}
        /\ UNCHANGED <<scan_state, pattern_bits, disabled_patterns, found, interrupted>>
    BY <1>7, EvalStepFrame
  <2> QED
    BY <2>1 DEF BlockSearch, InScan, searching
<1>8. CASE BlockTick \/ UNCHANGED allVars
  <2>1. UNCHANGED <<controlVars, scan_state, settingVars, matchVars, blockVars>>
    BY <1>8 DEF BlockTick, TickEpoch, TickCounter, allVars, vars, ctxVars
  <2>2. UNCHANGED <<pc, atom, input, scan_state, pattern_bits, disabled_patterns, mode, needs_reset,
                    found, interrupted>>
    BY <2>1 DEF controlVars, settingVars, blockVars, matchVars
  <2>3. Rest(atom)' = Rest(atom)
    BY <2>2 DEF Rest
  <2> QED
    BY <2>2, <2>3 DEF BlockSearch, InScan
<1> QED
  BY <1>1, <1>2, <1>3, <1>4, <1>5, <1>6, <1>7, <1>8 DEF BlockNext

-----------------------------------------------------------------------------
(* What the rules say of the blocks                                        *)

LEMMA RawBlocksIs ==
  \A r \in Rules :
    RawBlocks[r] = IF Condition[r].kind = "rule" THEN \A q \in Condition[r].arg : RawBlocks[q]
                   ELSE OnBlocks[r]
<1> DEFINE Body(f, r) ==
      IF Condition[r].kind = "rule" THEN \A q \in Condition[r].arg : f[q] ELSE OnBlocks[r]
<1>1. RawBlocks = CHOOSE f : f = [r \in Rules |-> Body(f, r)]
  BY Zenon DEF RawBlocks
<1>2. ASSUME NEW f, NEW r \in Rules PROVE Body(f, r) = Refers(OnBlocks, f, r)
  BY DEF Refers
<1> HIDE DEF Body
<1>3. PICK B : B = [r \in Rules |-> Refers(OnBlocks, B, r)]
  BY TruthExists
<1>4. B = [r \in Rules |-> Body(B, r)]
  BY <1>2, <1>3
<1>5. RawBlocks = [r \in Rules |-> Body(RawBlocks, r)]
  BY <1>1, <1>4, Zenon
<1> QED
  BY <1>5 DEF Body

TrueOfBlocks == {r \in Rules : RawBlocks[r]}

LEMMA RawBlocksUnchanged ==
  ASSUME found' = found
  PROVE  RawBlocks' = RawBlocks /\ TrueOfBlocks' = TrueOfBlocks /\ BlocksExpected' = BlocksExpected
<1>1. OnBlocks' = OnBlocks
  BY DEF OnBlocks
<1>2. RawBlocks' = RawBlocks
  BY <1>1, Zenon DEF RawBlocks
<1> QED
  BY <1>2 DEF TrueOfBlocks, BlocksExpected

\* The condition of a rule is evaluated to what it says of the blocks.
LEMMA HoldsOfBlocks ==
  ASSUME OnlyPatternsDecide, Evaluable, Evaluated(TrueOfBlocks), pattern_bits = found
  PROVE  Holds(rule) <=> rule \in TrueOfBlocks
<1> DEFINE c == Condition[rule]
<1>1. rule \in Rules /\ pc = "eval" /\ c.kind # "loop" /\ c.kind \notin {"module", "filesize"}
  BY DEF Evaluable, OnlyPatternsDecide
<1>2. rule \in TrueOfBlocks <=> RawBlocks[rule]
  BY <1>1 DEF TrueOfBlocks
<1>3. CASE c.kind = "rule"
  <2>1. rule_bits = Matching(TrueOfBlocks, rule) /\ Alive(TrueOfBlocks, NamespaceOf[rule], rule)
    BY <1>1 DEF Evaluated
  <2>2. c.arg \subseteq {q \in Rules : q < rule /\ NamespaceOf[q] = NamespaceOf[rule]}
    BY <1>1, <1>3, ConditionAssumption
  <2>3. \A q \in c.arg : q \in rule_bits <=> q \in TrueOfBlocks
    BY <2>1, <2>2 DEF Matching
  <2>4. RawBlocks[rule] <=> \A q \in c.arg : RawBlocks[q]
    BY <1>1, <1>3, RawBlocksIs
  <2>5. \A q \in c.arg : q \in TrueOfBlocks <=> RawBlocks[q]
    BY <2>2 DEF TrueOfBlocks
  <2>6. Holds(rule) <=> c.arg \subseteq rule_bits
    BY <1>3 DEF Holds
  <2> QED
    BY <1>2, <2>3, <2>4, <2>5, <2>6
<1>4. CASE c.kind # "rule"
  <2>1. RawBlocks[rule] = OnBlocks[rule]
    BY <1>1, <1>4, RawBlocksIs
  <2>2. c.kind = "true" \/ c.kind = "false" \/ c.kind = "any" \/ c.kind = "none"
    BY <1>1, <1>4, ConditionAssumption
  <2>3. Holds(rule) <=> OnBlocks[rule]
    <3>1. CASE c.kind = "true"
      BY <1>1, <3>1 DEF Holds, OnBlocks
    <3>2. CASE c.kind = "false"
      BY <1>1, <3>2 DEF Holds, OnBlocks
    <3>3. CASE c.kind = "any"
      BY <1>1, <3>3 DEF Holds, OnBlocks
    <3>4. CASE c.kind = "none"
      BY <1>1, <3>4 DEF Holds, OnBlocks
    <3> QED
      BY <2>2, <3>1, <3>2, <3>3, <3>4
  <2> QED
    BY <1>2, <2>1, <2>3
<1> QED
  BY <1>3, <1>4

-----------------------------------------------------------------------------
(* The results of finish                                                   *)

BlockEval ==
  mode = "blocks" /\ pc \in {"enter", "eval"} =>
    /\ AtNamespace
    /\ ~interrupted => Evaluated(TrueOfBlocks)

\* Results are exact, and read only until the next call.
BlockExact ==
  /\ BlockResultIsExact
  /\ mode = "blocks" /\ result = "Ok" => pc = "ready" /\ needs_reset

\* Evaluation begins with the first rule and none tracked.
LEMMA BlockEvalBegins ==
  ASSUME BlockInv, Finish \/ FinishDeadline, mode = "blocks"
  PROVE  BlockEval'
<1>1. /\ InScan /\ pc \notin {"enter", "eval", "panicked"} /\ pc' = "enter" /\ rule' = 1
      /\ UNCHANGED ruleVars
  BY DEF Finish, FinishDeadline, InScan
<1>2. rule_bits = {} /\ rule_bits' = {}
  BY <1>1 DEF BlockInv, BlockRules, ruleVars
<1>3. NumRules \in Nat
  BY ScanContextAssumption
<1>4. \A T : Matching(T, 1) = {}
  BY <1>3 DEF Matching, Rules
<1>5. AtNamespace'
  BY <1>1, <1>3 DEF AtNamespace, Rules
<1>6. Evaluated(TrueOfBlocks)'
  BY <1>1, <1>2, <1>4 DEF Evaluated
<1> QED
  BY <1>5, <1>6 DEF BlockEval

LEMMA BlockEvalConditions ==
  ASSUME OnlyPatternsDecide, BlockInv, BlockSearch, BlockEval, EvalStep
  PROVE  BlockEval'
<1>1. /\ mode = "blocks" /\ pc \in {"enter", "eval"} /\ UNCHANGED <<found, interrupted>>
      /\ pc' \in {"enter", "eval", "panicked"} /\ RulesInv
      /\ scan_state \in {"Idle", "Timeout"}
  BY EvalStepFrame DEF SharedInv
<1>2. AtNamespace /\ (~interrupted => Evaluated(TrueOfBlocks) /\ found = pattern_bits)
  BY <1>1 DEF BlockEval, BlockSearch, InScan
<1>3. TrueOfBlocks' = TrueOfBlocks
  BY <1>1, RawBlocksUnchanged
<1>4. Reported = {}
  BY <1>1 DEF RulesInv, scanning
<1>5. CASE EvalSearches
  <2>1. pc' = "panicked"
    BY <1>1, <1>5 DEF EvalSearches, SearchBegins, SearchPanics
  <2> QED
    BY <2>1 DEF BlockEval
<1>6. CASE EnterNamespace
  <2>1. AtNamespace'
    BY <1>2, <1>6, AtNamespaceNext
  <2>2. UNCHANGED <<rule, rule_bits>>
    BY <1>6 DEF EnterNamespace, ruleVars
  <2>3. Alive(TrueOfBlocks, NamespaceOf[rule], rule)
    BY <1>2, <1>6, EnterAlive
  <2>4. ~interrupted => Evaluated(TrueOfBlocks)'
    BY <1>2, <1>3, <2>2, <2>3 DEF Evaluated
  <2> QED
    BY <1>1, <2>1, <2>4 DEF BlockEval
<1>7. CASE RuleMatch \/ RuleNoMatch \/ GlobalNoMatch
  <2>1. AtNamespace'
    BY <1>2, <1>7, AtNamespaceNext
  <2>2. Evaluable
    BY <1>7 DEF RuleMatch, RuleNoMatch, GlobalNoMatch
  <2>3. ASSUME ~interrupted PROVE Evaluated(TrueOfBlocks)'
    <3>1. Evaluated(TrueOfBlocks) /\ found = pattern_bits
      BY <1>2, <2>3
    <3>2. Holds(rule) <=> rule \in TrueOfBlocks
      BY <2>2, <3>1, HoldsOfBlocks
    <3>3. /\ rule_bits' = Matching(TrueOfBlocks, rule')
          /\ pc' \in {"eval", "search"} => Alive(TrueOfBlocks, NamespaceOf[rule'], rule')
      BY <1>1, <1>4, <1>7, <3>1, <3>2, EvaluatedNext
    <3> QED
      BY <1>3, <3>3 DEF Evaluated
  <2> QED
    BY <1>1, <2>1, <2>3 DEF BlockEval
<1> QED
  BY <1>5, <1>6, <1>7 DEF EvalStep

LEMMA BlockEvalNext ==
  ASSUME OnlyPatternsDecide, BlockInv, BlockSearch, BlockEval, [BlockNext]_allVars
  PROVE  BlockEval'
<1>1. CASE WholeStep
  <2>1. mode' = "whole"
    BY <1>1 DEF WholeStep, blockVars
  <2> QED
    BY <2>1 DEF BlockEval
<1>2. CASE \/ FromScanner \/ (\E t \in Timeouts : BlockSetTimeout(t))
           \/ (\E b \in Blocks : ScanFirstBlock(b) \/ ScanNextBlock(b))
           \/ FinishEmpty \/ BlockDeadline \/ SearchBlock \/ BlockReturns
           \/ \E trapped \in BOOLEAN : FinishReturns(trapped)
  <2>1. pc' \notin {"enter", "eval"}
    <3>1. CASE \E trapped \in BOOLEAN : FinishReturns(trapped)
      BY <3>1 DEF FinishReturns
    <3>2. CASE FromScanner \/ (\E t \in Timeouts : BlockSetTimeout(t))
      BY <3>2 DEF FromScanner, BlockSetTimeout, SetTimeout, controlVars
    <3>3. CASE (\E b \in Blocks : ScanFirstBlock(b) \/ ScanNextBlock(b)) \/ FinishEmpty
      BY <3>3 DEF ScanFirstBlock, ScanNextBlock, FinishEmpty, Reset
    <3>4. CASE BlockDeadline \/ SearchBlock \/ BlockReturns
      BY <3>4 DEF BlockDeadline, SearchBlock, BlockReturns
    <3> QED
      BY <1>2, <3>1, <3>2, <3>3, <3>4
  <2> QED
    BY <2>1 DEF BlockEval
<1>3. CASE BlockSearchStep
  <2>1. pc = "search" => caller = "block"
    BY <1>3 DEF BlockSearchStep, BlockInv, BlockControl
  <2>2. pc' \notin {"enter", "eval"}
    BY <1>3, <2>1 DEF BlockSearchStep, SearchBegins, SearchAtom, SearchEnds, SearchTimesOut
  <2> QED
    BY <2>2 DEF BlockEval
<1>4. CASE Finish \/ FinishDeadline
  <2>1. mode = "whole" => pc \in {"ready"} \cup scanning
    BY DEF BlockInv, ControlInv
  <2>2. mode = "blocks"
    BY <1>4, <2>1 DEF Finish, FinishDeadline, scanning, BlockInv, BlockTyped
  <2> QED
    BY <1>4, <2>2, BlockEvalBegins
<1>5. CASE EvalStep
  BY <1>5, BlockEvalConditions
<1>6. CASE BlockTick \/ UNCHANGED allVars
  <2>1. UNCHANGED <<controlVars, ruleVars, blockVars>>
    BY <1>6 DEF BlockTick, TickEpoch, TickCounter, allVars, vars, ctxVars
  <2>2. UNCHANGED <<pc, rule, rule_bits, mode, found, interrupted>>
    BY <2>1 DEF controlVars, ruleVars, blockVars
  <2>3. TrueOfBlocks' = TrueOfBlocks
    BY <2>2, RawBlocksUnchanged
  <2> QED
    BY <2>2, <2>3 DEF BlockEval, AtNamespace, Evaluated
<1> QED
  BY <1>1, <1>2, <1>3, <1>4, <1>5, <1>6 DEF BlockNext

\* finish returns: the rules moved to matching_rules are those whose bits are
\* set, and all of them have been evaluated.
LEMMA FinishExact ==
  ASSUME BlockInv, BlockSearch, BlockEval, NEW trapped \in BOOLEAN, FinishReturns(trapped)
  PROVE  BlockExact'
<1>1. mode = "blocks" /\ pc \in {"enter", "eval"} /\ RulesInv
  BY DEF FinishReturns, EvalStops, BlockInv, SharedInv
<1>2. Reported = {} /\ needs_reset
  BY <1>1 DEF RulesInv, scanning, BlockInv, BlockControl
<1>3. /\ MoveMatchingRules /\ pc' = "ready" /\ UNCHANGED blockVars
      /\ result' = IF TimedOut(trapped) THEN "Timeout" ELSE "Ok"
  BY <1>2 DEF FinishReturns
<1>4. UNCHANGED <<mode, needs_reset, found, interrupted>>
  BY <1>3 DEF blockVars
<1>5. Reported' = Tracked
  <2>1. Reported' = AllRuns(matching_rules')
    BY DEF Reported, AllRuns
  <2> QED
    BY <1>1, <1>2, <1>3, <2>1, MovedRules DEF MoveMatchingRules
<1>6. Tracked = rule_bits
  BY <1>1, <1>2 DEF RulesInv, BitsAreTracked
<1>7. ASSUME result' = "Ok", ~interrupted PROVE Reported' = BlocksExpected'
  <2>1. ~trapped /\ pc = "enter" /\ rule \notin Rules
    BY <1>3, <1>7 DEF TimedOut, FinishReturns, EvalStops
  <2>2. rule_bits = Matching(TrueOfBlocks, rule)
    BY <1>1, <1>7 DEF BlockEval, Evaluated
  <2>3. rule = NumRules + 1
    <3>1. rule \in 1..(NumRules + 1) /\ NumRules \in Nat
      BY ScanContextAssumption DEF BlockInv, SharedInv, CountInv
    <3> QED
      BY <2>1, <3>1 DEF Rules
  <2>4. Matching(TrueOfBlocks, NumRules + 1) = BlocksExpected
    <3>1. GlobalRules \subseteq Rules
      BY ScanContextAssumption
    <3>2. Matching(TrueOfBlocks, NumRules + 1) =
            {r \in Rules : r \in TrueOfBlocks
                /\ \A g \in GlobalRules : NamespaceOf[g] = NamespaceOf[r] => g \in TrueOfBlocks}
      BY MatchingAll
    <3>3. \A r \in Rules : r \in TrueOfBlocks <=> RawBlocks[r]
      BY DEF TrueOfBlocks
    <3> QED
      BY <3>1, <3>2, <3>3 DEF BlocksExpected
  <2>5. BlocksExpected' = BlocksExpected
    BY <1>4, RawBlocksUnchanged
  <2> QED
    BY <1>5, <1>6, <2>2, <2>3, <2>4, <2>5
<1>8. BlockResultIsExact'
  BY <1>4, <1>7 DEF BlockResultIsExact
<1> QED
  BY <1>2, <1>3, <1>4, <1>8 DEF BlockExact

LEMMA BlockExactNext ==
  ASSUME BlockInv, BlockSearch, BlockEval, BlockExact, [BlockNext]_allVars
  PROVE  BlockExact'
<1>1. CASE WholeStep
  <2>1. mode' = "whole"
    BY <1>1 DEF WholeStep, blockVars
  <2> QED
    BY <2>1 DEF BlockExact, BlockResultIsExact
<1>2. CASE \/ FromScanner \/ (\E t \in Timeouts : BlockSetTimeout(t))
           \/ (\E b \in Blocks : ScanFirstBlock(b) \/ ScanNextBlock(b))
           \/ FinishEmpty \/ Finish \/ BlockReturns
  <2>1. result' \in {"None", "Scanned"}
    BY <1>2 DEF FromScanner, BlockSetTimeout, SetTimeout, ScanFirstBlock, ScanNextBlock, FinishEmpty,
       Finish, BlockReturns
  <2> QED
    BY <2>1 DEF BlockExact, BlockResultIsExact
<1>3. CASE BlockDeadline \/ SearchBlock \/ FinishDeadline \/ EvalStep
  <2>1. pc # "ready" /\ result' = result /\ mode' = mode
    <3>1. CASE EvalStep
      BY <3>1, EvalStepFrame
    <3>2. CASE BlockDeadline \/ SearchBlock \/ FinishDeadline
      BY <3>2 DEF BlockDeadline, SearchBlock, FinishDeadline, blockVars
    <3> QED
      BY <1>3, <3>1, <3>2
  <2> QED
    BY <2>1 DEF BlockExact, BlockResultIsExact
<1>4. CASE BlockSearchStep
  <2>1. pc # "ready" /\ result' \in {result, "Timeout"} /\ mode' = mode
    BY <1>4 DEF BlockSearchStep, SearchBegins, SearchAtom, SearchEnds, SearchTimesOut
  <2> QED
    BY <2>1 DEF BlockExact, BlockResultIsExact
<1>5. CASE \E trapped \in BOOLEAN : FinishReturns(trapped)
  BY <1>5, FinishExact
<1>6. CASE BlockTick \/ UNCHANGED allVars
  <2>1. UNCHANGED <<controlVars, ruleVars, blockVars, result>>
    BY <1>6 DEF BlockTick, TickEpoch, TickCounter, allVars, vars, ctxVars
  <2>2. UNCHANGED <<pc, matching_rules, mode, needs_reset, found, interrupted, result>>
    BY <2>1 DEF controlVars, ruleVars, blockVars
  <2>3. Reported' = Reported /\ BlocksExpected' = BlocksExpected
    BY <2>2, RawBlocksUnchanged DEF Reported
  <2> QED
    BY <2>2, <2>3 DEF BlockExact, BlockResultIsExact
<1> QED
  BY <1>1, <1>2, <1>3, <1>4, <1>5, <1>6 DEF BlockNext

\* finish reports exactly the rules that are true of the blocks scanned since
\* the last finish, for any rules about patterns, any blocks, and whatever a
\* Scanner or an earlier scan left in the context, unless a search timed out.
THEOREM BlockResultIsAlwaysExact ==
  ASSUME OnlyPatternsDecide
  PROVE  BlockSpec => []BlockResultIsExact
<1> DEFINE Inv == BlockInv /\ BlockSearch /\ BlockEval /\ BlockExact
<1>1. BlockInit => Inv
  <2> SUFFICES ASSUME BlockInit PROVE Inv
    OBVIOUS
  <2>1. mode = "whole" /\ BlockInv
    BY BlockInvInit DEF BlockInit
  <2> QED
    BY <2>1 DEF BlockSearch, BlockEval, BlockExact, BlockResultIsExact
<1>2. Inv /\ [BlockNext]_allVars => Inv'
  BY BlockInvNext, BlockSearchNext, BlockEvalNext, BlockExactNext
<1>3. Inv => BlockResultIsExact
  BY DEF BlockExact
<1> QED
  BY <1>1, <1>2, <1>3, PTL DEF BlockSpec

=============================================================================
