-------------------------- MODULE PatternCompiler --------------------------
(***************************************************************************)
(* How the compiler turns one pattern of a rule into sub-patterns: the     *)
(* functions c_literal_pattern, c_regexp_pattern, c_alternation_literal    *)
(* and c_chain of src/lib/src/compiler/mod.rs, as the sequence of calls to *)
(* c_regexp and add_sub_pattern that each of them makes.                   *)
(*                                                                         *)
(* A pattern is a record:                                                  *)
(*   text         TRUE for Pattern::Text, FALSE for Regexp and Hex;        *)
(*   mods         its modifiers;                                           *)
(*   pieces       what split_at_large_gaps makes of it: one piece for a    *)
(*                pattern that is not split, the chain's pieces otherwise; *)
(*   anchored_at, filesize_bounds, header_constraints                      *)
(*                options, as sets of at most one element.                 *)
(* A piece is "lit" (a literal), "alt" (an alternation of literals),       *)
(* "mask" (a literal with masked bytes) or a regular expression.           *)
(***************************************************************************)
EXTENDS Naturals, Sequences, FiniteSets, SequencesExt

Modifiers == {"wide", "ascii", "nocase", "xor", "base64", "base64wide", "fullword"}

CONSTANTS Regexps,          \* the pieces that are regular expressions
          FastRegexps,      \* the ones FastVM can run
          WastedRegexps,    \* the ones FastVM refuses after its code was emitted
          BadRegexps        \* the ones c_regexp refuses after compiling them

ASSUME RegexpsAssumption ==
  /\ FastRegexps \cup WastedRegexps \cup BadRegexps \subseteq Regexps
  /\ Regexps \cap {"lit", "alt", "mask"} = {}

\* Flags WideOnly and WideAndAscii of ir::PatternFlags.
IsWide(p) == "wide" \in p.mods
IsRaw(p) == "wide" \in p.mods => "ascii" \in p.mods

Repeat(n, s) == [i \in 1..n |-> s]
When(c, s) == IF c THEN s ELSE <<>>

\* A call of c_regexp, and a call of add_sub_pattern.
CallRegexp(piece) == << [call |-> "c_regexp", piece |-> piece] >>
CallAdd(kind, wide, anchored_at, left, right, last) ==
  << [call |-> "add_sub_pattern", kind |-> kind, wide |-> wide, anchored_at |-> anchored_at,
      left |-> left, right |-> right, last |-> last] >>

\* A call for a sub-pattern that is not a part of a chain.
CallWhole(p, kind, wide, anchored_at) ==
  CallAdd(kind, wide, anchored_at, "fullword" \in p.mods, "fullword" \in p.mods, FALSE)

CLiteralMain(p, wide) ==
  IF "xor" \in p.mods THEN CallWhole(p, "Xor", wide, {})
  ELSE IF "nocase" \in p.mods THEN CallWhole(p, "Literal", wide, {})
  ELSE IF {"base64", "base64wide"} \cap p.mods # {}
  THEN FlattenSeq(Repeat(3, When("base64" \in p.mods, CallWhole(p, "Base64", wide, {})))
                  \o Repeat(3, When("base64wide" \in p.mods,
                                    CallWhole(p, "Base64Wide", wide, {}))))
  ELSE CallWhole(p, "Literal", wide, p.anchored_at)

CLiteralPattern(p) ==
  When(IsWide(p), CLiteralMain(p, TRUE)) \o When(IsRaw(p), CLiteralMain(p, FALSE))

CAlternationLiteral(p) ==
  LET one == When(IsRaw(p), CallWhole(p, "Literal", FALSE, p.anchored_at))
             \o When(IsWide(p), CallWhole(p, "Literal", TRUE, p.anchored_at))
  IN IF p.pieces[1] = "alt" THEN one \o one ELSE one

\* The head of a chain: a literal head adds the raw sub-pattern first, a
\* regexp head the wide one.
CChainHead(p) ==
  LET head(kind, wide) == CallAdd(kind, wide, {}, "fullword" \in p.mods, FALSE, FALSE)
  IN IF p.pieces[1] = "lit"
     THEN When(IsRaw(p), head("LiteralChainHead", FALSE))
          \o When(IsWide(p), head("LiteralChainHead", TRUE))
     ELSE CallRegexp(p.pieces[1])
          \o When(IsWide(p), head("RegexpChainHead", TRUE))
          \o When(IsRaw(p), head("RegexpChainHead", FALSE))

CChainTailOffByOne(p, i) ==
  LET last == i = Len(p.pieces) - 1
      kind == IF p.pieces[i] = "lit" THEN "LiteralChainTail" ELSE "RegexpChainTail"
      tail(wide) == CallAdd(kind, wide, {}, FALSE, last /\ "fullword" \in p.mods, last)
  IN When(p.pieces[i] # "lit", CallRegexp(p.pieces[i]))
     \o When(IsWide(p), tail(TRUE)) \o When(IsRaw(p), tail(FALSE))

CChainTail(p, i) ==
  LET last == i = Len(p.pieces)
      kind == IF p.pieces[i] = "lit" THEN "LiteralChainTail" ELSE "RegexpChainTail"
      tail(wide) == CallAdd(kind, wide, {}, FALSE, last /\ "fullword" \in p.mods, last)
  IN When(p.pieces[i] # "lit", CallRegexp(p.pieces[i]))
     \o When(IsWide(p), tail(TRUE)) \o When(IsRaw(p), tail(FALSE))

CChain(p) ==
  CChainHead(p) \o FlattenSeq([i \in 1..(Len(p.pieces) - 1) |-> CChainTail(p, i + 1)])

CRegexpPattern(p) ==
  IF Len(p.pieces) > 1 THEN CChain(p)
  ELSE IF p.pieces[1] \in {"lit", "alt"} THEN CAlternationLiteral(p)
  ELSE IF p.pieces[1] = "mask" /\ p.mods \cap {"nocase", "wide"} = {}
  THEN CallWhole(p, "LiteralWithMask", FALSE, {})
  ELSE CallRegexp(p.pieces[1])
       \o When(IsWide(p), CallWhole(p, "Regexp", TRUE, {}))
       \o When(IsRaw(p), CallWhole(p, "Regexp", FALSE, {}))

\* The calls that compiling the pattern makes, in order.
Calls(p) == IF p.text THEN CLiteralPattern(p) ELSE CRegexpPattern(p)

\* What a call of c_regexp appends to re_code: FastVM's code, PikeVM's code,
\* or both when FastVM refuses the regexp with its code already emitted.
CodeOf(piece) ==
  IF piece \in FastRegexps THEN << <<"fast", piece>> >>
  ELSE When(piece \in WastedRegexps, << <<"wasted", piece>> >>) \o << <<"pike", piece>> >>

=============================================================================
