----------------------------- MODULE MCCompiler -----------------------------
(* Rules for Compiler: patterns of every kind, shared between rules, and     *)
(* rules that fail at every step of c_rule.                                  *)
EXTENDS Compiler

CONSTANTS a, b, c, x, pe, old, f

MCRegexps == {"fast", "wasted", "bad"}

Pattern(text, mods, pieces) ==
  [text |-> text, mods |-> mods, pieces |-> pieces, anchored_at |-> {},
   filesize_bounds |-> {}, header_constraints |-> {}]

Plain == Pattern(TRUE, {"base64"}, <<"lit">>)
Anchored == [Pattern(TRUE, {"wide", "ascii"}, <<"lit">>) EXCEPT !.anchored_at = {0}]
Chain == Pattern(FALSE, {"wide", "ascii", "fullword"}, <<"lit", "fast", "lit">>)
Alternation == Pattern(FALSE, {"nocase", "wide"}, <<"alt">>)
Masked == Pattern(FALSE, {}, <<"mask">>)
Wasted == Pattern(FALSE, {"wide", "ascii"}, <<"wasted">>)
Broken == Pattern(FALSE, {}, <<"fast", "bad">>)

Use(p) == [pattern |-> p, in_use |-> TRUE, fast_scan_allowed |-> TRUE]
Count(p) == [Use(p) EXCEPT !.fast_scan_allowed = FALSE]
Unused(p) == [Use(p) EXCEPT !.in_use = FALSE]

Condition(loop, refs) == [loop |-> loop, refs |-> refs, bad |-> FALSE]

Rule(ident, uses, condition) ==
  [ident |-> ident, duplicate_tags |-> FALSE, linter_errors |-> 0, bad_pattern |-> FALSE,
   slow_pattern |-> FALSE, patterns |-> uses, filesize_bounds |-> {}, header_constraints |-> {},
   condition |-> condition]
True == Condition({}, <<>>)

MCDecls ==
  {[Rule(a, <<Use(Anchored), Use(Chain), Use(Anchored)>>, True) EXCEPT !.filesize_bounds = {9}],
   [Rule(b, <<Use(Wasted), Use(Alternation)>>, True) EXCEPT !.filesize_bounds = {9}],
   [Rule(b, <<Count(Masked), Use(Anchored), Use(Broken)>>, True) EXCEPT !.filesize_bounds = {9}],
   [Rule(c, <<Use(Plain), Count(Masked)>>, Condition({x}, <<a, x>>))
      EXCEPT !.header_constraints = {5}],
   Rule(c, <<Count(Wasted), Unused(Plain)>>, True),
   Rule(a, <<>>, Condition({x}, <<old>>)),
   Rule(x, <<Use(Wasted)>>, Condition({}, <<pe>>)),
   Rule(c, <<Count(Wasted)>>, Condition({}, <<x>>)),
   [Rule(a, <<>>, Condition({x}, <<>>)) EXCEPT !.condition.bad = TRUE,
                                              !.slow_pattern = TRUE],
   [Rule(x, <<Use(Plain)>>, True) EXCEPT !.bad_pattern = TRUE],
   [Rule(x, <<>>, True) EXCEPT !.duplicate_tags = TRUE],
   [Rule(b, <<Use(Chain)>>, True) EXCEPT !.linter_errors = 2]}

=============================================================================
