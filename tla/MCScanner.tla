------------------------------ MODULE MCScanner ------------------------------
(* Small sets of rules and data for Scanner.  Two namespaces: the first has *)
(* a private rule that matches when a pattern is missing, a global rule     *)
(* after it and a rule that refers to the first one; the second a rule on a *)
(* module and a private rule on patterns.                                   *)
EXTENDS Scanner

CONSTANTS p1, p2, m1, m2

MCTimeouts == {Year, 1}
MCNamespaceOf == <<1, 1, 1, 2, 2>>
MCGlobal == {2}
MCPrivate == {1, 5}

Cond(k, a) == [kind |-> k, arg |-> a]

MCCondition ==
  <<Cond("none", {p2}), Cond("any", {p1}), Cond("rule", {1}), Cond("module", {m1, m2}),
    Cond("any", {p1, p2})>>

\* The same rules, but the fourth never stops by itself.
MCCondLoop == [MCCondition EXCEPT ![4] = Cond("loop", {})]

Datum(atoms, anchored, size_out, holds, fails) ==
  [base |-> 0, size |-> Len(atoms), atoms |-> atoms, anchored |-> anchored,
   size_out |-> size_out, header_out |-> {}, holds |-> holds, fails |-> fails]

\* Nothing; one pattern; a pattern above its limit; an anchored pattern and a
\* module that fails; a pattern that the size of the data rules out.
MCData ==
  {Datum(<<>>, {}, {}, {}, {}),
   Datum(<<p1>>, {}, {}, {m1}, {}),
   Datum(<<p2, p1, p2>>, {}, {}, {m1}, {}),
   Datum(<<p2>>, {p1}, {}, {}, {m1}),
   Datum(<<p1, p2>>, {}, {p1}, {}, {})}

\* A datum for every outcome of a timed scan: found, not found, module error.
MCDataLive ==
  {Datum(<<p1, p2>>, {}, {}, {m1}, {}), Datum(<<>>, {}, {}, {}, {}),
   Datum(<<p2>>, {}, {}, {}, {m1})}

MCImports1 == <<m1>>
\* m2 has no main function in the runs that use this order, and what was
\* provided for it is left when m1 fails.
MCImportsNoMain == <<m1, m2>>
=============================================================================
