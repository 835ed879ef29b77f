--------------------------- MODULE MCScanCommand ---------------------------
(* A walk of seven entries of every kind, with a path that occurs twice,    *)
(* in every format, with and without --count.                               *)
EXTENDS ScanCommand

File(path, rules, fails, logs) ==
  [kind |-> "file", path |-> path, rules |-> rules, fails |-> fails, logs |-> logs]
Other(kind) == [kind |-> kind]

MCEntries ==
  <<Other("unreadable"), File("b", 0, TRUE, TRUE), File("a", 1, FALSE, FALSE), Other("filtered"),
    File("a", 1, FALSE, FALSE), File("c", 0, FALSE, FALSE), Other("broken")>>

Format(output, count_only) == [output |-> output, count_only |-> count_only]

\* With --count ndjson does what text does.
MCFormats ==
  {Format("text", FALSE), Format("ndjson", FALSE), Format("json", FALSE), Format("text", TRUE),
   Format("json", TRUE)}
=============================================================================
