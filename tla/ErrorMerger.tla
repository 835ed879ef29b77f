----------------------------- MODULE ErrorMerger -----------------------------
(* parser/src/cst/error_merger.rs: the iterator between the parser and the  *)
(* syntax tree that joins ERROR nodes that follow each other, and what it   *)
(* takes for a stream of events to be a tree.                               *)
EXTENDS SyntaxStream

IsError(type, e) == e.type = type /\ e.kind = "ERROR"

\* Mutant of Joins: only the End event of the first node is dropped.
JoinsHalf(a, next) ==
    [a EXCEPT !.out[Last(a.open)] = BeginEvent("ERROR", @.from, next.to)]

\* The next ERROR node becomes part of the open one.
Joins(a, next) ==
    [a EXCEPT !.out[Last(a.open)] = BeginEvent("ERROR", @.from, next.to), !.drop = TRUE]

\* One event: out is what was put out, open the positions in it of the ERROR
\* nodes that are open, and drop says that the event was taken with the last.
Merge(a, events, i) ==
    LET e == events[i]
    IN  CASE a.drop -> [a EXCEPT !.drop = FALSE]
          [] ~a.drop /\ IsError("Begin", e) ->
                [a EXCEPT !.out = Append(@, e), !.open = Append(@, Len(a.out) + 1)]
          [] ~a.drop /\ IsError("End", e) ->
                IF i < Len(events) /\ IsError("Begin", events[i + 1])
                THEN Joins(a, events[i + 1])
                ELSE LET b == a.out[Last(a.open)]
                     IN  [a EXCEPT !.out = Append(@, EndEvent("ERROR", b.from, b.to)),
                                   !.open = Front(@)]
          [] OTHER -> [a EXCEPT !.out = Append(@, e)]

MergeErrors(events) ==
    LET m[i \in 0 .. Len(events)] ==
          IF i = 0 THEN [out |-> << >>, open |-> << >>, drop |-> FALSE]
          ELSE Merge(m[i - 1], events, i)
    IN  m[Len(events)].out

-----------------------------------------------------------------------------
\* The token events of a stream.
TokensOf(events) == SelectSeq(events, LAMBDA e : e.type = "Token")

\* A stream is a tree if each token starts where the last one ended, as the
\* tree builder asserts, each End has the kind and the span of its Begin, and
\* the span of a node goes from the token before it to its last token.
Visit(a, e) ==
    LET top == Last(a.open)
    IN  CASE ~a.ok -> a
          [] a.ok /\ e.type = "Token" -> [a EXCEPT !.ok = e.from = a.last, !.last = e.to]
          [] a.ok /\ e.type = "Begin" ->
                [a EXCEPT !.open = Append(@, e),
                          !.ok = e.kind = "SOURCE_FILE" \/ e.from = a.last]
          [] a.ok /\ e.type = "End" ->
                IF a.open = << >> THEN [a EXCEPT !.ok = FALSE]
                ELSE [a EXCEPT !.open = Front(@),
                               !.ok = /\ <<top.kind, top.from, top.to>> = <<e.kind, e.from, e.to>>
                                      /\ e.kind = "SOURCE_FILE" \/ e.to = a.last]
          [] OTHER -> a

IsTree(events) ==
    LET v[i \in 0 .. Len(events)] ==
          IF i = 0 THEN [open |-> << >>, last |-> 0, ok |-> TRUE]
          ELSE Visit(v[i - 1], events[i])
    IN  v[Len(events)].ok /\ v[Len(events)].open = << >>
=============================================================================
