---------------------------- MODULE SyntaxStream ----------------------------
(* parser/src/cst/syntax_stream.rs: the events of the concrete syntax tree  *)
(* that the parser has produced and nobody has taken yet.                   *)
EXTENDS Naturals, Sequences, FiniteSets, FiniteSetsExt, SequencesExt

TokenEvent(kind, i) == [type |-> "Token", kind |-> kind, from |-> i - 1, to |-> i]
ErrorEvent(i) == [type |-> "Error", kind |-> "message", from |-> i - 1, to |-> i]
BeginEvent(kind, from, to) == [type |-> "Begin", kind |-> kind, from |-> from, to |-> to]
EndEvent(kind, from, to) == [type |-> "End", kind |-> kind, from |-> from, to |-> to]

(* A stream is a record: the events, the positions of the Begin events that *)
(* are open, the number of bookmarks and the end of the last token.         *)
NewOutput == [events |-> << >>, open_begins |-> << >>, num_bookmarks |-> 0,
              last_token_end |-> 0]

PushTokens(out, events) ==
    IF events = << >> THEN out
    ELSE [out EXCEPT !.events = @ \o events, !.last_token_end = events[Len(events)].to]

PushErrors(out, spans) ==
    [out EXCEPT !.events = @ \o [k \in DOMAIN spans |-> ErrorEvent(spans[k])]]

BeginNode(out, kind) ==
    [out EXCEPT !.events = Append(@, BeginEvent(kind, out.last_token_end, out.last_token_end)),
                !.open_begins = Append(@, Len(out.events) + 1)]

\* The Begin event gets its kind and its end now.
Close(out, kind) ==
    LET b    == Last(out.open_begins)
        from == out.events[b].from
    IN  [out EXCEPT
           !.events = Append([@ EXCEPT ![b] = BeginEvent(kind, from, out.last_token_end)],
                             EndEvent(kind, from, out.last_token_end)),
           !.open_begins = Front(@)]

EndNode(out) == Close(out, out.events[Last(out.open_begins)].kind)

\* Mutant of EndNodeWithError: the node keeps its kind.
EndNodeWithErrorKeepsKind(out) ==
    IF Last(out.open_begins) = Len(out.events)
    THEN [out EXCEPT !.events = Front(@), !.open_begins = Front(@)]
    ELSE EndNode(out)

\* Mutant of EndNodeWithError: the empty node is removed and stays open.
EndNodeWithErrorLeavesOpen(out) ==
    IF Last(out.open_begins) = Len(out.events)
    THEN [out EXCEPT !.events = Front(@)]
    ELSE Close(out, "ERROR")

\* end_with_error: an empty node is removed, any other becomes an ERROR node.
EndNodeWithError(out) ==
    IF Last(out.open_begins) = Len(out.events)
    THEN [out EXCEPT !.events = Front(@), !.open_begins = Front(@)]
    ELSE Close(out, "ERROR")

\* begin, the tokens that are discarded, and end of an ERROR node.
PushErrorNode(out, events) ==
    LET from == out.last_token_end
        to   == events[Len(events)].to
    IN  [out EXCEPT !.events = @ \o <<BeginEvent("ERROR", from, to)>> \o events
                                 \o <<EndEvent("ERROR", from, to)>>,
                    !.last_token_end = to]

MarkOutput(out) == [out EXCEPT !.num_bookmarks = @ + 1]
UnmarkOutput(out) == [out EXCEPT !.num_bookmarks = @ - 1]

\* Mutant of Truncate: the end of the last token stays where it was.
TruncateKeepsLast(out, n) == [out EXCEPT !.events = SubSeq(@, 1, n)]

\* truncate: the last token is sought among the events that are left, and is
\* at 0 when there is none, whatever was taken from the stream before.
Truncate(out, n) ==
    LET tokens == {i \in 1 .. n : out.events[i].type = "Token"}
    IN  [out EXCEPT !.events = SubSeq(@, 1, n),
                    !.last_token_end = IF tokens = {} THEN 0 ELSE out.events[Max(tokens)].to]
=============================================================================
