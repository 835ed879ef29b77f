--------------------------- MODULE ParserReference ---------------------------
(* What the parser should compute.  Match is the textbook meaning of the    *)
(* grammar as a parsing expression grammar: no bookmarks, no cache, no      *)
(* fuel, no recovery, and each lexeme read in the mode of the rule that     *)
(* asks for it, however far anybody looked ahead.  With mend, a part that   *)
(* the grammar recovers from may be missing: where it does not match it is  *)
(* taken for empty, after trivia, in front of a token of the recovery set.  *)
EXTENDS Parser, ErrorMerger

NoMatch == Len(source) + 1

RECURSIVE Match(_, _, _, _)
Match(code, i, mode, mend) ==
    IF code = << >> THEN i
    ELSE LET c    == Head(code)
             Run(body, at) == Match(body, at, mode, mend)
             From(r) == IF r = NoMatch THEN r ELSE Run(Tail(code), r)
             next == NextNonTrivia(i)
             NextIn1(set) == next <= Len(source) /\ TokenIn(mode, source[next]) \in Ids(set)
             MayMiss(body) == /\ mend /\ Last(body).op = "recover"
                              /\ next > Len(source) \/ NextIn1(Last(body).set)
             Part(body) == LET r == Run(body, i)
                           IN  IF r = NoMatch /\ MayMiss(body) THEN next - 1 ELSE r
             RECURSIVE Times(_, _), First(_)
             Times(n, at) ==
                 LET r == Run(c.body, at)
                 IN  IF r # NoMatch THEN Times(IF n = 0 THEN 0 ELSE n - 1, r)
                     ELSE IF n = 0 THEN at ELSE NoMatch
             First(alts) ==
                 IF alts = << >> THEN NoMatch
                 ELSE LET r == Run(Head(alts), i)
                      IN  IF r # NoMatch THEN r ELSE First(Tail(alts))
         IN  CASE c.op \in {"begin", "end", "recover"} -> From(i)
               [] c.op = "enter_hex_pattern_mode" -> Match(Tail(code), i, "HexPattern", mend)
               [] c.op = "enter_hex_jump_mode" -> Match(Tail(code), i, "HexJump", mend)
               [] c.op = "expect" ->
                     IF NextIn1(c.set) THEN From(next) ELSE NoMatch
               [] c.op = "if_next" ->
                     From(IF NextIn1(c.set) THEN Part(c.body) ELSE i)
               [] c.op = "opt" ->
                     LET r == Run(c.body, i) IN From(IF r = NoMatch THEN i ELSE r)
               [] c.op = "not" -> IF Run(c.body, i) = NoMatch THEN From(i) ELSE NoMatch
               [] c.op = "n_or_more" -> From(Times(c.n, i))
               [] c.op \in {"then", "cached"} -> From(Part(c.body))
               [] c.op = "call" -> From(Part(Rules[c.name]))
               [] c.op = "alt" -> From(First(c.alts))

\* The source from the i-th token on is a sequence of items.
RECURSIVE Parses(_)
Parses(i) ==
    LET next == NextNonTrivia(i)
        rule == ItemRule(NormalToken(source[next]))
        r    == Match(Rules[rule], i, "Normal", FALSE)
    IN  \/ next > Len(source)
        \/ rule # "none" /\ r # NoMatch /\ Parses(r)

\* The brackets of the jumps in hex patterns: the brace before them follows "=".
HexJumps ==
    LET Braces == {i \in DOMAIN source : source[i] \in {"L_BRACE", "R_BRACE"}}
        InHexPattern(j) ==
            \E b \in Braces, e \in DOMAIN source :
                /\ b < j /\ (\A i \in Braces : i <= b \/ j < i)
                /\ source[b] = "L_BRACE" /\ source[e] = "EQUAL" /\ NextNonTrivia(e) = b
    IN  {jump \in (DOMAIN source) \X (DOMAIN source) :
            /\ jump[1] < jump[2] /\ InHexPattern(jump[1])
            /\ source[jump[1]] = "L_BRACKET" /\ source[jump[2]] = "R_BRACKET"
            /\ \A i \in jump[1] + 1 .. jump[2] - 1 : source[i] # "R_BRACKET"}

\* The jumps with a comment that is not the last thing in them: the lexer of
\* jumps knows no comments, and the tokenizer falls back to the hex pattern's.
\* A number of two digits is then a byte; any other token of a jump makes it
\* fall back to normal mode, in which the next byte is none, unless another
\* jump comes first (tokenizer/mod.rs:123-144 and 800-812).
MisreadJumps ==
    {jump \in HexJumps :
        \E c \in jump[1] .. jump[2] :
            /\ source[c] = "COMMENT" /\ \A i \in jump[1] .. c - 1 : source[i] # "COMMENT"
            /\ NextNonTrivia(c) < jump[2]
            /\ \/ source[NextNonTrivia(c)] = "10"
               \/ /\ NextNonTrivia(jump[2]) <= Len(source)
                  /\ source[NextNonTrivia(jump[2])] # "L_BRACKET"}

\* The nodes of a tree that have no ERROR node in them, themselves included.
SoundNodes(events) ==
    LET Enter1(a, e) == [a EXCEPT !.open = Append(@, e.kind # "ERROR")]
        Leave1(a, e) ==
            LET sound == Last(a.open)
                rest  == Front(a.open)
            IN  [open  |-> IF rest = << >> THEN rest
                           ELSE [rest EXCEPT ![Len(rest)] = @ /\ sound],
                 nodes |-> IF sound THEN a.nodes \union {e} ELSE a.nodes]
        v[i \in 0 .. Len(events)] ==
            LET e == events[i]
            IN  CASE i = 0 -> [open |-> << >>, nodes |-> {}]
                  [] i > 0 /\ e.type = "Begin" -> Enter1(v[i - 1], e)
                  [] i > 0 /\ e.type = "End" -> Leave1(v[i - 1], e)
                  [] OTHER -> v[i - 1]
    IN  v[Len(events)].nodes

\* The rule whose program begins a node of some kind, and the mode it is in.
RuleOf(kind) ==
    CHOOSE r \in DOMAIN Rules :
        LET code == IF Rules[r][1].op = "cached" THEN Rules[r][1].body ELSE Rules[r]
        IN  code[1] = begin(kind)

ModeOfRule(rule) ==
    IF rule \in {"hex_sub_pattern", "hex_alternative", "hex_jump"} THEN "HexPattern" ELSE "Normal"

-----------------------------------------------------------------------------
AtEnd == state = "EndOfInput"
Errors == SelectSeq(emitted, LAMBDA e : e.type = "Error")

\* The parser accepts exactly the sources in the language of its grammar that
\* have no misread jump: it reports an error for all others, and a source it
\* accepts has no ERROR node, with the lookahead and the modes of the tokenizer,
\* the cache of failures, the errors of the branches it left and the recovery in
\* between (parser/mod.rs:230-280, 452-505, 868-952).  Misread jumps are valid
\* and refused: the tokenizer leaves the mode of a jump at a comment and not, as
\* its documentation has it, at the closing bracket (tokenizer/mod.rs:168-170).
AcceptsTheGrammar ==
    AtEnd /\ fuel > 0 =>
        IF Parses(0) /\ MisreadJumps = {}
        THEN \A i \in DOMAIN emitted : emitted[i].kind \notin {"ERROR", "message"}
        ELSE Errors # << >>

\* A node without ERROR nodes in it is what its grammar rule matches at that
\* place, also when it was parsed next to errors and after going back, with one
\* exception.  A part that recover made good with nothing to discard is missing
\* from it without a trace, as the condition of "rule a { condition: }" is; there
\* is a message then, at a token of the node or at the one after it.  (That is
\* less than parser/mod.rs:8-12 says: not everything outside of the error nodes
\* is valid.)
NodesAreGrammatical ==
    AtEnd =>
        \A e \in {n \in SoundNodes(emitted) : n.kind # "SOURCE_FILE"} :
            LET r == RuleOf(e.kind)
                match == Match(Rules[r], e.from, ModeOfRule(r), FALSE)
            IN  \/ match = e.to
                \/ /\ match = NoMatch /\ Match(Rules[r], e.from, ModeOfRule(r), TRUE) = e.to
                   /\ \E i \in DOMAIN Errors : Errors[i].to \in e.from + 1 .. NextNonTrivia(e.to)

\* The merger leaves a tree with the same tokens in which no two ERROR nodes
\* follow each other (error_merger.rs:66).
MergedIsWellFormed ==
    AtEnd =>
        LET merged == MergeErrors(emitted)
        IN  /\ IsTree(merged)
            /\ TokensOf(merged) = TokensOf(emitted)
            /\ \A i \in 1 .. Len(merged) - 1 :
                  ~(IsError("End", merged[i]) /\ IsError("Begin", merged[i + 1]))

\* The events handed out are a tree: nodes nest, the tokens are the source
\* without a gap, and each span is that of the tokens of its node, although
\* events were truncated on the way and the last token is sought again after
\* that (syntax_stream.rs:93-193, the assertion at cst/mod.rs:325).  It holds
\* for a parser that ran out of fuel too, and for what the merger makes of it.
\* Where the messages are among the events is not part of it.
TreeIsWellFormed ==
    /\ AtEnd => IsTree(emitted)
    /\ MergedIsWellFormed
=============================================================================
