---------------------------- MODULE TokenStream -----------------------------
(* parser/src/tokenizer/mod.rs and parser/src/parser/token_stream.rs: the   *)
(* tokenizer with its three modes, and the stream that buffers its tokens   *)
(* so that the parser can look ahead and go back.                           *)
(*                                                                          *)
(* The source is a sequence of lexemes, pieces that are one token in every  *)
(* mode.  A lexeme is named by the token it is in normal mode, except "10"  *)
(* and "a0", an integer and an identifier that hex mode reads as bytes;     *)
(* "INTEGER_LIT" is a number of one digit, which hex mode does not know.    *)
(* Token i of the stream is lexeme i; the span of a token is its number.    *)
EXTENDS Naturals, Sequences, FiniteSets, FiniteSetsExt, SequencesExt

VARIABLE source   \* the lexemes of the source code

Trivia == {"WHITESPACE", "NEWLINE", "COMMENT"}

NoToken == "none"

\* The lexers of the three modes.
NormalToken(l) ==
    CASE l = "10" -> "INTEGER_LIT"
      [] l = "a0" -> "IDENT"
      [] OTHER    -> l

HexPatternToken(l) ==
    CASE l \in {"10", "a0"} -> "HEX_BYTE"
      [] l \in {"PIPE", "L_PAREN", "R_PAREN", "L_BRACKET", "R_BRACKET"} \union Trivia -> l
      [] OTHER -> NoToken

HexJumpToken(l) ==
    CASE l \in {"10", "INTEGER_LIT"} -> "INTEGER_LIT"
      [] l \in {"HYPHEN", "WHITESPACE", "NEWLINE"} -> l
      [] OTHER -> NoToken

\* A lexeme that a hex mode does not know makes the tokenizer fall back, from
\* hex jump to hex pattern and from hex pattern to normal mode.
ModeOf(mode, l) ==
    IF mode = "HexJump" /\ HexJumpToken(l) # NoToken THEN "HexJump"
    ELSE IF mode # "Normal" /\ HexPatternToken(l) # NoToken THEN "HexPattern"
    ELSE "Normal"

TokenIn(mode, l) ==
    LET m == ModeOf(mode, l)
    IN  CASE m = "HexJump"    -> HexJumpToken(l)
          [] m = "HexPattern" -> HexPatternToken(l)
          [] m = "Normal"     -> NormalToken(l)

\* The mode after the lexemes from..to: it falls back at most twice.
Falls(mode, from, to) == {i \in from .. to : ModeOf(mode, source[i]) # mode}

ModeAfter(mode, from, to) ==
    IF mode = "Normal" \/ Falls(mode, from, to) = {} THEN mode
    ELSE LET i == Min(Falls(mode, from, to))
             m == ModeOf(mode, source[i])
         IN  IF Falls(m, i + 1, to) = {} THEN m ELSE "Normal"

-----------------------------------------------------------------------------
(* A stream is a record: the mode of the tokenizer, the buffered tokens,    *)
(* the bookmarks in ascending order, the number of tokens before the        *)
(* current one and the number of tokens purged from the buffer.             *)
NewStream == [mode |-> "Normal", tokens |-> << >>, bookmarks |-> << >>,
              current |-> 0, purged |-> 0]

\* How far the tokenizer is: every token it returned went into the buffer.
Lexed(ts) == ts.purged + Len(ts.tokens)

\* The i-th token of the stream, from the buffer or from the source.
TokenAt(ts, i) ==
    IF i <= Lexed(ts) THEN ts.tokens[i - ts.purged]
    ELSE TokenIn(ModeAfter(ts.mode, Lexed(ts) + 1, i - 1), source[i])

\* Mutant of Fetch: the tokenizer is always one token ahead.
FetchAhead(ts, i) ==
    LET n  == Lexed(ts)
        to == Min({i + 1, Len(source)})
    IN  IF to <= n THEN ts
        ELSE [ts EXCEPT !.tokens = @ \o [k \in 1 .. to - n |-> TokenAt(ts, n + k)],
                        !.mode = ModeAfter(@, n + 1, to)]

\* fetch_tokens: the tokens up to the i-th are in the buffer, if there are as many.
Fetch(ts, i) ==
    LET n  == Lexed(ts)
        to == Min({i, Len(source)})
    IN  IF to <= n THEN ts
        ELSE [ts EXCEPT !.tokens = @ \o [k \in 1 .. to - n |-> TokenAt(ts, n + k)],
                        !.mode = ModeAfter(@, n + 1, to)]

\* peek_non_trivia: the first token after the n-th that is not trivia, or
\* one more than the number of tokens.
NextNonTrivia(n) ==
    CHOOSE i \in n + 1 .. Len(source) + 1 :
        /\ i <= Len(source) => source[i] \notin Trivia
        /\ \A j \in n + 1 .. i - 1 : source[j] \in Trivia

\* Mutant of AdvanceTo: purges what is behind the current token, whether
\* there is a bookmark or not.
AdvanceToPurgesAll(ts, i) ==
    IF i = ts.current THEN ts
    ELSE [ts EXCEPT !.current = i, !.purged = i,
                    !.tokens = SubSeq(@, i - ts.purged + 1, Len(@))]

\* next_token as often as it takes to have passed the i-th token, with the
\* purge of the tokens that no bookmark leads back to.
AdvanceTo(ts, i) ==
    LET left == IF ts.bookmarks = << >> THEN i ELSE Head(ts.bookmarks)
    IN  IF i = ts.current THEN ts
        ELSE [ts EXCEPT !.current = i, !.purged = left,
                        !.tokens = SubSeq(@, left - ts.purged + 1, Len(@))]

MarkTokens(ts) ==
    [ts EXCEPT !.bookmarks =
       IF @ = << >> \/ Last(@) <= ts.current THEN Append(@, ts.current)
       ELSE SortSeq(Append(@, ts.current), LAMBDA a, b : a < b)]

RestoreTokens(ts, n) == [ts EXCEPT !.current = n]
UnmarkTokens(ts, n) == [ts EXCEPT !.bookmarks = RemoveFirst(@, n)]

\* The modes change where the tokenizer is, whatever the current token.
EnterHexPatternMode(ts) == [ts EXCEPT !.mode = "HexPattern"]
EnterHexJumpMode(ts) == [ts EXCEPT !.mode = "HexJump"]
=============================================================================
