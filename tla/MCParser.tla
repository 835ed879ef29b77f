------------------------------ MODULE MCParser ------------------------------
(* Programs that between them use every grammar rule, each of them also     *)
(* with one lexeme removed, replaced or added, and cut off at every place;  *)
(* the short ones also with little fuel.                                    *)
EXTENDS ParserReference

\* The programs in a set and the closures in them, at any depth.
RECURSIVE WithClosures(_)
WithClosures(set) ==
  LET all == set \union UNION {UNION {ClosuresOf(p[i]) : i \in DOMAIN p} : p \in set}
  IN  IF all = set THEN set ELSE WithClosures(all)

MCBodies == WithClosures({Rules[name] : name \in DOMAIN Rules})

Cond(c) == <<"RULE_KW", "IDENT", "L_BRACE", "CONDITION_KW", "COLON">> \o c \o <<"R_BRACE">>

Conditions == {
  <<"PATTERN_IDENT", "AT_KW", "10">>,
  <<"PATTERN_IDENT", "IN_KW", "L_PAREN", "10", "DOT", "DOT", "10", "R_PAREN">>,
  <<"NOT_KW", "DEFINED_KW", "TRUE_KW", "AND_KW", "L_PAREN", "FALSE_KW", "R_PAREN">>,
  <<"FOR_KW", "ALL_KW", "OF_KW", "THEM_KW", "COLON", "L_PAREN", "TRUE_KW", "R_PAREN">>,
  <<"FOR_KW", "10", "IDENT", "COMMA", "IDENT", "IN_KW", "L_PAREN", "10", "COMMA", "10", "R_PAREN",
    "COLON", "L_PAREN", "TRUE_KW", "R_PAREN">>,
  <<"FOR_KW", "ANY_KW", "IDENT", "IN_KW", "L_PAREN", "10", "DOT", "DOT", "10", "R_PAREN",
    "COLON", "L_PAREN", "TRUE_KW", "R_PAREN">>,
  <<"10", "PERCENT", "OF_KW", "L_PAREN", "PATTERN_IDENT", "ASTERISK", "COMMA", "PATTERN_IDENT",
    "R_PAREN", "AT_KW", "10">>,
  <<"ANY_KW", "OF_KW", "L_PAREN", "TRUE_KW", "COMMA", "IDENT", "R_PAREN">>,
  <<"WITH_KW", "IDENT", "EQUAL", "10", "COMMA", "IDENT", "EQUAL", "10", "COLON", "L_PAREN",
    "TRUE_KW", "R_PAREN">>,
  <<"IDENT", "DOT", "IDENT", "L_PAREN", "TRUE_KW", "COMMA", "10", "R_PAREN", "EQ",
    "IDENT", "L_BRACKET", "10", "R_BRACKET">>,
  <<"PATTERN_COUNT", "IN_KW", "L_PAREN", "10", "DOT", "DOT", "10", "R_PAREN", "PLUS", "HYPHEN",
    "PATTERN_OFFSET", "L_BRACKET", "10", "R_BRACKET">>,
  <<"TILDE", "L_PAREN", "10", "R_PAREN", "LT", "10">>}

Programs == {
  <<"IMPORT_KW", "STRING_LIT", "INCLUDE_KW", "STRING_LIT">>,
  <<"GLOBAL_KW", "PRIVATE_KW", "RULE_KW", "IDENT", "COLON", "IDENT", "IDENT", "L_BRACE",
    "META_KW", "COLON", "IDENT", "EQUAL", "HYPHEN", "10", "IDENT", "EQUAL", "STRING_LIT",
    "CONDITION_KW", "COLON", "TRUE_KW", "R_BRACE">>,
  <<"PRIVATE_KW", "RULE_KW", "IDENT", "L_BRACE", "STRINGS_KW", "COLON",
    "PATTERN_IDENT", "EQUAL", "STRING_LIT", "ASCII_KW", "XOR_KW", "L_PAREN", "10", "HYPHEN", "10", "R_PAREN",
    "PATTERN_IDENT", "EQUAL", "REGEXP", "BASE64_KW", "L_PAREN", "STRING_LIT", "R_PAREN",
    "CONDITION_KW", "COLON", "TRUE_KW", "R_BRACE">>,
  <<"RULE_KW", "a0", "L_BRACE", "STRINGS_KW", "COLON",
    "PATTERN_IDENT", "EQUAL", "L_BRACE", "10", "L_BRACKET", "10", "HYPHEN", "R_BRACKET", "a0", "R_BRACE",
    "PATTERN_IDENT", "EQUAL", "L_BRACE", "L_PAREN", "a0", "PIPE", "10", "L_BRACKET", "10", "R_BRACKET", "10", "R_PAREN", "R_BRACE",
    "CONDITION_KW", "COLON", "a0", "R_BRACE">>,
  Cond(<<"TRUE_KW">>) \o <<"IMPORT_KW", "STRING_LIT">> \o Cond(<<"TRUE_KW">>),
  Cond(<<"WHITESPACE", "TRUE_KW", "WHITESPACE">>) \o <<"WHITESPACE">> \o Cond(<<"NEWLINE", "IDENT", "COMMENT">>)
    \o <<"WHITESPACE">>
  } \union {Cond(c) : c \in Conditions}

\* Hex patterns with trivia, and with jumps of every form one after the other.
HexPrograms ==
  {<<"RULE_KW", "IDENT", "L_BRACE", "STRINGS_KW", "COLON", "PATTERN_IDENT", "EQUAL", "L_BRACE">>
     \o hex \o <<"R_BRACE", "CONDITION_KW", "COLON", "TRUE_KW", "R_BRACE">> :
   hex \in {<<"10", "WHITESPACE", "L_BRACKET", "10", "NEWLINE", "HYPHEN", "INTEGER_LIT", "R_BRACKET",
              "L_BRACKET", "HYPHEN", "10", "R_BRACKET", "a0">>,
            <<"L_PAREN", "a0", "L_BRACKET", "INTEGER_LIT", "R_BRACKET", "10", "R_PAREN",
              "L_BRACKET", "HYPHEN", "R_BRACKET", "10">>}}

\* A program, cut off, with a lexeme less, and with one replaced or added.
Edits(t, l) ==
  {t} \union {SubSeq(t, 1, n) : n \in 0 .. Len(t) - 1}
      \union {RemoveAt(t, i) : i \in DOMAIN t}
      \union {ReplaceAt(t, i, l) : i \in DOMAIN t}
      \union {InsertAt(t, i, l) : i \in DOMAIN t}

Short == {t \in Programs : Len(t) <= 13}

Enough == 1000   \* no source runs out of this fuel
MaxFuel == 20

MCSources ==
  {[text |-> s, fuel |-> Enough] :
      s \in UNION ({Edits(t, "UNKNOWN") : t \in Programs \union HexPrograms}
                      \union {Edits(t, "RULE_KW") : t \in Short}
                      \union {Edits(t, "COMMENT") : t \in HexPrograms})}
  \union {[text |-> t, fuel |-> n] : t \in Short, n \in 0 .. MaxFuel}
=============================================================================
