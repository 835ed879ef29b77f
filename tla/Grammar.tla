------------------------------ MODULE Grammar -------------------------------
(* The grammar rules of parser/src/parser/mod.rs, one definition per        *)
(* function, as programs for the parser: a program is a sequence of calls   *)
(* of the parser's methods, a closure is a program inside another.          *)
EXTENDS Sequences

\* SyntaxKind::token_id: the kinds that name the role of a token.
TokenId(kind) ==
    CASE kind = "ADD"                             -> "PLUS"
      [] kind \in {"SUB", "MINUS"}                -> "HYPHEN"
      [] kind = "MUL"                             -> "ASTERISK"
      [] kind = "DIV"                             -> "BACKSLASH"
      [] kind = "MOD"                             -> "PERCENT"
      [] kind = "BITWISE_AND"                     -> "AMPERSAND"
      [] kind = "BITWISE_OR"                      -> "PIPE"
      [] kind = "BITWISE_XOR"                     -> "CARET"
      [] kind = "BITWISE_NOT"                     -> "TILDE"
      [] OTHER                                    -> kind

-----------------------------------------------------------------------------
(* The parser's methods as instructions.                                    *)
begin(kind)       == [op |-> "begin", kind |-> kind]
end               == [op |-> "end"]
recover(set)      == [op |-> "recover", set |-> set]
expect(set)       == [op |-> "expect", set |-> set]
opt(body)         == [op |-> "opt", body |-> body]
not(body)         == [op |-> "not", body |-> body]
if_next(set, body) == [op |-> "if_next", set |-> set, body |-> body]
n_or_more(n, body) == [op |-> "n_or_more", n |-> n, body |-> body]
then(body)        == [op |-> "then", body |-> body]
alt(alts)         == [op |-> "alt", alts |-> alts]
cached(kind, body) == [op |-> "cached", kind |-> kind, body |-> body]
enter_hex_pattern_mode == [op |-> "enter_hex_pattern_mode"]
enter_hex_jump_mode == [op |-> "enter_hex_jump_mode"]
call(name)        == [op |-> "call", name |-> name]

opt_expect(set)    == opt(<<expect(set)>>)
zero_or_more(body) == n_or_more(0, body)
one_or_more(body)  == n_or_more(1, body)
cond(set, body)    == if_next(set, <<expect(set), then(body)>>)

-----------------------------------------------------------------------------
import_stmt == <<begin("IMPORT_STMT"), expect({"IMPORT_KW"}), expect({"STRING_LIT"}), end>>
include_stmt == <<begin("INCLUDE_STMT"), expect({"INCLUDE_KW"}), expect({"STRING_LIT"}), end>>

rule_decl ==
    <<begin("RULE_DECL"),
      opt(<<call("rule_mods")>>),
      expect({"RULE_KW"}),
      expect({"IDENT"}),
      if_next({"COLON"}, <<call("rule_tags")>>),
      expect({"L_BRACE"}),
      if_next({"META_KW"}, <<call("meta_blk")>>),
      if_next({"STRINGS_KW"}, <<call("patterns_blk")>>),
      then(<<call("condition_blk")>>),
      expect({"R_BRACE"}),
      end,
      recover({"GLOBAL_KW", "PRIVATE_KW", "RULE_KW", "IMPORT_KW", "INCLUDE_KW"})>>

rule_mods ==
    <<begin("RULE_MODS"),
      alt(<< <<expect({"PRIVATE_KW"}), opt_expect({"GLOBAL_KW"})>>,
             <<expect({"GLOBAL_KW"}), opt_expect({"PRIVATE_KW"})>> >>),
      end>>

\* Mutant of rule_tags: each tag is optional.
rule_tags_optional ==
    <<begin("RULE_TAGS"), expect({"COLON"}), one_or_more(<<opt_expect({"IDENT"})>>), end,
      recover({"L_BRACE"})>>

rule_tags ==
    <<begin("RULE_TAGS"), expect({"COLON"}), one_or_more(<<expect({"IDENT"})>>), end,
      recover({"L_BRACE"})>>

meta_blk ==
    <<begin("META_BLK"), expect({"META_KW"}), expect({"COLON"}),
      one_or_more(<<call("meta_def")>>), end,
      recover({"STRINGS_KW", "CONDITION_KW"})>>

meta_def ==
    <<begin("META_DEF"), expect({"IDENT"}), expect({"EQUAL"}),
      alt(<< <<opt_expect({"MINUS"}), expect({"INTEGER_LIT", "FLOAT_LIT"})>>,
             <<expect({"STRING_LIT", "TRUE_KW", "FALSE_KW"})>> >>),
      end>>

patterns_blk ==
    <<begin("PATTERNS_BLK"), expect({"STRINGS_KW"}), expect({"COLON"}),
      one_or_more(<<call("pattern_def")>>), end,
      recover({"CONDITION_KW"})>>

pattern_def ==
    <<begin("PATTERN_DEF"), expect({"PATTERN_IDENT"}), expect({"EQUAL"}),
      alt(<< <<expect({"STRING_LIT"})>>, <<expect({"REGEXP"})>>, <<call("hex_pattern")>> >>),
      opt(<<call("pattern_mods")>>),
      end>>

pattern_mods == <<begin("PATTERN_MODS"), one_or_more(<<call("pattern_mod")>>), end>>

pattern_mod ==
    <<begin("PATTERN_MOD"),
      alt(<< <<expect({"ASCII_KW", "WIDE_KW", "NOCASE_KW", "PRIVATE_KW", "FULLWORD_KW"})>>,
             <<expect({"BASE64_KW", "BASE64WIDE_KW"}),
               cond({"L_PAREN"}, <<expect({"STRING_LIT"}), expect({"R_PAREN"})>>)>>,
             <<expect({"XOR_KW"}),
               cond({"L_PAREN"},
                    <<expect({"INTEGER_LIT"}),
                      cond({"HYPHEN"}, <<expect({"INTEGER_LIT"})>>),
                      expect({"R_PAREN"})>>)>> >>),
      end>>

hex_pattern ==
    <<begin("HEX_PATTERN"), expect({"L_BRACE"}), enter_hex_pattern_mode,
      then(<<call("hex_sub_pattern")>>), expect({"R_BRACE"}), end>>

hex_byte_or_alternative == alt(<< <<expect({"HEX_BYTE"})>>, <<call("hex_alternative")>> >>)

hex_sub_pattern ==
    <<begin("HEX_SUB_PATTERN"), hex_byte_or_alternative,
      zero_or_more(<<zero_or_more(<<call("hex_jump")>>), hex_byte_or_alternative>>),
      end>>

hex_alternative ==
    <<begin("HEX_ALTERNATIVE"), expect({"L_PAREN"}), then(<<call("hex_sub_pattern")>>),
      zero_or_more(<<expect({"PIPE"}), then(<<call("hex_sub_pattern")>>)>>),
      expect({"R_PAREN"}), end>>

hex_jump ==
    <<begin("HEX_JUMP"), expect({"L_BRACKET"}), enter_hex_jump_mode,
      alt(<< <<opt_expect({"INTEGER_LIT"}), expect({"HYPHEN"}), opt_expect({"INTEGER_LIT"})>>,
             <<expect({"INTEGER_LIT"})>> >>),
      expect({"R_BRACKET"}), end>>

-----------------------------------------------------------------------------
condition_blk ==
    <<begin("CONDITION_BLK"), expect({"CONDITION_KW"}), expect({"COLON"}),
      then(<<call("boolean_expr"), recover({"R_BRACE"})>>),
      end,
      recover({"R_BRACE"})>>

boolean_expr ==
    <<begin("BOOLEAN_EXPR"), then(<<call("boolean_term")>>),
      zero_or_more(<<expect({"AND_KW", "OR_KW"}), then(<<call("boolean_term")>>)>>),
      end>>

boolean_term ==
    <<begin("BOOLEAN_TERM"),
      alt(<< <<expect({"PATTERN_IDENT"}), if_next({"AT_KW", "IN_KW"}, <<call("at_or_in")>>)>>,
             <<expect({"TRUE_KW", "FALSE_KW"})>>,
             <<expect({"NOT_KW", "DEFINED_KW"}), then(<<call("boolean_term")>>)>>,
             <<call("for_expr")>>,
             <<call("of_expr")>>,
             <<call("with_expr")>>,
             <<call("expr"),
               zero_or_more(<<expect({"EQ", "NE", "LE", "LT", "GE", "GT", "CONTAINS_KW",
                                      "ICONTAINS_KW", "STARTSWITH_KW", "ISTARTSWITH_KW",
                                      "ENDSWITH_KW", "IENDSWITH_KW", "IEQUALS_KW",
                                      "MATCHES_KW"}),
                              then(<<call("expr")>>)>>)>>,
             <<expect({"L_PAREN"}), then(<<call("boolean_expr")>>), expect({"R_PAREN"})>> >>),
      end>>

at_or_in ==
    <<alt(<< <<expect({"AT_KW"}), then(<<call("expr")>>)>>,
             <<expect({"IN_KW"}), then(<<call("range")>>)>> >>)>>

expr ==
    <<cached("EXPR",
        <<begin("EXPR"), then(<<call("term")>>),
          zero_or_more(<<expect({"ADD", "SUB", "MUL", "DIV", "MOD", "SHL", "SHR",
                                 "BITWISE_AND", "BITWISE_OR", "BITWISE_XOR"}),
                         then(<<call("term")>>)>>),
          end>>)>>

func_call ==
    <<begin("FUNC_CALL"), expect({"IDENT"}), expect({"L_PAREN"}),
      opt(<<call("boolean_expr"),
            zero_or_more(<<expect({"COMMA"}), then(<<call("boolean_expr")>>)>>)>>),
      expect({"R_PAREN"}), end>>

range ==
    <<begin("RANGE"), expect({"L_PAREN"}), then(<<call("expr")>>), expect({"DOT"}),
      expect({"DOT"}), then(<<call("expr")>>), expect({"R_PAREN"}), end>>

term ==
    <<cached("TERM",
        <<begin("TERM"),
          alt(<< <<expect({"FLOAT_LIT", "INTEGER_LIT", "STRING_LIT", "REGEXP",
                           "FILESIZE_KW", "ENTRYPOINT_KW"})>>,
                 <<expect({"PATTERN_COUNT"}), cond({"IN_KW"}, <<call("range")>>)>>,
                 <<expect({"PATTERN_OFFSET", "PATTERN_LENGTH"}),
                   cond({"L_BRACKET"}, <<call("expr"), expect({"R_BRACKET"})>>)>>,
                 <<expect({"MINUS"}), then(<<call("term")>>)>>,
                 <<expect({"BITWISE_NOT"}), then(<<call("term")>>)>>,
                 <<expect({"L_PAREN"}), then(<<call("expr")>>), expect({"R_PAREN"})>>,
                 <<call("primary_expr"),
                   zero_or_more(<<expect({"DOT"}), then(<<call("primary_expr")>>)>>)>> >>),
          end>>)>>

primary_expr ==
    <<begin("PRIMARY_EXPR"),
      alt(<< <<call("func_call")>>,
             <<expect({"IDENT"}), expect({"L_BRACKET"}), then(<<call("expr")>>),
               expect({"R_BRACKET"})>>,
             <<expect({"IDENT"})>> >>),
      end>>

for_expr ==
    <<begin("FOR_EXPR"), expect({"FOR_KW"}), then(<<call("quantifier")>>),
      alt(<< <<expect({"OF_KW"}),
               alt(<< <<expect({"THEM_KW"})>>, <<call("pattern_ident_tuple")>> >>)>>,
             <<expect({"IDENT"}),
               zero_or_more(<<expect({"COMMA"}), expect({"IDENT"})>>),
               expect({"IN_KW"}), call("iterable")>> >>),
      expect({"COLON"}), expect({"L_PAREN"}),
      then(<<call("boolean_expr"), recover({"R_PAREN"})>>),
      expect({"R_PAREN"}), end>>

of_expr ==
    <<begin("OF_EXPR"), then(<<call("quantifier")>>), expect({"OF_KW"}),
      alt(<< <<alt(<< <<expect({"THEM_KW"})>>, <<call("pattern_ident_tuple")>> >>),
               if_next({"AT_KW", "IN_KW"}, <<call("at_or_in")>>)>>,
             <<call("boolean_expr_tuple"), not(<<expect({"AT_KW", "IN_KW"})>>)>> >>),
      end>>

with_expr ==
    <<begin("WITH_EXPR"), expect({"WITH_KW"}), then(<<call("with_declarations")>>),
      expect({"COLON"}), expect({"L_PAREN"}),
      then(<<call("boolean_expr"), recover({"R_PAREN"})>>),
      expect({"R_PAREN"}), end>>

with_declarations ==
    <<begin("WITH_DECLS"), then(<<call("with_declaration")>>),
      zero_or_more(<<expect({"COMMA"}), call("with_declaration")>>), end,
      recover({"COLON", "L_PAREN"})>>

with_declaration ==
    <<begin("WITH_DECL"), expect({"IDENT"}), expect({"EQUAL"}), then(<<call("expr")>>), end>>

quantifier ==
    <<begin("QUANTIFIER"),
      alt(<< <<expect({"ALL_KW", "NONE_KW", "ANY_KW"})>>,
             <<call("term"), expect({"PERCENT"})>>,
             <<call("expr"), not(<<expect({"PERCENT"})>>)>> >>),
      end>>

iterable ==
    <<begin("ITERABLE"),
      alt(<< <<call("range")>>, <<call("expr_tuple")>>, <<call("expr")>> >>),
      end>>

boolean_expr_tuple ==
    <<begin("BOOLEAN_EXPR_TUPLE"), expect({"L_PAREN"}), then(<<call("boolean_expr")>>),
      zero_or_more(<<expect({"COMMA"}), then(<<call("boolean_expr")>>)>>),
      expect({"R_PAREN"}), end>>

expr_tuple ==
    <<begin("EXPR_TUPLE"), expect({"L_PAREN"}), then(<<call("expr")>>),
      zero_or_more(<<expect({"COMMA"}), then(<<call("expr")>>)>>),
      expect({"R_PAREN"}), end>>

pattern_ident_tuple ==
    <<begin("PATTERN_IDENT_TUPLE"), expect({"L_PAREN"}), expect({"PATTERN_IDENT"}),
      opt_expect({"ASTERISK"}),
      zero_or_more(<<expect({"COMMA"}), expect({"PATTERN_IDENT"}), opt_expect({"ASTERISK"})>>),
      expect({"R_PAREN"}), end>>

YaraGrammar ==
    [import_stmt |-> import_stmt, include_stmt |-> include_stmt, rule_decl |-> rule_decl,
     rule_mods |-> rule_mods, rule_tags |-> rule_tags, meta_blk |-> meta_blk,
     meta_def |-> meta_def, patterns_blk |-> patterns_blk, pattern_def |-> pattern_def,
     pattern_mods |-> pattern_mods, pattern_mod |-> pattern_mod, hex_pattern |-> hex_pattern,
     hex_sub_pattern |-> hex_sub_pattern, hex_alternative |-> hex_alternative,
     hex_jump |-> hex_jump, condition_blk |-> condition_blk, boolean_expr |-> boolean_expr,
     boolean_term |-> boolean_term, at_or_in |-> at_or_in, expr |-> expr,
     func_call |-> func_call, range |-> range, term |-> term, primary_expr |-> primary_expr,
     for_expr |-> for_expr, of_expr |-> of_expr, with_expr |-> with_expr,
     with_declarations |-> with_declarations, with_declaration |-> with_declaration,
     quantifier |-> quantifier, iterable |-> iterable,
     boolean_expr_tuple |-> boolean_expr_tuple, expr_tuple |-> expr_tuple,
     pattern_ident_tuple |-> pattern_ident_tuple]
=============================================================================
