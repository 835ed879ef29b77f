------------------------------- MODULE Parser -------------------------------
(* ParserImpl of parser/src/parser/mod.rs: the PEG parser that turns tokens *)
(* into the events of a concrete syntax tree, going back when a branch of   *)
(* the grammar fails and recovering from errors in the source.              *)
(*                                                                          *)
(* The parser is a machine that runs the programs of a grammar, one action  *)
(* per method.  Methods called in sequence are concatenated; a closure that *)
(* leaves work to do after it has its own frame on the stack, with that     *)
(* work in the field exit.  The iterator that hands out the events is part  *)
(* of the machine: it parses a top-level item when it has no event left.    *)
EXTENDS TokenStream, SyntaxStream, Grammar

CONSTANTS
  Rules,     \* the grammar: a program for each rule
  Bodies,    \* the programs of the rules and of the closures in them
  Sources    \* records of a text, a sequence of lexemes, and the fuel

ASSUME ParserAssumption ==
  /\ {"import_stmt", "include_stmt", "rule_decl"} \subseteq DOMAIN Rules
  /\ \A s \in Sources : s.fuel \in Nat /\ s.text \in Seq(ToSet(s.text))

ClosuresOf(instr) ==
    CASE instr.op \in {"opt", "not", "if_next", "n_or_more", "then", "cached"} -> {instr.body}
      [] instr.op = "alt" -> ToSet(instr.alts)
      [] OTHER -> {}

\* How often begin and end are called in the first i instructions.
Calls(p, op, i) == Cardinality({j \in 1 .. i : p[j].op = op})

\* Every rule and every closure ends the nodes that it begins, and no others.
Balanced(p) ==
  /\ \A i \in DOMAIN p : Calls(p, "end", i) <= Calls(p, "begin", i)
  /\ Calls(p, "end", Len(p)) = Calls(p, "begin", Len(p))

ASSUME GrammarAssumption ==
  /\ \A name \in DOMAIN Rules : Rules[name] \in Bodies
  /\ \A p \in Bodies :
       /\ p \in Seq(ToSet(p)) /\ Balanced(p)
       /\ \A i \in DOMAIN p :
            /\ ClosuresOf(p[i]) \subseteq Bodies
            /\ p[i].op = "call" => p[i].name \in DOMAIN Rules
            /\ p[i].op = "alt" => p[i].alts \in Seq(Bodies) /\ p[i].alts # << >>
            /\ p[i].op = "n_or_more" => p[i].n \in Nat

VARIABLES
  tokens, output,
  state,                     \* StartOfInput, OK, Failure, OutOfFuel or EndOfInput
  opt_depth, not_depth,
  expected_token_errors,     \* spans at which some token was expected
  unexpected_token_errors,   \* spans of tokens found inside a not
  pending_errors,            \* spans of the errors not yet in the output
  cache,                     \* <<position, kind>> of the failures
  fuel,
  stack,                     \* frames, the innermost first
  emitted                    \* the events handed out so far

errorVars == <<expected_token_errors, unexpected_token_errors, pending_errors>>
vars == <<source, tokens, output, state, opt_depth, not_depth, errorVars, cache, fuel,
          stack, emitted>>

Frame(code, exit) == [code |-> code, exit |-> exit]
ItemExit == [do |-> "item"]

Init ==
  /\ \E s \in Sources : source = s.text /\ fuel = s.fuel
  /\ tokens = NewStream /\ output = NewOutput
  /\ state = "StartOfInput"
  /\ opt_depth = 0 /\ not_depth = 0
  /\ expected_token_errors = {} /\ unexpected_token_errors = {} /\ pending_errors = << >>
  /\ cache = {}
  /\ stack = << >> /\ emitted = << >>

-----------------------------------------------------------------------------
Stopped == state \in {"Failure", "OutOfFuel"}
SetState(s) == IF state = "OutOfFuel" THEN state ELSE s

Code == stack[1].code
Instr == Code[1]
Runs(op) == stack # << >> /\ Code # << >> /\ Instr.op = op
Done(do) == stack # << >> /\ Code = << >> /\ stack[1].exit.do = do
Exit == stack[1].exit

\* The stack with the instruction replaced by code, and with a frame for
\* code on top, in place of the frame that is done.
Continue(code) == <<[stack[1] EXCEPT !.code = code \o Tail(@)]>> \o Tail(stack)
Enter(code, exit) == <<Frame(code, exit)>> \o Continue(<< >>)
Again(code, exit) == <<Frame(code, exit)>> \o Tail(stack)

Ids(set) == {TokenId(k) : k \in set}

\* The next token that is not trivia, and the stream that has looked ahead to it.
NextToken == NextNonTrivia(tokens.current)
Ahead == Fetch(tokens, NextToken)
NextIn(set) == NextToken <= Len(source) /\ TokenAt(tokens, NextToken) \in Ids(set)

\* The events of the tokens from .. to; trivia are the same in every mode.
TokenEvents(from, to) ==
    [k \in 1 .. to - from + 1 |-> TokenEvent(TokenAt(tokens, from + k - 1), from + k - 1)]

TriviaEvents(from, to) ==
    [k \in 1 .. to - from + 1 |-> TokenEvent(source[from + k - 1], from + k - 1)]

\* trivia: both streams after the trivia tokens in front of the next token.
SkipTrivia(ts, out) ==
  \E i \in {NextNonTrivia(ts.current)} :
    /\ tokens' = AdvanceTo(Fetch(ts, i), i - 1)
    /\ output' = PushTokens(out, TriviaEvents(ts.current + 1, i - 1))

Bookmark(ts, out) == [tokens |-> ts.current, output |-> Len(out.events)]

\* Mutant of RestoreBookmark: the events stay.
RestoreBookmarkKeepsEvents(bm) == [tokens |-> RestoreTokens(tokens, bm.tokens), output |-> output]

RestoreBookmark(bm) ==
    [tokens |-> RestoreTokens(tokens, bm.tokens), output |-> Truncate(output, bm.output)]

RemoveBookmark(p, bm) ==
    [tokens |-> UnmarkTokens(p.tokens, bm.tokens), output |-> UnmarkOutput(p.output)]

\* The streams after a branch with bookmark bm, restored or not.
Leave(bm, restored) ==
    RemoveBookmark(IF restored THEN RestoreBookmark(bm)
                   ELSE [tokens |-> tokens, output |-> output], bm)

Here == Bookmark(tokens, output)

\* handle_errors: the error at the largest offset, unless there is one with
\* the same span already.
Handled(expected, unexpected, pending) ==
    LET spans == expected \union unexpected
    IN  IF spans = {} \/ Max(spans) \in ToSet(pending) THEN pending
        ELSE Append(pending, Max(spans))

HandleErrors(expected) ==
  /\ pending_errors' = Handled(expected, unexpected_token_errors, pending_errors)
  /\ expected_token_errors' = {} /\ unexpected_token_errors' = {}

-----------------------------------------------------------------------------
(* The methods that do nothing once the parser has failed.                  *)
Skip ==
  /\ stack # << >> /\ Code # << >>
  /\ IF Instr.op = "recover" THEN state = "OutOfFuel"
     ELSE Stopped /\ Instr.op \notin {"begin", "end", "call"}
  /\ stack' = Continue(<< >>)
  /\ UNCHANGED <<source, tokens, output, state, opt_depth, not_depth, errorVars, cache,
                 fuel, emitted>>

Call ==
  /\ Runs("call")
  /\ stack' = Continue(Rules[Instr.name])
  /\ UNCHANGED <<source, tokens, output, state, opt_depth, not_depth, errorVars, cache,
                 fuel, emitted>>

Then ==
  /\ Runs("then") /\ ~Stopped
  /\ SkipTrivia(tokens, output)
  /\ stack' = Continue(Instr.body)
  /\ UNCHANGED <<source, state, opt_depth, not_depth, errorVars, cache, fuel, emitted>>

Begin ==
  /\ Runs("begin")
  /\ \E i \in {IF Stopped THEN tokens.current + 1 ELSE NextToken} :
        /\ tokens' = IF Stopped THEN tokens ELSE AdvanceTo(Ahead, i - 1)
        /\ output' = BeginNode(PushTokens(output, TriviaEvents(tokens.current + 1, i - 1)),
                               Instr.kind)
  /\ IF fuel = 0 THEN state' = "OutOfFuel" /\ UNCHANGED fuel
     ELSE fuel' = fuel - 1 /\ UNCHANGED state
  /\ stack' = Continue(<< >>)
  /\ UNCHANGED <<source, opt_depth, not_depth, errorVars, cache, emitted>>

End ==
  /\ Runs("end")
  /\ output' = IF Stopped THEN EndNodeWithError(output) ELSE EndNode(output)
  /\ IF Stopped /\ opt_depth = 0 THEN HandleErrors(expected_token_errors)
     ELSE UNCHANGED errorVars
  /\ stack' = Continue(<< >>)
  /\ UNCHANGED <<source, tokens, state, opt_depth, not_depth, cache, fuel, emitted>>

EnterHexMode(op) ==
  /\ Runs(op) /\ ~Stopped
  /\ tokens' = IF op = "enter_hex_jump_mode" THEN EnterHexJumpMode(tokens)
               ELSE EnterHexPatternMode(tokens)
  /\ stack' = Continue(<< >>)
  /\ UNCHANGED <<source, output, state, opt_depth, not_depth, errorVars, cache, fuel, emitted>>

-----------------------------------------------------------------------------
(* The methods that look at the next token.                                 *)
Expect ==
  /\ Runs("expect") /\ ~Stopped
  /\ NextIn(Instr.set)
  /\ LET kind == CHOOSE k \in Instr.set : TokenId(k) = TokenAt(tokens, NextToken)
     IN  output' = PushTokens(output, Append(TriviaEvents(tokens.current + 1, NextToken - 1),
                                             TokenEvent(kind, NextToken)))
  /\ tokens' = AdvanceTo(Ahead, NextToken)
  /\ unexpected_token_errors' = IF not_depth > 0 THEN unexpected_token_errors \union {NextToken}
                                ELSE unexpected_token_errors
  /\ stack' = Continue(<< >>)
  /\ UNCHANGED <<source, state, opt_depth, not_depth, expected_token_errors, pending_errors,
                 cache, fuel, emitted>>

ExpectFails ==
  /\ Runs("expect") /\ ~Stopped
  /\ ~NextIn(Instr.set)
  /\ tokens' = Ahead
  /\ state' = "Failure"
  /\ expected_token_errors' = IF not_depth = 0 THEN expected_token_errors \union {NextToken}
                              ELSE expected_token_errors
  /\ stack' = Continue(<< >>)
  /\ UNCHANGED <<source, output, opt_depth, not_depth, unexpected_token_errors, pending_errors,
                 cache, fuel, emitted>>

IfNext ==
  /\ Runs("if_next") /\ ~Stopped
  /\ NextIn(Instr.set)
  /\ SkipTrivia(tokens, output)
  /\ stack' = Continue(Instr.body)
  /\ UNCHANGED <<source, state, opt_depth, not_depth, errorVars, cache, fuel, emitted>>

IfNextNot ==
  /\ Runs("if_next") /\ ~Stopped
  /\ ~NextIn(Instr.set)
  /\ tokens' = Ahead
  /\ expected_token_errors' = IF NextToken <= Len(source)
                              THEN expected_token_errors \union {NextToken}
                              ELSE expected_token_errors
  /\ stack' = Continue(<< >>)
  /\ UNCHANGED <<source, output, state, opt_depth, not_depth, unexpected_token_errors,
                 pending_errors, cache, fuel, emitted>>

-----------------------------------------------------------------------------
(* The branches that may fail: a bookmark, the trivia, the closure.         *)
MarkAndSkipTrivia(ts, out) == SkipTrivia(MarkTokens(ts), MarkOutput(out))

Opt ==
  /\ Runs("opt") /\ ~Stopped
  /\ MarkAndSkipTrivia(tokens, output)
  /\ opt_depth' = opt_depth + 1
  /\ stack' = Enter(Instr.body, [do |-> "opt", bm |-> Here])
  /\ UNCHANGED <<source, state, not_depth, errorVars, cache, fuel, emitted>>

OptDone ==
  /\ Done("opt")
  /\ LET p == Leave(Exit.bm, state = "Failure") IN tokens' = p.tokens /\ output' = p.output
  /\ state' = IF state = "Failure" THEN "OK" ELSE state
  /\ opt_depth' = opt_depth - 1
  /\ stack' = Tail(stack)
  /\ UNCHANGED <<source, not_depth, errorVars, cache, fuel, emitted>>

Not ==
  /\ Runs("not") /\ ~Stopped
  /\ MarkAndSkipTrivia(tokens, output)
  /\ not_depth' = not_depth + 1
  /\ stack' = Enter(Instr.body, [do |-> "not", bm |-> Here])
  /\ UNCHANGED <<source, state, opt_depth, errorVars, cache, fuel, emitted>>

NotDone ==
  /\ Done("not")
  /\ LET p == Leave(Exit.bm, TRUE) IN tokens' = p.tokens /\ output' = p.output
  /\ state' = CASE state = "OK"        -> "Failure"
                [] state = "Failure"   -> "OK"
                [] state = "OutOfFuel" -> "OutOfFuel"
  /\ not_depth' = not_depth - 1
  /\ stack' = Tail(stack)
  /\ UNCHANGED <<source, opt_depth, errorVars, cache, fuel, emitted>>

\* n_or_more: the first n times the closure must succeed.
Repeat(n, body, below) ==
    IF n > 0
    THEN /\ SkipTrivia(tokens, output)
         /\ stack' = <<Frame(body, [do |-> "first", n |-> n - 1, body |-> body])>> \o below
         /\ UNCHANGED opt_depth
    ELSE /\ MarkAndSkipTrivia(tokens, output)
         /\ stack' = <<Frame(body, [do |-> "more", body |-> body, bm |-> Here])>> \o below
         /\ opt_depth' = opt_depth + 1

NOrMore ==
  /\ Runs("n_or_more") /\ ~Stopped
  /\ Repeat(Instr.n, Instr.body, Continue(<< >>))
  /\ UNCHANGED <<source, state, not_depth, errorVars, cache, fuel, emitted>>

FirstDone ==
  /\ Done("first")
  /\ IF Stopped THEN stack' = Tail(stack) /\ UNCHANGED <<tokens, output, opt_depth>>
     ELSE Repeat(Exit.n, Exit.body, Tail(stack))
  /\ UNCHANGED <<source, state, not_depth, errorVars, cache, fuel, emitted>>

\* After the first n times, it goes on until the closure fails.
MoreDone ==
  /\ Done("more")
  /\ LET p == Leave(Exit.bm, Stopped)
     IN  IF Stopped
         THEN /\ tokens' = p.tokens /\ output' = p.output
              /\ stack' = Tail(stack)
              /\ state' = SetState("OK")
              /\ opt_depth' = opt_depth - 1
         ELSE /\ MarkAndSkipTrivia(p.tokens, p.output)
              /\ stack' = Again(Exit.body, [Exit EXCEPT !.bm = Bookmark(p.tokens, p.output)])
              /\ UNCHANGED <<state, opt_depth>>
  /\ UNCHANGED <<source, not_depth, errorVars, cache, fuel, emitted>>

\* begin_alt and the first alternative; the others follow in AltDone.
Alt ==
  /\ Runs("alt") /\ ~Stopped
  /\ MarkAndSkipTrivia(tokens, output)
  /\ opt_depth' = opt_depth + 1
  /\ stack' = Enter(Instr.alts[1], [do |-> "alt", alts |-> Tail(Instr.alts), bm |-> Here])
  /\ UNCHANGED <<source, state, not_depth, errorVars, cache, fuel, emitted>>

\* alt: the next alternative after one that failed.
AltNext ==
  /\ Done("alt") /\ state = "Failure" /\ Exit.alts # << >>
  /\ LET p == RestoreBookmark(Exit.bm) IN SkipTrivia(p.tokens, p.output)
  /\ state' = "OK"
  /\ stack' = Again(Exit.alts[1], [Exit EXCEPT !.alts = Tail(@)])
  /\ UNCHANGED <<source, opt_depth, not_depth, errorVars, cache, fuel, emitted>>

\* end_alt: an alternative matched, or the last one failed.
AltDone ==
  /\ Done("alt") /\ (state = "Failure" => Exit.alts = << >>)
  /\ LET p == Leave(Exit.bm, state = "Failure") IN tokens' = p.tokens /\ output' = p.output
  /\ opt_depth' = opt_depth - 1
  /\ stack' = Tail(stack)
  /\ UNCHANGED <<source, state, not_depth, errorVars, cache, fuel, emitted>>

Cached ==
  /\ Runs("cached") /\ ~Stopped
  /\ IF <<tokens.current, Instr.kind>> \in cache
     THEN state' = "Failure" /\ stack' = Continue(<< >>)
     ELSE /\ stack' = Enter(Instr.body, [do |-> "cached", kind |-> Instr.kind,
                                         start |-> tokens.current])
          /\ UNCHANGED state
  /\ UNCHANGED <<source, tokens, output, opt_depth, not_depth, errorVars, cache, fuel, emitted>>

CachedDone ==
  /\ Done("cached")
  /\ cache' = IF state = "Failure" THEN cache \union {<<Exit.start, Exit.kind>>} ELSE cache
  /\ stack' = Tail(stack)
  /\ UNCHANGED <<source, tokens, output, state, opt_depth, not_depth, errorVars, fuel, emitted>>

-----------------------------------------------------------------------------
(* recover: what is not in the recovery set goes into an ERROR node.        *)

RecoverAtEnd ==
  /\ Runs("recover") /\ state # "OutOfFuel"
  /\ NextToken > Len(source)
  /\ tokens' = Ahead
  /\ state' = "OK"
  /\ stack' = Continue(<< >>)
  /\ UNCHANGED <<source, output, opt_depth, not_depth, errorVars, cache, fuel, emitted>>

RecoverFound ==
  /\ Runs("recover") /\ state # "OutOfFuel"
  /\ NextIn(Instr.set)
  /\ tokens' = Ahead
  /\ state' = "OK"
  /\ IF state = "OK" THEN UNCHANGED errorVars ELSE HandleErrors(expected_token_errors)
  /\ stack' = Continue(<< >>)
  /\ UNCHANGED <<source, output, opt_depth, not_depth, cache, fuel, emitted>>

\* The tokens before the next one in the set, without the trivia that follow
\* the last of them, become an ERROR node, after errors with the spans given.
Discard(set, spans) ==
  \E stop \in {Min({i \in NextToken .. Len(source) : TokenAt(tokens, i) \in Ids(set)}
                    \union {Len(source) + 1})} :
  \E last \in {Max({i \in NextToken .. stop - 1 : source[i] \notin Trivia})} :
    /\ tokens' = AdvanceTo(Fetch(tokens, stop), last)
    /\ LET before == PushTokens(output, TriviaEvents(tokens.current + 1, NextToken - 1))
       IN  output' = PushErrorNode(PushErrors(before, spans), TokenEvents(NextToken, last))

RecoverDiscards ==
  /\ Runs("recover") /\ state # "OutOfFuel"
  /\ NextToken <= Len(source) /\ ~NextIn(Instr.set)
  /\ HandleErrors(IF pending_errors = << >> THEN expected_token_errors \union {NextToken}
                  ELSE expected_token_errors)
  /\ Discard(Instr.set, << >>)
  /\ state' = IF fuel = 0 THEN "OutOfFuel" ELSE "OK"
  /\ fuel' = IF fuel = 0 THEN 0 ELSE fuel - 1
  /\ stack' = Continue(<< >>)
  /\ UNCHANGED <<source, opt_depth, not_depth, cache, emitted>>

-----------------------------------------------------------------------------
(* The iterator.                                                            *)
Start ==
  /\ state = "StartOfInput"
  /\ state' = "OK"
  /\ emitted' = <<BeginEvent("SOURCE_FILE", 0, Len(source))>>
  /\ UNCHANGED <<source, tokens, output, opt_depth, not_depth, errorVars, cache, fuel, stack>>

Idle == state \in {"OK", "OutOfFuel"} /\ stack = << >>

Pop ==
  /\ Idle /\ output.events # << >>
  /\ emitted' = Append(emitted, Head(output.events))
  /\ output' = [output EXCEPT !.events = Tail(@)]
  /\ UNCHANGED <<source, tokens, state, opt_depth, not_depth, errorVars, cache, fuel, stack>>

ItemRule(token) ==
    CASE token = "IMPORT_KW"  -> "import_stmt"
      [] token = "INCLUDE_KW" -> "include_stmt"
      [] token \in {"GLOBAL_KW", "PRIVATE_KW", "RULE_KW"} -> "rule_decl"
      [] OTHER -> "none"

\* Trivia, and top_level_item up to the rule it calls.
ParseItem ==
  /\ Idle /\ output.events = << >> /\ state # "OutOfFuel" /\ tokens.current < Len(source)
  /\ NextToken <= Len(source) /\ ItemRule(TokenAt(tokens, NextToken)) # "none"
  /\ SkipTrivia(tokens, output)
  /\ stack' = <<Frame(<<call(ItemRule(TokenAt(tokens, NextToken)))>>, ItemExit)>>
  /\ UNCHANGED <<source, state, opt_depth, not_depth, errorVars, cache, fuel, emitted>>

\* Only trivia is left.
ParseTrivia ==
  /\ Idle /\ output.events = << >> /\ state # "OutOfFuel" /\ tokens.current < Len(source)
  /\ NextToken > Len(source)
  /\ SkipTrivia(tokens, output)
  /\ state' = "Failure"
  /\ stack' = <<Frame(<< >>, ItemExit)>>
  /\ UNCHANGED <<source, opt_depth, not_depth, errorVars, cache, fuel, emitted>>

\* No item starts here: everything up to the next rule is an ERROR node.
ParseJunk ==
  /\ Idle /\ output.events = << >> /\ state # "OutOfFuel" /\ tokens.current < Len(source)
  /\ NextToken <= Len(source) /\ ItemRule(TokenAt(tokens, NextToken)) = "none"
  /\ Discard({"GLOBAL_KW", "PRIVATE_KW", "RULE_KW"}, <<NextToken>>)
  /\ state' = "Failure"
  /\ stack' = <<Frame(<< >>, ItemExit)>>
  /\ UNCHANGED <<source, opt_depth, not_depth, errorVars, cache, fuel, emitted>>

\* What next does once the item is parsed, with the first event it returns,
\* which is the end of the input if the item left no event.
ItemDone ==
  /\ Done("item")
  /\ LET out == PushErrors(output, pending_errors)
     IN  IF out.events = << >>
         THEN /\ state' = "EndOfInput" /\ output' = out
              /\ emitted' = Append(emitted, EndEvent("SOURCE_FILE", 0, Len(source)))
         ELSE /\ state' = SetState("OK")
              /\ output' = [out EXCEPT !.events = Tail(@)]
              /\ emitted' = Append(emitted, Head(out.events))
  /\ pending_errors' = << >>
  /\ cache' = {}
  /\ stack' = << >>
  /\ UNCHANGED <<source, tokens, opt_depth, not_depth, expected_token_errors,
                 unexpected_token_errors, fuel>>

Finish ==
  /\ Idle /\ output.events = << >>
  /\ state # "OutOfFuel" => tokens.current = Len(source)
  /\ state' = "EndOfInput"
  /\ emitted' = Append(emitted, EndEvent("SOURCE_FILE", 0, Len(source)))
  /\ UNCHANGED <<source, tokens, output, opt_depth, not_depth, errorVars, cache, fuel, stack>>

-----------------------------------------------------------------------------
EnterHexPattern == EnterHexMode("enter_hex_pattern_mode")
EnterHexJump == EnterHexMode("enter_hex_jump_mode")

Next ==
  \/ Skip \/ Call \/ Then \/ Begin \/ End
  \/ EnterHexPattern \/ EnterHexJump
  \/ Expect \/ ExpectFails \/ IfNext \/ IfNextNot
  \/ Opt \/ OptDone \/ Not \/ NotDone
  \/ NOrMore \/ FirstDone \/ MoreDone
  \/ Alt \/ AltNext \/ AltDone
  \/ Cached \/ CachedDone
  \/ RecoverAtEnd \/ RecoverFound \/ RecoverDiscards
  \/ Start \/ Pop \/ ParseItem \/ ParseTrivia \/ ParseJunk \/ ItemDone \/ Finish

\* One thread runs the parser: it goes on as long as somebody asks for events.
Spec == Init /\ [][Next]_vars /\ WF_vars(Next)

-----------------------------------------------------------------------------
Modes == {"Normal", "HexPattern", "HexJump"}
Exits == {"item", "opt", "not", "first", "more", "alt", "cached"}
Branches == {"opt", "not", "more", "alt"}

TypeOK ==
  /\ tokens.mode \in Modes
  /\ tokens.purged <= tokens.current /\ tokens.current <= Lexed(tokens)
  /\ Lexed(tokens) <= Len(source)
  /\ state \in {"StartOfInput", "OK", "Failure", "OutOfFuel", "EndOfInput"}
  /\ fuel \in Nat
  /\ \A i \in DOMAIN output.open_begins :
        LET b == output.open_begins[i]
        IN  b \in DOMAIN output.events /\ output.events[b].type = "Begin"
  /\ expected_token_errors \union unexpected_token_errors \union ToSet(pending_errors)
        \subseteq 1 .. Len(source) + 1
  /\ \A i \in DOMAIN stack : stack[i].exit.do \in Exits

\* The frames counted from the outermost one, and those of some methods.
Level(k) == stack[Len(stack) + 1 - k]
Levels(methods) == {k \in DOMAIN stack : Level(k).exit.do \in methods}

\* The bookmarks of both streams are those of the branches that are open and
\* lead to tokens that are still buffered and to events that are still there,
\* and going back never cuts an open node off, so that none of the panics of
\* the two streams is reached (token_stream.rs:140-151 and 193-209,
\* syntax_stream.rs:44-52, 178 and 196-201).  The depths count the branches.
BookmarksAreLive ==
  /\ TypeOK
  /\ Len(tokens.bookmarks) = Cardinality(Levels(Branches))
  /\ output.num_bookmarks = Cardinality(Levels(Branches))
  /\ not_depth = Cardinality(Levels({"not"}))
  /\ opt_depth = Cardinality(Levels(Branches \ {"not"}))
  /\ \A k \in Levels(Branches) :
        LET bm == Level(k).exit.bm
        IN  /\ tokens.bookmarks[Cardinality({j \in Levels(Branches) : j <= k})] = bm.tokens
            /\ bm.tokens \in tokens.purged .. tokens.current
            /\ bm.output <= Len(output.events)
  /\ stack # << >> /\ Code = << >> /\ Exit.do \in Branches =>
        \A i \in DOMAIN output.open_begins : output.open_begins[i] <= Exit.bm.output
  /\ stack = << >> => output.open_begins = << >>

\* The token events handed out and in the buffer are the tokens consumed, each
\* once and in order, at every step of every branch and of the recovery.
Lossless ==
  LET events == emitted \o output.events
      consumed == {i \in DOMAIN events : events[i].type = "Token"}
  IN  /\ Cardinality(consumed) = tokens.current
      /\ \A i \in consumed : events[i].to = Cardinality({j \in consumed : j <= i})

\* The parser ends on every source, at its end unless it is out of fuel: each
\* round of a repetition and each item consumes a token
\* (parser/mod.rs:807-822 and 257-267).
Ends == <>(state = "EndOfInput" /\ (fuel > 0 => tokens.current = Len(source)))
=============================================================================
